---- MODULE BenchmarkRunProofs ----
(***************************************************************************)
(* Proofs about BenchmarkRun, for every list of cells and queries, batch   *)
(* size, limit, window, set of faults and number of restarts.              *)
(*                                                                         *)
(* The first invariant, IInv, is about one run: the row being judged, the  *)
(* stop file, the breakers against the rows of their cells.  The second,   *)
(* FullInv, adds what ties a run to its plan and to the files before it:   *)
(* what the files hold, what the plan still holds and what was asked of    *)
(* it, the window of the watch, the counters of the open session, the rows *)
(* the sessions close with, and what they read of their downloads.  From   *)
(* it follows what the report, Report, makes of the file.                  *)
(***************************************************************************)
EXTENDS BenchmarkRun, BreakerProofs, SequenceLemmas

\* A sequence, whatever it holds: rows are records of six kinds.
IsSeq(s) == s \in Seq(Range(s))
----------------------------------------------------------------------------
(* The inductive invariant.                                                *)

\* After the stop file appeared, at most one attempt was sent, and none is
\* about to be: the process never comes back to a session it may ask in.
PromptInv ==
  /\ late \in {0, 1}
  /\ late = 1 => /\ pc \in {"judge", "unwinding", "closing", "head", "over"}
                 /\ stopfile # "absent"

\* A run that has begun has a file of its own, and its rows are a sequence.
FileInv ==
  /\ IsSeq(disk)
  /\ pc # "idle" => /\ disk # <<>>
                    /\ DOMAIN disk[Len(disk)] = {"rows", "place"}
                    /\ IsSeq(Rows)

\* A session answers no more than it attempts.
BreakerInv ==
  /\ breakers \in [Cells -> SessionBreakers]
  /\ \A c \in Cells : /\ breakers[c].session_ok <= breakers[c].session_arrived
                      /\ breakers[c].session_arrived <= breakers[c].session_attempts

\* The row being judged is the last one, an attempt of the cell in hand.
JudgeInv ==
  pc = "judge" => /\ Rows # <<>>
                  /\ Rows[Len(Rows)].kind = "attempt"
                  /\ Rows[Len(Rows)].cell = Cell
                  /\ Rows[Len(Rows)].outcome \in Outcomes

Stops(c) == OfCell(Rows, "cell_stopped", c)
Sent(c) == OfCell(Rows, "attempt", c)

\* A cell has its stop in the file only if it is stopped, and lacks it when
\* stopped only while its session is still to be closed, or when the run was
\* cut off there.  Nothing is asked of it afterwards, for a session is open
\* only while its cell runs.
StopsInv ==
  pc # "idle" =>
    \A c \in Cells :
      /\ Stops(c) # {} => Tripped(breakers[c])
      /\ Tripped(breakers[c]) => Stops(c) # {} \/ (pc = "closing" /\ c = Cell) \/ pc = "over"
      /\ \A s \in Stops(c), i \in Sent(c) : i < s
      /\ pc \in {"identify", "session", "judge", "unwinding"} /\ c = Cell =>
           ~Tripped(breakers[c])

\* What the breakers know of a cell is what its rows say, but for the row
\* being judged and for a session that an exception is unwinding.
Silent(rows) == \A i \in rows : IsTransportFailure(Rows[i].outcome)
VerdictInv ==
  /\ raised \in {"nothing", "transport", "operator", "ctrl_c"}
  /\ pc # "idle" /\ ~swallowed /\ (pc = "over" => ending = "finished") =>
       \A c \in Cells :
         IF pc = "judge" /\ c = Cell
         THEN NoVerdict(breakers[c]) <=> Silent(Sent(c) \ {Len(Rows)})
         ELSE \/ pc = "unwinding" /\ c = Cell
              \/ NoVerdict(breakers[c]) <=> Silent(Sent(c))

PrintedInv == pc = "over" /\ ending = "finished" /\ ~swallowed => SummaryAgrees

IInv ==
  /\ PromptInv
  /\ FileInv
  /\ BreakerInv
  /\ JudgeInv
  /\ StopsInv
  /\ VerdictInv
  /\ PrintedInv
----------------------------------------------------------------------------
(* The row file.                                                           *)

\* The rows of the newest of the files d.
RowsOf(d) == d[Len(d)].rows
IsFiles(d) ==
  /\ IsSeq(d)
  /\ d # <<>>
  /\ DOMAIN d[Len(d)] = {"rows", "place"}
  /\ IsSeq(RowsOf(d))

LEMMA Singleton ==
  ASSUME NEW e
  PROVE  IsSeq(<<e>>) /\ Len(<<e>>) = 1 /\ <<e>>[1] = e
<1>1. <<e>> \in Seq({e})
  OBVIOUS
<1> QED BY <1>1, SeqOfRange DEF IsSeq

LEMMA PairOfRows ==
  ASSUME NEW x, NEW y
  PROVE  LET two == <<x>> \o <<y>>
         IN  IsSeq(two) /\ DOMAIN two = {1, 2} /\ two[1] = x /\ two[2] = y
<1> DEFINE S == {x, y}
<1>1. <<x>> \in Seq(S) /\ Len(<<x>>) = 1 /\ <<x>>[1] = x
  OBVIOUS
<1>2. <<y>> \in Seq(S) /\ Len(<<y>>) = 1 /\ <<y>>[1] = y
  OBVIOUS
<1>3. /\ <<x>> \o <<y>> \in Seq(S)
      /\ Len(<<x>> \o <<y>>) = 2
      /\ (<<x>> \o <<y>>)[1] = x
      /\ (<<x>> \o <<y>>)[2] = y
  BY <1>1, <1>2, ConcatProperties
<1>4. DOMAIN (<<x>> \o <<y>>) = {1, 2}
  BY <1>3, LenProperties
<1> QED BY <1>3, <1>4, SeqOfRange DEF IsSeq

LEMMA Concatenation ==
  ASSUME NEW s, IsSeq(s), NEW t, IsSeq(t)
  PROVE  /\ IsSeq(s \o t)
         /\ Len(s) \in Nat /\ Len(t) \in Nat
         /\ Len(s \o t) = Len(s) + Len(t)
         /\ DOMAIN s = 1..Len(s) /\ DOMAIN t = 1..Len(t)
         /\ DOMAIN (s \o t) = 1..(Len(s) + Len(t))
         /\ \A i \in 1..Len(s) : (s \o t)[i] = s[i]
         /\ \A i \in 1..Len(t) : (s \o t)[Len(s) + i] = t[i]
<1> DEFINE S == Range(s) \cup Range(t)
<1>1. s \in Seq(S) /\ t \in Seq(S)
  BY SeqMonotonic DEF IsSeq
<1> HIDE DEF S
<1>2. /\ s \o t \in Seq(S)
      /\ Len(s \o t) = Len(s) + Len(t)
      /\ \A i \in 1..Len(s) + Len(t) :
           (s \o t)[i] = IF i <= Len(s) THEN s[i] ELSE t[i - Len(s)]
  BY <1>1, ConcatProperties
<1>3. Len(s) \in Nat /\ Len(t) \in Nat /\ DOMAIN s = 1..Len(s) /\ DOMAIN t = 1..Len(t)
  BY <1>1, LenProperties
<1>4. IsSeq(s \o t) /\ DOMAIN (s \o t) = 1..Len(s \o t)
  BY <1>2, SeqOfRange, LenProperties DEF IsSeq
<1> QED BY <1>2, <1>3, <1>4

\* One more row is a list of one row more.
LEMMA AppendOne ==
  ASSUME NEW s, IsSeq(s), NEW e
  PROVE  Append(s, e) = s \o <<e>>
<1> DEFINE S == Range(s) \cup {e}
<1>1. s \in Seq(S)
  BY SeqMonotonic DEF IsSeq
<1> QED BY <1>1, AppendIsConcat

\* The newest file with something of it changed.
LEMMA NewestChanged ==
  ASSUME NEW d, IsFiles(d), NEW file, DOMAIN file = {"rows", "place"}, IsSeq(file.rows)
  PROVE  /\ IsFiles([d EXCEPT ![Len(d)] = file])
         /\ RowsOf([d EXCEPT ![Len(d)] = file]) = file.rows
<1> DEFINE S == Range(d) \cup {file}
           e == [d EXCEPT ![Len(d)] = file]
<1>1. d \in Seq(S) /\ file \in S
  BY SeqMonotonic DEF IsFiles, IsSeq
<1>2. Len(d) \in 1..Len(d)
  BY <1>1, EmptySeq DEF IsFiles
<1>3. e \in Seq(S) /\ Len(e) = Len(d) /\ e[Len(d)] = file
  BY <1>1, <1>2, ExceptSeq
<1>4. IsSeq(e)
  BY <1>3, SeqOfRange DEF IsSeq
<1>5. e # <<>>
  BY <1>2, <1>3, EmptySeq
<1> QED BY <1>3, <1>4, <1>5 DEF IsFiles, RowsOf

\* sink.write, of any number of rows.
LEMMA RowsWritten ==
  ASSUME NEW d, IsFiles(d), NEW more, IsSeq(more)
  PROVE  /\ IsFiles([d EXCEPT ![Len(d)].rows = @ \o more])
         /\ RowsOf([d EXCEPT ![Len(d)].rows = @ \o more]) = RowsOf(d) \o more
<1> DEFINE file == [d[Len(d)] EXCEPT !.rows = RowsOf(d) \o more]
<1>1. DOMAIN file = {"rows", "place"} /\ file.rows = RowsOf(d) \o more
  BY DEF IsFiles
<1>2. IsSeq(file.rows)
  BY <1>1, Concatenation DEF IsFiles
<1>3. [d EXCEPT ![Len(d)].rows = @ \o more] = [d EXCEPT ![Len(d)] = file]
  BY DEF RowsOf
<1> HIDE DEF file
<1> QED BY <1>1, <1>2, <1>3, NewestChanged

\* The disposal of the file.
LEMMA FilePlaced ==
  ASSUME NEW d, IsFiles(d), NEW place
  PROVE  /\ IsFiles([d EXCEPT ![Len(d)].place = place])
         /\ RowsOf([d EXCEPT ![Len(d)].place = place]) = RowsOf(d)
<1> DEFINE file == [d[Len(d)] EXCEPT !.place = place]
<1>1. DOMAIN file = {"rows", "place"} /\ file.rows = RowsOf(d)
  BY DEF IsFiles, RowsOf
<1>2. [d EXCEPT ![Len(d)].place = place] = [d EXCEPT ![Len(d)] = file]
  OBVIOUS
<1> HIDE DEF file
<1> QED BY <1>1, <1>2, NewestChanged DEF IsFiles

LEMMA OneWritten ==
  ASSUME IsFiles(disk), NEW row
  PROVE  IsFiles(Written(row)) /\ RowsOf(Written(row)) = RowsOf(disk) \o <<row>>
<1>1. Append(RowsOf(disk), row) = RowsOf(disk) \o <<row>> /\ IsSeq(<<row>>)
  BY AppendOne, Singleton DEF IsFiles
<1>2. Written(row) = [disk EXCEPT ![Len(disk)].rows = @ \o <<row>>]
  BY <1>1 DEF Written, RowsOf
<1> QED BY <1>1, <1>2, RowsWritten

\* The rows of a kind and a cell, in a file with more rows.
LEMMA OfCellGrown ==
  ASSUME NEW rows, IsSeq(rows), NEW more, IsSeq(more), NEW kind, NEW c
  PROVE  /\ OfCell(rows, kind, c) \subseteq 1..Len(rows)
         /\ OfCell(rows \o more, kind, c) =
              OfCell(rows, kind, c) \cup {Len(rows) + i : i \in OfCell(more, kind, c)}
         /\ \A i \in OfCell(rows, kind, c) : (rows \o more)[i] = rows[i]
<1> DEFINE all == rows \o more
<1>1. /\ Len(rows) \in Nat /\ Len(more) \in Nat
      /\ DOMAIN rows = 1..Len(rows) /\ DOMAIN more = 1..Len(more)
      /\ DOMAIN all = 1..(Len(rows) + Len(more))
      /\ \A i \in 1..Len(rows) : all[i] = rows[i]
      /\ \A i \in 1..Len(more) : all[Len(rows) + i] = more[i]
  BY Concatenation
<1> HIDE DEF all
<1>2. \A i \in DOMAIN all : i \in 1..Len(rows) \/ i - Len(rows) \in 1..Len(more)
  BY <1>1
<1>3. OfCell(all, kind, c) = OfCell(rows, kind, c) \cup {Len(rows) + i : i \in OfCell(more, kind, c)}
  <2>1. ASSUME NEW i \in OfCell(all, kind, c)
        PROVE  i \in OfCell(rows, kind, c) \/ \E j \in OfCell(more, kind, c) : i = Len(rows) + j
    <3>1. CASE i \in 1..Len(rows)
      BY <1>1, <2>1, <3>1 DEF OfCell
    <3>2. CASE i - Len(rows) \in 1..Len(more)
      <4>1. i = Len(rows) + (i - Len(rows))
        BY <1>1, <2>1 DEF OfCell
      <4> QED BY <1>1, <2>1, <3>2, <4>1 DEF OfCell
    <3> QED BY <1>2, <2>1, <3>1, <3>2 DEF OfCell
  <2>2. ASSUME NEW i \in OfCell(rows, kind, c) PROVE i \in OfCell(all, kind, c)
    BY <1>1 DEF OfCell
  <2>3. ASSUME NEW j \in OfCell(more, kind, c) PROVE Len(rows) + j \in OfCell(all, kind, c)
    BY <1>1 DEF OfCell
  <2> QED BY <2>1, <2>2, <2>3
<1> QED BY <1>1, <1>3 DEF OfCell, all
----------------------------------------------------------------------------
(* What a step does to the file.                                           *)

LEMMA BegunHasFile ==
  ASSUME FileInv, pc # "idle"
  PROVE  IsFiles(disk) /\ RowsOf(disk) = Rows /\ IsSeq(Rows) /\ Len(Rows) \in Nat
<1>1. RowsOf(disk) = Rows
  BY DEF RowsOf, Rows, Last
<1>2. IsFiles(disk) /\ IsSeq(Rows)
  BY <1>1 DEF FileInv, IsFiles
<1> QED BY <1>1, <1>2, LenProperties DEF IsSeq

\* Neither an attempt nor the stop of a cell was written.
SameRows ==
  \A c \in Cells : /\ Stops(c)' = Stops(c)
                   /\ Sent(c)' = Sent(c)
                   /\ \A i \in Sent(c) : Rows'[i] = Rows[i]

LEMMA QuietRow ==
  ASSUME FileInv, pc # "idle", NEW row, row.kind \notin {"attempt", "cell_stopped"},
         RowsOf(disk') = RowsOf(disk) \o <<row>>
  PROVE  SameRows
<1>1. IsSeq(Rows) /\ IsSeq(<<row>>) /\ Rows' = Rows \o <<row>>
  BY BegunHasFile, Singleton DEF RowsOf, Rows, Last
<1>2. DOMAIN <<row>> = {1} /\ <<row>>[1] = row
  OBVIOUS
<1>3. \A c : OfCell(<<row>>, "attempt", c) = {} /\ OfCell(<<row>>, "cell_stopped", c) = {}
  BY <1>2 DEF OfCell
<1>4. ASSUME NEW c \in Cells
      PROVE  /\ OfCell(Rows', "attempt", c) = OfCell(Rows, "attempt", c)
             /\ OfCell(Rows', "cell_stopped", c) = OfCell(Rows, "cell_stopped", c)
             /\ \A i \in OfCell(Rows, "attempt", c) : Rows'[i] = Rows[i]
  <2>1. \A kind \in {"attempt", "cell_stopped"} :
          {Len(Rows) + i : i \in OfCell(<<row>>, kind, c)} = {}
    BY <1>3
  <2>2. \A kind : /\ OfCell(Rows', kind, c) = OfCell(Rows, kind, c)
                       \cup {Len(Rows) + i : i \in OfCell(<<row>>, kind, c)}
                  /\ \A i \in OfCell(Rows, kind, c) : Rows'[i] = Rows[i]
    BY <1>1, OfCellGrown
  <2>3. \A kind \in {"attempt", "cell_stopped"} : OfCell(Rows', kind, c) = OfCell(Rows, kind, c)
    BY <2>1, <2>2
  <2> QED BY <2>2, <2>3
<1> QED BY <1>4 DEF SameRows, Stops, Sent

LEMMA NoRow ==
  ASSUME Rows' = Rows
  PROVE  SameRows
BY DEF SameRows, Stops, Sent

\* The end of a run leaves the rows it was given.
LEMMA OverFile ==
  ASSUME NEW how, NEW rows, IsFiles(rows), Over(how, rows)
  PROVE  IsFiles(disk') /\ RowsOf(disk') = RowsOf(rows)
<1>1. CASE how # "operator"
  BY <1>1 DEF Over
<1>2. CASE how = "operator"
  <2>1. PICK place : disk' = [rows EXCEPT ![Len(rows)].place = place]
    BY <1>2 DEF Over
  <2> QED BY <2>1, FilePlaced
<1> QED BY <1>1, <1>2

\* Steps that write a row of another kind.
QuietWrite ==
  \/ StopAtHead \/ SkipIdentity \/ SessionDies \/ JudgeTransport \/ JudgeStopRaises
  \/ CloseRaises \/ (Unwound /\ raised = "operator")
LEMMA QuietWriteRows ==
  ASSUME FileInv, QuietWrite
  PROVE  IsFiles(disk') /\ SameRows
<1>0. pc # "idle"
  BY DEF QuietWrite, StopAtHead, SkipIdentity, SessionDies, JudgeTransport, JudgeStopRaises,
         CloseRaises, Unwound
<1> DEFINE failed == [kind |-> "session_failed", cell |-> Cell]
           skipped == [kind |-> "identity_skipped", cell |-> Cell]
<1>1. IsFiles(disk)
  BY <1>0, BegunHasFile
<1>2. \A row : IsFiles(Written(row)) /\ RowsOf(Written(row)) = RowsOf(disk) \o <<row>>
  BY <1>1, OneWritten
<1>3. \E row \in {StopRow("operator"), StopRow("transport"), failed, skipped} :
        IsFiles(disk') /\ RowsOf(disk') = RowsOf(disk) \o <<row>>
  <2>1. CASE StopAtHead \/ (Unwound /\ raised = "operator")
    <3>1. Over("operator", Written(StopRow("operator")))
      BY <2>1 DEF StopAtHead, Unwound
    <3>2. IsFiles(Written(StopRow("operator")))
      BY <1>2
    <3>3. IsFiles(disk') /\ RowsOf(disk') = RowsOf(Written(StopRow("operator")))
      BY <3>1, <3>2, OverFile
    <3> QED BY <3>3, <1>2
  <2>2. CASE SkipIdentity
    BY <2>2, <1>2 DEF SkipIdentity, NextBatch
  <2>3. CASE SessionDies \/ JudgeStopRaises \/ CloseRaises
    BY <2>3, <1>2 DEF SessionDies, JudgeStopRaises, CloseRaises, SessionFailed
  <2>4. CASE JudgeTransport
    BY <2>4, <1>2 DEF JudgeTransport
  <2> QED BY <2>1, <2>2, <2>3, <2>4 DEF QuietWrite
<1>4. \A row \in {StopRow("operator"), StopRow("transport"), failed, skipped} :
        row.kind \notin {"attempt", "cell_stopped"}
  BY DEF StopRow
<1> HIDE DEF failed, skipped
<1> QED BY <1>0, <1>3, <1>4, QuietRow

\* Steps that write nothing.
Unwritten ==
  \/ Finish \/ SkipTripped \/ StopRaisesAtHead \/ TakeBatch \/ Launch \/ EngineUnavailable
  \/ JudgeStop \/ JudgeRecord \/ BatchDone \/ (Unwound /\ raised # "operator")
  \/ CtrlC \/ Killed \/ (\E answer \in Answerable \cup Raising : RequestStop(answer))
LEMMA UnwrittenRows ==
  ASSUME FileInv, Unwritten
  PROVE  IsFiles(disk') /\ disk' = disk /\ Rows' = Rows /\ SameRows
<1>0. pc # "idle"
  BY DEF Unwritten, Finish, SkipTripped, StopRaisesAtHead, TakeBatch, Launch, EngineUnavailable,
         JudgeStop, JudgeRecord, BatchDone, Unwound, CtrlC, Killed, RequestStop
<1>1. disk' = disk
  <2>1. CASE Finish \/ (Unwound /\ raised # "operator") \/ CtrlC
    BY <2>1 DEF Finish, Unwound, CtrlC, Over
  <2>2. CASE SkipTripped \/ StopRaisesAtHead \/ TakeBatch \/ Launch \/ EngineUnavailable
    BY <2>2 DEF SkipTripped, StopRaisesAtHead, TakeBatch, Launch, EngineUnavailable
  <2>3. CASE JudgeStop \/ JudgeRecord \/ BatchDone \/ Killed
               \/ \E answer \in Answerable \cup Raising : RequestStop(answer)
    BY <2>3 DEF JudgeStop, JudgeRecord, BatchDone, Killed, RequestStop
  <2> QED BY <2>1, <2>2, <2>3 DEF Unwritten
<1>2. Rows' = Rows
  BY <1>1 DEF Rows
<1> QED BY <1>0, <1>1, <1>2, BegunHasFile, NoRow

\* An attempt: its row is the last one.
LEMMA FetchRows ==
  ASSUME FileInv, NEW o \in Sees, Fetch(o)
  PROVE  /\ IsFiles(disk')
         /\ Len(Rows') = Len(Rows) + 1
         /\ Rows'[Len(Rows')].kind = "attempt"
         /\ Rows'[Len(Rows')].cell = Cell
         /\ Rows'[Len(Rows')].outcome = o
         /\ \A c \in Cells :
              /\ Stops(c)' = Stops(c)
              /\ Sent(c)' = IF c = Cell THEN Sent(c) \cup {Len(Rows')} ELSE Sent(c)
              /\ Len(Rows') \notin Sent(c)
              /\ \A i \in Sent(c) : Rows'[i] = Rows[i]
<1>0. pc # "idle"
  BY DEF Fetch
<1> DEFINE row == [kind |-> "attempt", cell |-> Cell, batch |-> Batch.index,
                   query |-> Batch.queries[pos + 1], outcome |-> o,
                   timed |-> speed.reading # NotMeasured]
<1>1. row.kind = "attempt" /\ row.cell = Cell /\ row.outcome = o
  OBVIOUS
<1>2. disk' = Written(row)
  BY DEF Fetch
<1> HIDE DEF row
<1>3. IsFiles(disk') /\ RowsOf(disk') = RowsOf(disk) \o <<row>>
  BY <1>0, <1>2, BegunHasFile, OneWritten
<1>4. IsSeq(Rows) /\ IsSeq(<<row>>) /\ Rows' = Rows \o <<row>> /\ Len(Rows) \in Nat
  BY <1>0, <1>3, BegunHasFile, Singleton DEF RowsOf, Rows, Last
<1>5. DOMAIN <<row>> = {1} /\ <<row>>[1] = row /\ Len(<<row>>) = 1
  OBVIOUS
<1>6. \A c : /\ OfCell(<<row>>, "attempt", c) = IF c = Cell THEN {1} ELSE {}
             /\ OfCell(<<row>>, "cell_stopped", c) = {}
  BY <1>1, <1>5 DEF OfCell
<1>7. Len(Rows') = Len(Rows) + 1 /\ Rows'[Len(Rows')] = row
  BY <1>4, <1>5, Concatenation
<1>8. ASSUME NEW c \in Cells
      PROVE  /\ OfCell(Rows', "cell_stopped", c) = OfCell(Rows, "cell_stopped", c)
             /\ OfCell(Rows', "attempt", c) =
                  OfCell(Rows, "attempt", c) \cup (IF c = Cell THEN {Len(Rows')} ELSE {})
             /\ Len(Rows') \notin OfCell(Rows, "attempt", c)
             /\ \A i \in OfCell(Rows, "attempt", c) : Rows'[i] = Rows[i]
  <2>1. /\ OfCell(Rows, "attempt", c) \subseteq 1..Len(Rows)
        /\ OfCell(Rows', "attempt", c) = OfCell(Rows, "attempt", c)
               \cup {Len(Rows) + i : i \in OfCell(<<row>>, "attempt", c)}
        /\ OfCell(Rows', "cell_stopped", c) = OfCell(Rows, "cell_stopped", c)
               \cup {Len(Rows) + i : i \in OfCell(<<row>>, "cell_stopped", c)}
        /\ \A i \in OfCell(Rows, "attempt", c) : Rows'[i] = Rows[i]
    BY <1>4, OfCellGrown
  <2>2. {Len(Rows) + i : i \in OfCell(<<row>>, "attempt", c)} = IF c = Cell THEN {Len(Rows')} ELSE {}
    BY <1>6, <1>7
  <2>3. {Len(Rows) + i : i \in OfCell(<<row>>, "cell_stopped", c)} = {}
    BY <1>6
  <2>4. OfCell(Rows', "cell_stopped", c) = OfCell(Rows, "cell_stopped", c)
    BY <2>1, <2>3
  <2>5. Len(Rows') \notin OfCell(Rows, "attempt", c)
    <3>1. Len(Rows') \notin 1..Len(Rows)
      BY <1>4, <1>7
    <3> QED BY <3>1, <2>1
  <2> QED BY <2>1, <2>2, <2>4, <2>5
<1> QED BY <1>1, <1>3, <1>7, <1>8 DEF Stops, Sent

\* Rows without an attempt, whose only stop is of the cell in hand and there
\* if `written`: the stop comes after every attempt.
StopRows(written) ==
  \A c \in Cells :
    /\ Sent(c)' = Sent(c)
    /\ \A i \in Sent(c) : Rows'[i] = Rows[i]
    /\ ~(c = Cell /\ written) => Stops(c)' = Stops(c)
    /\ c = Cell /\ written => Stops(c)' # {}
    /\ \A s \in Stops(c)', i \in Sent(c) : s \in Stops(c) \/ i < s

LEMMA StopWritten ==
  ASSUME FileInv, pc # "idle", NEW more, IsSeq(more), RowsOf(disk') = RowsOf(disk) \o more,
         \A i \in DOMAIN more : more[i].kind # "attempt",
         \A i \in DOMAIN more : more[i].kind = "cell_stopped" => more[i].cell = Cell
  PROVE  StopRows(\E i \in DOMAIN more : more[i].kind = "cell_stopped")
<1> DEFINE written == \E i \in DOMAIN more : more[i].kind = "cell_stopped"
<1>1. IsSeq(Rows) /\ Rows' = Rows \o more /\ Len(Rows) \in Nat
  BY BegunHasFile DEF RowsOf, Rows, Last
<1>2. DOMAIN more = 1..Len(more) /\ Len(more) \in Nat
  BY <1>1, Concatenation
<1> SUFFICES ASSUME NEW c \in Cells
             PROVE  /\ Sent(c)' = Sent(c)
                    /\ \A i \in Sent(c) : Rows'[i] = Rows[i]
                    /\ ~(c = Cell /\ written) => Stops(c)' = Stops(c)
                    /\ c = Cell /\ written => Stops(c)' # {}
                    /\ \A s \in Stops(c)', i \in Sent(c) : s \in Stops(c) \/ i < s
  BY DEF StopRows
<1>3. \A kind : /\ OfCell(Rows, kind, c) \subseteq 1..Len(Rows)
                /\ OfCell(Rows', kind, c) =
                     OfCell(Rows, kind, c) \cup {Len(Rows) + i : i \in OfCell(more, kind, c)}
                /\ \A i \in OfCell(Rows, kind, c) : Rows'[i] = Rows[i]
  BY <1>1, OfCellGrown
<1>4. OfCell(more, "attempt", c) = {}
  BY DEF OfCell
<1>5. OfCell(Rows', "attempt", c) = OfCell(Rows, "attempt", c)
  <2>1. {Len(Rows) + i : i \in OfCell(more, "attempt", c)} = {}
    BY <1>4
  <2> QED BY <2>1, <1>3
<1>6. OfCell(more, "cell_stopped", c) \subseteq 1..Len(more)
      /\ (OfCell(more, "cell_stopped", c) # {} <=> c = Cell /\ written)
  BY <1>2 DEF OfCell
<1>7. ~(c = Cell /\ written) => OfCell(Rows', "cell_stopped", c) = OfCell(Rows, "cell_stopped", c)
  <2>1. SUFFICES ASSUME ~(c = Cell /\ written)
                 PROVE  OfCell(Rows', "cell_stopped", c) = OfCell(Rows, "cell_stopped", c)
    OBVIOUS
  <2>2. {Len(Rows) + i : i \in OfCell(more, "cell_stopped", c)} = {}
    BY <1>6, <2>1
  <2> QED BY <2>2, <1>3
<1>8. c = Cell /\ written => OfCell(Rows', "cell_stopped", c) # {}
  <2>1. SUFFICES ASSUME c = Cell, written
                 PROVE  OfCell(Rows', "cell_stopped", c) # {}
    OBVIOUS
  <2>2. PICK j : j \in OfCell(more, "cell_stopped", c)
    BY <1>6, <2>1
  <2>3. Len(Rows) + j \in OfCell(Rows', "cell_stopped", c)
    BY <1>3, <2>2
  <2> QED BY <2>3
<1>9. ASSUME NEW s \in OfCell(Rows', "cell_stopped", c), NEW i \in OfCell(Rows, "attempt", c),
             s \notin OfCell(Rows, "cell_stopped", c)
      PROVE  i < s
  <2>1. PICK j \in OfCell(more, "cell_stopped", c) : s = Len(Rows) + j
    BY <1>3, <1>9
  <2>2. j \in 1..Len(more) /\ i \in 1..Len(Rows)
    BY <1>3, <1>6, <1>9
  <2> QED BY <1>1, <1>2, <2>1, <2>2
<1> QED BY <1>3, <1>5, <1>7, <1>8, <1>9 DEF Stops, Sent

LEMMA WentDirectRows ==
  ASSUME FileInv, WentDirect \/ WentDirectCloseRaises
  PROVE  IsFiles(disk') /\ StopRows(TRUE)
<1> DEFINE failed == [kind |-> "session_failed", cell |-> Cell]
<1>0. pc # "idle" /\ IsFiles(disk)
  BY BegunHasFile DEF WentDirect, WentDirectCloseRaises
<1>1. DirectStop.kind = "cell_stopped" /\ DirectStop.cell = Cell /\ failed.kind = "session_failed"
  BY DEF DirectStop
<1>2. CASE WentDirect
  <2>1. disk' = Written(DirectStop)
    BY <1>2 DEF WentDirect, NextBatch
  <2>2. IsFiles(disk') /\ RowsOf(disk') = RowsOf(disk) \o <<DirectStop>> /\ IsSeq(<<DirectStop>>)
    BY <1>0, <2>1, OneWritten, Singleton
  <2>3. DOMAIN <<DirectStop>> = {1} /\ <<DirectStop>>[1] = DirectStop
    OBVIOUS
  <2>4. StopRows(\E i \in DOMAIN <<DirectStop>> : <<DirectStop>>[i].kind = "cell_stopped")
    BY <1>0, <1>1, <2>2, <2>3, StopWritten
  <2>5. (\E i \in DOMAIN <<DirectStop>> : <<DirectStop>>[i].kind = "cell_stopped") = TRUE
    BY <1>1, <2>3
  <2> QED BY <2>2, <2>4, <2>5
<1>3. CASE WentDirectCloseRaises
  <2> DEFINE more == <<DirectStop, failed>>
  <2>1. IsSeq(more)
    <3>1. more \in Seq({DirectStop, failed})
      OBVIOUS
    <3> QED BY <3>1, SeqOfRange DEF IsSeq
  <2>2. disk' = [disk EXCEPT ![Len(disk)].rows = @ \o more]
    BY <1>3 DEF WentDirectCloseRaises
  <2>3. DOMAIN more = {1, 2} /\ more[1] = DirectStop /\ more[2] = failed
    OBVIOUS
  <2> HIDE DEF more, failed
  <2>4. IsFiles(disk') /\ RowsOf(disk') = RowsOf(disk) \o more
    BY <1>0, <2>1, <2>2, RowsWritten
  <2>5. StopRows(\E i \in DOMAIN more : more[i].kind = "cell_stopped")
    BY <1>0, <1>1, <2>1, <2>3, <2>4, StopWritten
  <2>6. (\E i \in DOMAIN more : more[i].kind = "cell_stopped") = TRUE
    BY <1>1, <2>3
  <2> QED BY <2>4, <2>5, <2>6
<1> QED BY <1>2, <1>3

LEMMA CloseSessionRows ==
  ASSUME FileInv, CloseSession
  PROVE  IsFiles(disk') /\ StopRows(Tripped(EndSession(breakers[Cell])))
<1> DEFINE ended  == EndSession(breakers[Cell])
           closed == [kind |-> "session_closed", cell |-> Cell,
                      batch |-> Batch.index, class |-> ClassOf(breakers[Cell])]
           stop   == [kind |-> "cell_stopped", cell |-> Cell, why |-> ended.reason]
           more   == <<closed>> \o (IF Tripped(ended) THEN <<stop>> ELSE <<>>)
<1>0. pc # "idle" /\ IsFiles(disk)
  BY BegunHasFile DEF CloseSession
<1>1. disk' = [disk EXCEPT ![Len(disk)].rows = @ \o more]
  BY DEF CloseSession, NextBatch
<1>2. closed.kind = "session_closed" /\ stop.kind = "cell_stopped" /\ stop.cell = Cell
  OBVIOUS
<1> HIDE DEF ended, closed, stop
<1>3. /\ IsSeq(more)
      /\ Tripped(ended) => DOMAIN more = {1, 2} /\ more[1] = closed /\ more[2] = stop
      /\ ~Tripped(ended) => DOMAIN more = {1} /\ more[1] = closed
  <2>1. CASE Tripped(ended)
    <3>1. more = <<closed>> \o <<stop>>
      BY <2>1
    <3> QED BY <2>1, <3>1, PairOfRows
  <2>2. CASE ~Tripped(ended)
    <3>1. more = <<closed>>
      BY <2>2
    <3> QED BY <2>2, <3>1, Singleton
  <2> QED BY <2>1, <2>2
<1> HIDE DEF more
<1>4. IsFiles(disk') /\ RowsOf(disk') = RowsOf(disk) \o more
  BY <1>0, <1>1, <1>3, RowsWritten
<1>5. StopRows(\E i \in DOMAIN more : more[i].kind = "cell_stopped")
  BY <1>0, <1>2, <1>3, <1>4, StopWritten
<1>6. (\E i \in DOMAIN more : more[i].kind = "cell_stopped") <=> Tripped(ended)
  BY <1>2, <1>3
<1>7. StopRows(Tripped(ended))
  BY <1>5, <1>6 DEF StopRows
<1> QED BY <1>4, <1>7 DEF ended

\* A new run has a file of its own, empty.
LEMMA StartRows ==
  ASSUME FileInv, NEW skip, Start(skip)
  PROVE  /\ IsFiles(disk') /\ Rows' = <<>>
         /\ \A c \in Cells : Stops(c)' = {} /\ Sent(c)' = {}
<1> DEFINE file == [rows |-> <<>>, place |-> "runs"]
           S == Range(disk) \cup {file}
<1>1. disk' = Append(disk, file) /\ disk \in Seq(S) /\ file \in S
  BY SeqMonotonic DEF Start, FileInv, IsSeq
<1>2. DOMAIN file = {"rows", "place"} /\ file.rows = <<>>
  OBVIOUS
<1> HIDE DEF file, S
<1>3. /\ disk' \in Seq(S) /\ disk' # <<>> /\ Len(disk') = Len(disk) + 1
      /\ disk'[Len(disk')] = file
  BY <1>1, AppendProperties
<1>4. IsSeq(disk')
  BY <1>3, SeqOfRange DEF IsSeq
<1>5. RowsOf(disk') = <<>> /\ Rows' = <<>>
  BY <1>2, <1>3 DEF RowsOf, Rows, Last
<1>6. IsSeq(<<>>)
  BY EmptySeq DEF IsSeq
<1>7. DOMAIN <<>> = {}
  OBVIOUS
<1> QED BY <1>2, <1>3, <1>4, <1>5, <1>6, <1>7 DEF IsFiles, Stops, Sent, OfCell
----------------------------------------------------------------------------
(* What the methods of the breaker leave of what the invariant says.       *)

Ordered(x) == x.session_ok <= x.session_arrived /\ x.session_arrived <= x.session_attempts

LEMMA NewBreaker ==
  /\ NewSessionBreaker \in SessionBreakers /\ Ordered(NewSessionBreaker)
  /\ ~Tripped(NewSessionBreaker) /\ NoVerdict(NewSessionBreaker)
BY DEF NewSessionBreaker, SessionBreakers, SessionReasons, Ordered, Tripped, NoVerdict, Running

LEMMA RecordMethod ==
  ASSUME NEW x \in SessionBreakers, Ordered(x), NEW o \in Outcomes
  PROVE  /\ Record(x, o) \in SessionBreakers /\ Ordered(Record(x, o))
         /\ Tripped(Record(x, o)) <=> Tripped(x)
         /\ NoVerdict(Record(x, o)) <=> NoVerdict(x) /\ IsTransportFailure(o)
<1>1. /\ x.session_ok \in Nat /\ x.session_arrived \in Nat /\ x.session_attempts \in Nat
      /\ x.arrived_sessions \in Nat
  BY DEF SessionBreakers
<1> QED BY <1>1, RecordFields DEF Ordered, Tripped, NoVerdict, IsTransportFailure

LEMMA TripMethod ==
  ASSUME NEW x \in SessionBreakers, Ordered(x), NEW why \in SessionReasons \ {Running}
  PROVE  /\ Trip(x, why) \in SessionBreakers /\ Ordered(Trip(x, why))
         /\ Tripped(Trip(x, why))
         /\ NoVerdict(Trip(x, why)) <=> NoVerdict(x)
<1>1. /\ Trip(x, why) \in SessionBreakers
      /\ Trip(x, why) = [x EXCEPT !.reason = IF x.reason = Running THEN why ELSE x.reason]
  BY TripFields
<1> QED BY <1>1 DEF SessionBreakers, Ordered, Tripped, NoVerdict

LEMMA EndSessionMethod ==
  ASSUME NEW x \in SessionBreakers, Ordered(x)
  PROVE  /\ EndSession(x) \in SessionBreakers /\ Ordered(EndSession(x))
         /\ Tripped(x) => Tripped(EndSession(x))
         /\ NoVerdict(EndSession(x)) <=> NoVerdict(x)
<1> DEFINE c == ClassOf(x)
           n == Counted(x, c)
           e == EndSession(x)
<1>1. /\ x.session_ok \in Nat /\ x.session_arrived \in Nat /\ x.session_attempts \in Nat
      /\ x.arrived_sessions \in Nat
  BY DEF SessionBreakers
<1>2. /\ c \in Classes
      /\ c = "abandoned" <=> x.session_attempts = 0
      /\ c = "alive" => x.session_ok > 0
      /\ c = "dead" => x.session_arrived > 0
      /\ c = "unreachable" => x.session_arrived = 0
  BY ClassOfType
<1>3. /\ e \in SessionBreakers
      /\ e.arrived_sessions = n.arrived_sessions
      /\ e.session_attempts = 0 /\ e.session_ok = 0 /\ e.session_arrived = 0
      /\ x.reason # Running => e.reason = x.reason
  BY EndSessionFields
<1>4. /\ c = "abandoned" => n.arrived_sessions = x.arrived_sessions
      /\ c # "abandoned" => n.arrived_sessions = IF c = "unreachable" THEN x.arrived_sessions
                                                 ELSE x.arrived_sessions + 1
  BY <1>2, CountedFields
<1> HIDE DEF c, n, e
<1>5. e \in SessionBreakers /\ Ordered(e) /\ (Tripped(x) => Tripped(e))
  BY <1>3 DEF Ordered, Tripped
<1>6. NoVerdict(e) <=> NoVerdict(x)
  BY <1>1, <1>2, <1>3, <1>4 DEF NoVerdict, Ordered, Classes
<1> QED BY <1>5, <1>6 DEF e
----------------------------------------------------------------------------
(* Each part of the invariant, step by step.                               *)

LEMMA InitInvariant == Init => IInv
<1> SUFFICES ASSUME Init PROVE IInv
  OBVIOUS
<1>1. PromptInv /\ JudgeInv /\ StopsInv /\ PrintedInv
  BY DEF Init, PromptInv, JudgeInv, StopsInv, PrintedInv
<1>2. FileInv
  BY EmptySeq DEF Init, FileInv, IsSeq
<1>3. BreakerInv
  BY NewBreaker DEF Init, BreakerInv, Ordered
<1>4. VerdictInv
  BY DEF Init, VerdictInv
<1> QED BY <1>1, <1>2, <1>3, <1>4 DEF IInv

LEMMA PromptStep ==
  ASSUME PromptInv, [Next]_vars
  PROVE  PromptInv'
<1>1. ASSUME NEW skip, Start(skip) PROVE PromptInv'
  BY <1>1 DEF Start, PromptInv
<1>2. ASSUME NEW o \in Sees, Fetch(o) PROVE PromptInv'
  BY <1>2 DEF Fetch, PromptInv, history
<1>3. ASSUME NEW answer \in Answerable \cup Raising, RequestStop(answer) PROVE PromptInv'
  BY <1>3 DEF RequestStop, PromptInv, history, Answerable, Raising
<1>4. CASE TakeBatch \/ Launch \/ EngineUnavailable \/ SkipTripped \/ BatchDone
  BY <1>4 DEF PromptInv, TakeBatch, Launch, EngineUnavailable, SkipTripped, BatchDone, history
<1>5. CASE SkipIdentity \/ WentDirect \/ WentDirectCloseRaises \/ SessionDies \/ CloseSession
  BY <1>5 DEF PromptInv, SkipIdentity, WentDirect, WentDirectCloseRaises, SessionDies,
              CloseSession, NextBatch, history
<1>6. CASE JudgeTransport \/ JudgeStop \/ JudgeStopRaises \/ JudgeRecord \/ CloseRaises
  BY <1>6 DEF PromptInv, JudgeTransport, JudgeStop, JudgeStopRaises, JudgeRecord, CloseRaises,
              history, Raising
<1>7. CASE Finish \/ StopAtHead \/ StopRaisesAtHead \/ Unwound \/ Killed
  BY <1>7 DEF PromptInv, Finish, StopAtHead, StopRaisesAtHead, Unwound, Killed, Over, history
<1>8. CASE CtrlC
  BY <1>8 DEF PromptInv, CtrlC, Over, history
<1>9. CASE UNCHANGED vars
  BY <1>9 DEF PromptInv, vars
<1> QED
  BY <1>1, <1>2, <1>3, <1>4, <1>5, <1>6, <1>7, <1>8, <1>9
  DEF Next, RunnerStep, StartFresh, StartResumed

\* Every step but a start and a stutter is of a run that has begun, and
\* leaves its file one.
LEMMA BegunStep ==
  ASSUME FileInv, Next, ~StartFresh, ~StartResumed
  PROVE  pc # "idle" /\ IsFiles(disk')
<1>1. CASE QuietWrite
  BY <1>1, QuietWriteRows
     DEF QuietWrite, StopAtHead, SkipIdentity, SessionDies, JudgeTransport, JudgeStopRaises,
         CloseRaises, Unwound
<1>2. CASE Unwritten
  BY <1>2, UnwrittenRows
     DEF Unwritten, Finish, SkipTripped, StopRaisesAtHead, TakeBatch, Launch, EngineUnavailable,
         JudgeStop, JudgeRecord, BatchDone, Unwound, CtrlC, Killed, RequestStop
<1>3. CASE WentDirect \/ WentDirectCloseRaises
  BY <1>3, WentDirectRows DEF WentDirect, WentDirectCloseRaises
<1>4. CASE CloseSession
  BY <1>4, CloseSessionRows DEF CloseSession
<1>5. ASSUME NEW o \in Sees, Fetch(o) PROVE pc # "idle" /\ IsFiles(disk')
  BY <1>5, FetchRows DEF Fetch
<1> QED BY <1>1, <1>2, <1>3, <1>4, <1>5 DEF Next, RunnerStep, QuietWrite, Unwritten

LEMMA FileStep ==
  ASSUME FileInv, [Next]_vars
  PROVE  FileInv'
<1>1. CASE StartFresh \/ StartResumed
  <2>1. PICK skip : Start(skip)
    BY <1>1 DEF StartFresh, StartResumed
  <2>2. IsFiles(disk')
    BY <2>1, StartRows
  <2> QED BY <2>2 DEF FileInv, IsFiles, RowsOf, Rows, Last
<1>2. CASE Next /\ ~StartFresh /\ ~StartResumed
  BY <1>2, BegunStep DEF FileInv, IsFiles, RowsOf, Rows, Last
<1>3. CASE UNCHANGED vars
  BY <1>3 DEF FileInv, Rows, vars
<1> QED BY <1>1, <1>2, <1>3

\* Steps that leave every breaker as it is.
Untold ==
  \/ Finish \/ SkipTripped \/ StopAtHead \/ StopRaisesAtHead \/ TakeBatch \/ SkipIdentity
  \/ Launch \/ SessionDies \/ (\E o \in Sees : Fetch(o))
  \/ JudgeTransport \/ JudgeStop \/ JudgeStopRaises \/ BatchDone \/ Unwound \/ CloseRaises
  \/ CtrlC \/ Killed \/ (\E answer \in Answerable \cup Raising : RequestStop(answer))
LEMMA UntoldBreakers ==
  ASSUME Untold
  PROVE  breakers' = breakers
<1>1. CASE Finish \/ SkipTripped \/ StopAtHead \/ StopRaisesAtHead \/ TakeBatch \/ SkipIdentity
  BY <1>1 DEF Finish, SkipTripped, StopAtHead, StopRaisesAtHead, TakeBatch, SkipIdentity
<1>2. CASE Launch \/ SessionDies \/ (\E o \in Sees : Fetch(o))
  BY <1>2 DEF Launch, SessionDies, Fetch
<1>3. CASE JudgeTransport \/ JudgeStop \/ JudgeStopRaises \/ BatchDone \/ Unwound \/ CloseRaises
  BY <1>3 DEF JudgeTransport, JudgeStop, JudgeStopRaises, BatchDone, Unwound, CloseRaises
<1>4. CASE CtrlC \/ Killed \/ (\E answer \in Answerable \cup Raising : RequestStop(answer))
  BY <1>4 DEF CtrlC, Killed, RequestStop
<1> QED BY <1>1, <1>2, <1>3, <1>4 DEF Untold

\* A step that tells the breaker of the cell in hand something, and what.
Told(value) == breakers' = [breakers EXCEPT ![Cell] = value]
Stopping == EngineUnavailable \/ WentDirect \/ WentDirectCloseRaises

LEMMA StoppingBreakers ==
  ASSUME BreakerInv, Stopping
  PROVE  \A c \in Cells :
           /\ breakers'[c] \in SessionBreakers /\ Ordered(breakers'[c])
           /\ DOMAIN breakers' = Cells /\ breakers' = [x \in Cells |-> breakers'[x]]
           /\ NoVerdict(breakers'[c]) <=> NoVerdict(breakers[c])
           /\ c = Cell => Tripped(breakers'[c])
           /\ c # Cell => breakers'[c] = breakers[c]
<1>1. PICK why \in {"engine_unavailable", "went_direct"} : Told(Trip(breakers[Cell], why))
  BY DEF Stopping, EngineUnavailable, WentDirect, WentDirectCloseRaises, Told
<1>2. why \in SessionReasons \ {Running}
  BY DEF SessionReasons, Running
<1>3. breakers \in [Cells -> SessionBreakers] /\ \A c \in Cells : Ordered(breakers[c])
  BY DEF BreakerInv, Ordered
<1>4. DOMAIN breakers' = Cells /\ breakers' = [x \in Cells |-> breakers'[x]]
  BY <1>1, <1>3 DEF Told
<1> SUFFICES ASSUME NEW c \in Cells
             PROVE  /\ breakers'[c] \in SessionBreakers /\ Ordered(breakers'[c])
                    /\ NoVerdict(breakers'[c]) <=> NoVerdict(breakers[c])
                    /\ c = Cell => Tripped(breakers'[c])
                    /\ c # Cell => breakers'[c] = breakers[c]
  BY <1>4
<1>5. CASE c = Cell
  <2>1. breakers'[c] = Trip(breakers[c], why)
    BY <1>1, <1>3, <1>5 DEF Told
  <2> QED BY <1>2, <1>3, <1>5, <2>1, TripMethod
<1>6. CASE c # Cell
  BY <1>1, <1>3, <1>6 DEF Told
<1> QED BY <1>5, <1>6

LEMMA JudgeRecordBreakers ==
  ASSUME BreakerInv, JudgeInv, JudgeRecord
  PROVE  \A c \in Cells :
           /\ breakers'[c] \in SessionBreakers /\ Ordered(breakers'[c])
           /\ DOMAIN breakers' = Cells /\ breakers' = [x \in Cells |-> breakers'[x]]
           /\ Tripped(breakers'[c]) <=> Tripped(breakers[c])
           /\ c = Cell => (NoVerdict(breakers'[c]) <=>
                            NoVerdict(breakers[c]) /\ IsTransportFailure(Rows[Len(Rows)].outcome))
           /\ c # Cell => breakers'[c] = breakers[c]
<1>1. Told(Record(breakers[Cell], Outcome)) /\ Outcome \in Outcomes
      /\ Outcome = Rows[Len(Rows)].outcome
  BY DEF JudgeRecord, Told, JudgeInv, Outcome, Last
<1>3. breakers \in [Cells -> SessionBreakers] /\ \A c \in Cells : Ordered(breakers[c])
  BY DEF BreakerInv, Ordered
<1>4. DOMAIN breakers' = Cells /\ breakers' = [x \in Cells |-> breakers'[x]]
  BY <1>1, <1>3 DEF Told
<1> SUFFICES ASSUME NEW c \in Cells
             PROVE  /\ breakers'[c] \in SessionBreakers /\ Ordered(breakers'[c])
                    /\ Tripped(breakers'[c]) <=> Tripped(breakers[c])
                    /\ c = Cell => (NoVerdict(breakers'[c]) <=>
                                     NoVerdict(breakers[c]) /\ IsTransportFailure(Outcome))
                    /\ c # Cell => breakers'[c] = breakers[c]
  BY <1>1, <1>4
<1>5. CASE c = Cell
  <2>1. breakers'[c] = Record(breakers[c], Outcome)
    BY <1>1, <1>3, <1>5 DEF Told
  <2> QED BY <1>1, <1>3, <1>5, <2>1, RecordMethod
<1>6. CASE c # Cell
  BY <1>1, <1>3, <1>6 DEF Told
<1> QED BY <1>5, <1>6

LEMMA CloseSessionBreakers ==
  ASSUME BreakerInv, CloseSession
  PROVE  \A c \in Cells :
           /\ breakers'[c] \in SessionBreakers /\ Ordered(breakers'[c])
           /\ DOMAIN breakers' = Cells /\ breakers' = [x \in Cells |-> breakers'[x]]
           /\ NoVerdict(breakers'[c]) <=> NoVerdict(breakers[c])
           /\ c = Cell => breakers'[c] = EndSession(breakers[Cell])
           /\ c # Cell => breakers'[c] = breakers[c]
<1>1. Told(EndSession(breakers[Cell]))
  BY DEF CloseSession, Told
<1>3. breakers \in [Cells -> SessionBreakers] /\ \A c \in Cells : Ordered(breakers[c])
  BY DEF BreakerInv, Ordered
<1>4. DOMAIN breakers' = Cells /\ breakers' = [x \in Cells |-> breakers'[x]]
  BY <1>1, <1>3 DEF Told
<1> SUFFICES ASSUME NEW c \in Cells
             PROVE  /\ breakers'[c] \in SessionBreakers /\ Ordered(breakers'[c])
                    /\ NoVerdict(breakers'[c]) <=> NoVerdict(breakers[c])
                    /\ c = Cell => breakers'[c] = EndSession(breakers[Cell])
                    /\ c # Cell => breakers'[c] = breakers[c]
  BY <1>4
<1>5. CASE c = Cell
  <2>1. breakers'[c] = EndSession(breakers[c])
    BY <1>1, <1>3, <1>5 DEF Told
  <2> QED BY <1>3, <1>5, <2>1, EndSessionMethod
<1>6. CASE c # Cell
  BY <1>1, <1>3, <1>6 DEF Told
<1> QED BY <1>5, <1>6

LEMMA BreakerStep ==
  ASSUME BreakerInv, JudgeInv, [Next]_vars
  PROVE  BreakerInv'
<1>1. ASSUME \A c \in Cells : /\ breakers'[c] \in SessionBreakers /\ Ordered(breakers'[c])
                              /\ breakers' = [x \in Cells |-> breakers'[x]],
             Cells # {}
      PROVE  BreakerInv'
  BY <1>1 DEF BreakerInv, Ordered
<1>2. CASE Untold \/ UNCHANGED vars
  <2>1. breakers' = breakers
    BY <1>2, UntoldBreakers DEF vars
  <2> QED BY <2>1 DEF BreakerInv
<1>3. CASE StartFresh \/ StartResumed
  <2>1. breakers' = [c \in Cells |-> NewSessionBreaker]
    BY <1>3 DEF StartFresh, StartResumed, Start
  <2> QED BY <2>1, NewBreaker DEF BreakerInv, Ordered
<1>4. CASE Cells = {} /\ (Stopping \/ JudgeRecord \/ CloseSession)
  <2>1. \E value : Told(value)
    BY <1>4 DEF Stopping, EngineUnavailable, WentDirect, WentDirectCloseRaises, JudgeRecord,
                CloseSession, Told
  <2> QED BY <1>4, <2>1 DEF Told, BreakerInv
<1>5. CASE Cells # {} /\ (Stopping \/ JudgeRecord \/ CloseSession)
  BY <1>1, <1>5, StoppingBreakers, JudgeRecordBreakers, CloseSessionBreakers
<1> QED BY <1>2, <1>3, <1>4, <1>5 DEF Next, RunnerStep, Untold, Stopping

LEMMA JudgeStep ==
  ASSUME FileInv, JudgeInv, [Next]_vars
  PROVE  JudgeInv'
<1>1. ASSUME NEW o \in Sees, Fetch(o) PROVE JudgeInv'
  <2>1. Cell' = Cell
    BY <1>1 DEF Fetch, Cell, Batch
  <2>2. o \in Outcomes
    BY RunAssumption, SMTT(60)
  <2>3. Len(Rows') = Len(Rows) + 1 /\ Len(Rows) \in Nat /\ IsFiles(disk') /\ Rows' = RowsOf(disk')
    BY <1>1, FetchRows, BegunHasFile DEF Fetch, RowsOf, Rows, Last
  <2>4. Rows' # <<>>
    BY <2>3, EmptySeq
  <2> QED BY <1>1, <2>1, <2>2, <2>4, FetchRows DEF JudgeInv
<1>2. ASSUME NEW answer \in Answerable \cup Raising, RequestStop(answer) PROVE JudgeInv'
  BY <1>2 DEF RequestStop, JudgeInv, Rows, Cell, Batch
<1>3. CASE UNCHANGED vars
  BY <1>3 DEF vars, JudgeInv, Rows, Cell, Batch
<1>4. CASE SkipTripped
  BY <1>4 DEF SkipTripped, JudgeInv
<1>5. CASE \/ Finish \/ StopAtHead \/ StopRaisesAtHead \/ TakeBatch \/ SkipIdentity
           \/ Launch \/ EngineUnavailable \/ WentDirect \/ WentDirectCloseRaises
  <2>1. pc' # "judge"
    BY <1>5 DEF Finish, StopAtHead, StopRaisesAtHead, TakeBatch, SkipIdentity, Launch,
                EngineUnavailable, WentDirect, WentDirectCloseRaises, NextBatch, Over
  <2> QED BY <2>1 DEF JudgeInv
<1>6. CASE \/ SessionDies \/ JudgeTransport \/ JudgeStop \/ JudgeStopRaises \/ JudgeRecord
           \/ BatchDone \/ CloseSession \/ Unwound \/ CloseRaises
  <2>1. pc' # "judge"
    BY <1>6 DEF SessionDies, JudgeTransport, JudgeStop, JudgeStopRaises, JudgeRecord, BatchDone,
                CloseSession, NextBatch, Unwound, Over, CloseRaises
  <2> QED BY <2>1 DEF JudgeInv
<1>7. CASE StartFresh \/ StartResumed \/ CtrlC \/ Killed
  <2>1. pc' # "judge"
    BY <1>7 DEF StartFresh, StartResumed, Start, CtrlC, Over, Killed
  <2> QED BY <2>1 DEF JudgeInv
<1> QED BY <1>1, <1>2, <1>3, <1>4, <1>5, <1>6, <1>7 DEF Next, RunnerStep

\* What StopsInv says of one cell.
StopsOf(c) ==
  /\ Stops(c) # {} => Tripped(breakers[c])
  /\ Tripped(breakers[c]) => Stops(c) # {} \/ (pc = "closing" /\ c = Cell) \/ pc = "over"
  /\ \A s \in Stops(c), i \in Sent(c) : i < s
  /\ pc \in {"identify", "session", "judge", "unwinding"} /\ c = Cell => ~Tripped(breakers[c])

LEMMA StopsStep ==
  ASSUME FileInv, BreakerInv, JudgeInv, StopsInv, [Next]_vars
  PROVE  StopsInv'
<1> SUFFICES ASSUME NEW c \in Cells, pc' # "idle"
             PROVE  StopsOf(c)'
  BY DEF StopsInv, StopsOf
<1>0. pc # "idle" => StopsOf(c)
  BY DEF StopsInv, StopsOf
<1>1. CASE StartFresh \/ StartResumed
  <2>1. PICK skip : Start(skip)
    BY <1>1 DEF StartFresh, StartResumed
  <2>2. Stops(c)' = {} /\ breakers'[c] = NewSessionBreaker /\ pc' = "head"
    BY <2>1, StartRows DEF Start
  <2> QED BY <2>2, NewBreaker DEF StopsOf
<1>2. CASE UNCHANGED vars
  BY <1>0, <1>2 DEF vars, StopsOf, Stops, Sent, Rows, Cell, Batch
<1>3. ASSUME NEW o \in Sees, Fetch(o) PROVE StopsOf(c)'
  <2>1. /\ pc = "session" /\ pc' = "judge" /\ breakers' = breakers /\ Cell' = Cell
    BY <1>3 DEF Fetch, Cell, Batch
  <2>2. /\ Stops(c)' = Stops(c)
        /\ Sent(c)' = IF c = Cell THEN Sent(c) \cup {Len(Rows')} ELSE Sent(c)
    BY <1>3, FetchRows
  <2>3. c = Cell => Stops(c) = {}
    BY <1>0, <2>1 DEF StopsOf
  <2> QED BY <1>0, <2>1, <2>2, <2>3 DEF StopsOf
<1>4. CASE JudgeRecord
  <2>1. pc = "judge" /\ pc' = "session" /\ Cell' = Cell /\ Unwritten
    BY <1>4 DEF JudgeRecord, Cell, Batch, Unwritten
  <2>2. SameRows /\ (Tripped(breakers'[c]) <=> Tripped(breakers[c]))
    BY <1>4, <2>1, UnwrittenRows, JudgeRecordBreakers
  <2> QED BY <1>0, <2>1, <2>2 DEF StopsOf, SameRows
<1>5. CASE EngineUnavailable
  <2>1. pc = "identify" /\ pc' = "closing" /\ Cell' = Cell /\ Unwritten /\ Stopping
    BY <1>5 DEF EngineUnavailable, Cell, Batch, Unwritten, Stopping
  <2>2. SameRows /\ (c = Cell => Tripped(breakers'[c])) /\ (c # Cell => breakers'[c] = breakers[c])
    BY <2>1, UnwrittenRows, StoppingBreakers
  <2> QED BY <1>0, <2>1, <2>2 DEF StopsOf, SameRows
<1>6. CASE WentDirect \/ WentDirectCloseRaises
  <2>1. pc = "identify" /\ pc' \in {"closing", "head"} /\ Stopping
    BY <1>6 DEF WentDirect, WentDirectCloseRaises, NextBatch, Stopping
  <2>2. StopRows(TRUE) /\ (c = Cell => Tripped(breakers'[c]))
        /\ (c # Cell => breakers'[c] = breakers[c])
    BY <1>6, <2>1, WentDirectRows, StoppingBreakers
  <2>3. /\ Sent(c)' = Sent(c)
        /\ c # Cell => Stops(c)' = Stops(c)
        /\ c = Cell => Stops(c)' # {}
        /\ \A s \in Stops(c)', i \in Sent(c) : s \in Stops(c) \/ i < s
    BY <2>2 DEF StopRows
  <2> QED BY <1>0, <2>1, <2>2, <2>3 DEF StopsOf
<1>7. CASE CloseSession
  <2>1. pc = "closing" /\ pc' = "head"
    BY <1>7 DEF CloseSession, NextBatch
  <2> DEFINE ended == EndSession(breakers[Cell])
  <2>2. /\ c = Cell => breakers'[c] = ended
        /\ c # Cell => breakers'[c] = breakers[c]
    BY <1>7, CloseSessionBreakers
  <2>3. c = Cell /\ Tripped(breakers[c]) => Tripped(ended)
    BY EndSessionMethod DEF BreakerInv, Ordered
  <2>4. StopRows(Tripped(ended))
    BY <1>7, CloseSessionRows
  <2> HIDE DEF ended
  <2>5. /\ Sent(c)' = Sent(c)
        /\ ~(c = Cell /\ Tripped(ended)) => Stops(c)' = Stops(c)
        /\ c = Cell /\ Tripped(ended) => Stops(c)' # {}
        /\ \A s \in Stops(c)', i \in Sent(c) : s \in Stops(c) \/ i < s
    BY <2>4 DEF StopRows
  <2> QED BY <1>0, <2>1, <2>2, <2>3, <2>5 DEF StopsOf
<1>8. CASE QuietWrite
  <2>1. SameRows
    BY <1>8, QuietWriteRows
  <2>2. breakers' = breakers
    BY <1>8, UntoldBreakers DEF QuietWrite, Untold
  <2>3. /\ pc # "idle"
        /\ \/ pc' \in {"over", "head"}
           \/ pc' \in {"unwinding", "closing"} /\ Cell' = Cell
                /\ pc \in {"identify", "session", "judge", "unwinding"}
        /\ pc' = "head" => pc = "identify"
    BY <1>8 DEF QuietWrite, StopAtHead, SkipIdentity, SessionDies, JudgeTransport, JudgeStopRaises,
                CloseRaises, Unwound, NextBatch, Over, Cell, Batch
  <2> QED BY <1>0, <2>1, <2>2, <2>3 DEF StopsOf, SameRows
<1>9. CASE Unwritten /\ Untold
  <2>1. SameRows /\ breakers' = breakers
    BY <1>9, UnwrittenRows, UntoldBreakers
  <2>2. CASE Finish \/ SkipTripped \/ StopRaisesAtHead \/ Unwound
    <3>1. pc # "idle" /\ (pc' = "over" \/ (pc = "head" /\ pc' = "head"))
      BY <2>2 DEF Finish, SkipTripped, StopRaisesAtHead, Unwound, Over
    <3> QED BY <1>0, <2>1, <3>1 DEF StopsOf, SameRows
  <2>3. CASE TakeBatch
    <3>1. pc = "head" /\ pc' = "identify" /\ Cell' = Cell /\ ~Tripped(breakers[Cell])
      BY <2>3 DEF TakeBatch, Cell, Batch
    <3> QED BY <1>0, <2>1, <3>1 DEF StopsOf, SameRows
  <2>4. CASE Launch \/ JudgeStop \/ BatchDone
    <3>1. /\ pc \in {"identify", "judge", "session"} /\ Cell' = Cell
          /\ pc' \in {"session", "unwinding", "closing"}
      BY <2>4 DEF Launch, JudgeStop, BatchDone, Cell, Batch
    <3> QED BY <1>0, <2>1, <3>1 DEF StopsOf, SameRows
  <2>5. CASE CtrlC \/ Killed
    <3>1. /\ pc # "idle" /\ Cell' = Cell
          /\ pc' = "over" \/ (pc \in {"session", "judge"} /\ pc' = "unwinding")
      BY <2>5 DEF CtrlC, Killed, Over, Cell, Batch
    <3> QED BY <1>0, <2>1, <3>1 DEF StopsOf, SameRows
  <2>6. ASSUME NEW answer \in Answerable \cup Raising, RequestStop(answer) PROVE StopsOf(c)'
    <3>1. pc # "idle" /\ pc' = pc /\ Cell' = Cell
      BY <2>6 DEF RequestStop, Cell, Batch
    <3> QED BY <1>0, <2>1, <3>1 DEF StopsOf, SameRows
  <2> QED
    BY <1>4, <1>5, <1>9, <2>2, <2>3, <2>4, <2>5, <2>6 DEF Unwritten
<1> QED
  BY <1>1, <1>2, <1>3, <1>4, <1>5, <1>6, <1>7, <1>8, <1>9
  DEF Next, RunnerStep, QuietWrite, Unwritten, Untold

\* What VerdictInv says of one cell, in a run it speaks of.
VerdictOf(c) ==
  IF pc = "judge" /\ c = Cell
  THEN NoVerdict(breakers[c]) <=> Silent(Sent(c) \ {Len(Rows)})
  ELSE \/ pc = "unwinding" /\ c = Cell
       \/ NoVerdict(breakers[c]) <=> Silent(Sent(c))
Spoken == pc # "idle" /\ ~swallowed /\ (pc = "over" => ending = "finished")

LEMMA RaisedStep ==
  ASSUME VerdictInv, [Next]_vars
  PROVE  raised' \in {"nothing", "transport", "operator", "ctrl_c"}
<1>1. CASE raised' = raised
  BY <1>1 DEF VerdictInv
<1>2. CASE StartFresh \/ StartResumed \/ JudgeTransport \/ JudgeStop \/ Unwound \/ CloseRaises
  BY <1>2 DEF StartFresh, StartResumed, Start, JudgeTransport, JudgeStop, Unwound, CloseRaises
<1>3. CASE CtrlC \/ Killed
  BY <1>1, <1>3 DEF CtrlC, Killed
<1>4. CASE UNCHANGED vars
  BY <1>1, <1>4 DEF vars
<1>5. CASE Finish \/ SkipTripped \/ StopAtHead \/ StopRaisesAtHead \/ TakeBatch \/ SkipIdentity
  BY <1>1, <1>5 DEF Finish, SkipTripped, StopAtHead, StopRaisesAtHead, TakeBatch, SkipIdentity
<1>6. CASE Launch \/ EngineUnavailable \/ WentDirect \/ WentDirectCloseRaises \/ SessionDies
  BY <1>1, <1>6 DEF Launch, EngineUnavailable, WentDirect, WentDirectCloseRaises, SessionDies
<1>7. CASE \/ (\E o \in Sees : Fetch(o)) \/ JudgeStopRaises \/ JudgeRecord \/ BatchDone
           \/ CloseSession \/ (\E answer \in Answerable \cup Raising : RequestStop(answer))
  BY <1>1, <1>7 DEF Fetch, JudgeStopRaises, JudgeRecord, BatchDone, CloseSession, RequestStop
<1> QED BY <1>2, <1>3, <1>4, <1>5, <1>6, <1>7 DEF Next, RunnerStep

LEMMA VerdictStep ==
  ASSUME FileInv, BreakerInv, JudgeInv, VerdictInv, [Next]_vars
  PROVE  VerdictInv'
<1> SUFFICES ASSUME NEW c \in Cells, Spoken'
             PROVE  VerdictOf(c)'
  BY RaisedStep DEF VerdictInv, VerdictOf, Spoken
<1>0. Spoken => VerdictOf(c)
  BY DEF VerdictInv, VerdictOf, Spoken
<1>1. CASE StartFresh \/ StartResumed
  <2>1. PICK skip : Start(skip)
    BY <1>1 DEF StartFresh, StartResumed
  <2>2. Sent(c)' = {} /\ breakers'[c] = NewSessionBreaker /\ pc' = "head"
    BY <2>1, StartRows DEF Start
  <2> QED BY <2>2, NewBreaker DEF VerdictOf, Silent
<1>2. CASE UNCHANGED vars
  BY <1>0, <1>2 DEF vars, Spoken, VerdictOf, Silent, Sent, Rows, Cell, Batch
\* The rows of the cell that were there say what they said.
<1>a. ASSUME SameRows
      PROVE  (Silent(Sent(c)))' <=> Silent(Sent(c))
  BY <1>a DEF SameRows, Silent
<1>3. ASSUME NEW o \in Sees, Fetch(o) PROVE VerdictOf(c)'
  <2>1. /\ pc = "session" /\ pc' = "judge" /\ breakers' = breakers /\ Cell' = Cell
        /\ swallowed' = swallowed
    BY <1>3 DEF Fetch, Cell, Batch
  <2>2. NoVerdict(breakers[c]) <=> Silent(Sent(c))
    BY <1>0, <2>1 DEF Spoken, VerdictOf
  <2>3. /\ Sent(c)' = IF c = Cell THEN Sent(c) \cup {Len(Rows')} ELSE Sent(c)
        /\ Len(Rows') \notin Sent(c)
        /\ \A i \in Sent(c) : Rows'[i] = Rows[i]
    BY <1>3, FetchRows
  <2>4. CASE c = Cell
    <3>1. Sent(c)' \ {Len(Rows')} = Sent(c)
      BY <2>3, <2>4
    <3>2. (Silent(Sent(c) \ {Len(Rows)}))' <=> Silent(Sent(c))
      BY <2>3, <3>1 DEF Silent
    <3> QED BY <2>1, <2>2, <2>4, <3>2 DEF VerdictOf
  <2>5. CASE c # Cell
    <3>1. (Silent(Sent(c)))' <=> Silent(Sent(c))
      BY <2>3, <2>5 DEF Silent
    <3> QED BY <2>1, <2>2, <2>5, <3>1 DEF VerdictOf
  <2> QED BY <2>4, <2>5
<1>4. CASE JudgeRecord
  <2>1. /\ pc = "judge" /\ pc' = "session" /\ Cell' = Cell /\ Unwritten
        /\ swallowed' = swallowed
    BY <1>4 DEF JudgeRecord, Cell, Batch, Unwritten, history
  <2>2. /\ SameRows
        /\ c = Cell => (NoVerdict(breakers'[c]) <=>
                         NoVerdict(breakers[c]) /\ IsTransportFailure(Rows[Len(Rows)].outcome))
        /\ c # Cell => breakers'[c] = breakers[c]
    BY <1>4, <2>1, UnwrittenRows, JudgeRecordBreakers
  <2>3. VerdictOf(c)
    BY <1>0, <2>1 DEF Spoken
  <2>4. c = Cell => Len(Rows) \in Sent(c)
    <3>1. IsSeq(Rows) /\ Len(Rows) \in Nat
      BY <2>1, BegunHasFile
    <3>2. Rows # <<>> /\ Rows[Len(Rows)].kind = "attempt" /\ Rows[Len(Rows)].cell = Cell
      BY <2>1 DEF JudgeInv
    <3>3. Len(Rows) \in DOMAIN Rows
      BY <3>1, <3>2, EmptySeq, LenProperties DEF IsSeq
    <3> QED BY <3>2, <3>3 DEF Sent, OfCell
  <2>5. c = Cell => (Silent(Sent(c)) <=>
                     /\ Silent(Sent(c) \ {Len(Rows)})
                     /\ IsTransportFailure(Rows[Len(Rows)].outcome))
    BY <2>4 DEF Silent
  <2> QED BY <1>a, <2>1, <2>2, <2>3, <2>5 DEF VerdictOf
\* Steps that are told nothing of the target's answers.
<1>b. ASSUME SameRows \/ StopRows(TRUE) \/ StopRows(FALSE)
      PROVE  (Silent(Sent(c)))' <=> Silent(Sent(c))
  BY <1>b DEF SameRows, StopRows, Silent
<1>5. CASE Stopping
  <2>1. /\ pc = "identify" /\ pc' \in {"closing", "head"} /\ swallowed' = swallowed
        /\ EngineUnavailable => Unwritten
    BY <1>5 DEF Stopping, EngineUnavailable, WentDirect, WentDirectCloseRaises, NextBatch,
                Unwritten, history
  <2>2. (Silent(Sent(c)))' <=> Silent(Sent(c))
    BY <1>5, <1>b, <2>1, UnwrittenRows, WentDirectRows DEF Stopping
  <2>3. NoVerdict(breakers'[c]) <=> NoVerdict(breakers[c])
    BY <1>5, StoppingBreakers
  <2> QED BY <1>0, <2>1, <2>2, <2>3 DEF Spoken, VerdictOf
<1>6. CASE CloseSession
  <2>1. pc = "closing" /\ pc' = "head" /\ swallowed' = swallowed
    BY <1>6 DEF CloseSession, NextBatch, history
  <2>2. StopRows(Tripped(EndSession(breakers[Cell])))
    BY <1>6, CloseSessionRows
  <2>3. (Silent(Sent(c)))' <=> Silent(Sent(c))
    BY <2>2 DEF StopRows, Silent
  <2>4. NoVerdict(breakers'[c]) <=> NoVerdict(breakers[c])
    BY <1>6, CloseSessionBreakers
  <2> QED BY <1>0, <2>1, <2>3, <2>4 DEF Spoken, VerdictOf
<1>7. CASE QuietWrite
  <2>1. ((Silent(Sent(c)))' <=> Silent(Sent(c))) /\ breakers' = breakers
    BY <1>7, <1>a, QuietWriteRows, UntoldBreakers DEF QuietWrite, Untold
  <2>2. CASE SkipIdentity \/ SessionDies
    <3>1. pc \in {"identify", "session"} /\ pc' \in {"head", "closing"} /\ swallowed' = swallowed
      BY <2>2 DEF SkipIdentity, SessionDies, NextBatch, history
    <3> QED BY <1>0, <2>1, <3>1 DEF Spoken, VerdictOf
  <2>3. CASE JudgeTransport
    <3>1. pc = "judge" /\ pc' = "unwinding" /\ Cell' = Cell /\ swallowed' = swallowed
      BY <2>3 DEF JudgeTransport, Cell, Batch, history
    <3> QED BY <1>0, <2>1, <3>1 DEF Spoken, VerdictOf
  <2>4. CASE StopAtHead \/ JudgeStopRaises \/ CloseRaises \/ (Unwound /\ raised = "operator")
    <3>1. swallowed' = TRUE \/ (pc' = "over" /\ ending' = "operator")
      BY <2>4 DEF StopAtHead, JudgeStopRaises, CloseRaises, Unwound, Over
    <3> QED BY <3>1 DEF Spoken
  <2> QED BY <1>7, <2>2, <2>3, <2>4 DEF QuietWrite
<1>8. CASE Unwritten /\ Untold
  <2>1. ((Silent(Sent(c)))' <=> Silent(Sent(c))) /\ breakers' = breakers
    BY <1>8, <1>a, UnwrittenRows, UntoldBreakers
  <2>2. CASE Finish \/ SkipTripped \/ TakeBatch \/ Launch \/ BatchDone
    <3>1. /\ pc \in {"head", "identify", "session"} /\ swallowed' = swallowed
          /\ pc' \in {"over", "head", "identify", "session", "closing"}
      BY <2>2 DEF Finish, Over, SkipTripped, TakeBatch, Launch, BatchDone, history
    <3> QED BY <1>0, <2>1, <3>1 DEF Spoken, VerdictOf
  <2>3. CASE JudgeStop
    <3>1. pc = "judge" /\ pc' = "unwinding" /\ Cell' = Cell /\ swallowed' = swallowed
      BY <2>3 DEF JudgeStop, Cell, Batch, history
    <3> QED BY <1>0, <2>1, <3>1 DEF Spoken, VerdictOf
  <2>4. CASE CtrlC
    <3>1. /\ swallowed' = swallowed /\ Cell' = Cell
          /\ \/ pc' = "over" /\ ending' = "ctrl_c"
             \/ pc \in {"session", "judge"} /\ pc' = "unwinding"
      BY <2>4 DEF CtrlC, Over, Cell, Batch, history
    <3> QED BY <1>0, <2>1, <3>1 DEF Spoken, VerdictOf
  <2>5. CASE StopRaisesAtHead \/ Killed \/ (Unwound /\ raised # "operator")
    <3>1. pc' = "over" /\ (ending' \in {"crashed", "killed"} \/ ending' = raised)
      BY <2>5 DEF StopRaisesAtHead, Killed, Unwound, Over
    <3> QED BY <3>1 DEF Spoken, VerdictInv
  <2>6. ASSUME NEW answer \in Answerable \cup Raising, RequestStop(answer) PROVE VerdictOf(c)'
    <3>1. /\ pc \notin {"idle", "over"} /\ pc' = pc /\ Cell' = Cell /\ swallowed' = swallowed
          /\ disk' = disk
      BY <2>6 DEF RequestStop, Cell, Batch, history
    <3> QED BY <1>0, <2>1, <3>1 DEF Spoken, VerdictOf, Silent, Sent, Rows
  <2> QED BY <1>4, <1>5, <1>8, <2>2, <2>3, <2>4, <2>5, <2>6 DEF Unwritten, Stopping
<1> QED
  BY <1>1, <1>2, <1>3, <1>4, <1>5, <1>6, <1>7, <1>8
  DEF Next, RunnerStep, QuietWrite, Unwritten, Untold, Stopping

LEMMA PrintedStep ==
  ASSUME FileInv, VerdictInv, PrintedInv, [Next]_vars
  PROVE  PrintedInv'
<1>1. CASE Finish
  <2>1. /\ pc = "head" /\ swallowed' = swallowed /\ printed' = Summary /\ disk' = disk
    BY <1>1 DEF Finish, Over, history
  <2>2. Rows' = Rows
    BY <2>1 DEF Rows
  <2>3. ASSUME ~swallowed, NEW c \in Cells
        PROVE  printed'[c] # "absent" => (printed'[c] = "unmeasured" <=> Unanswered(c)')
    <3>1. NoVerdict(breakers[c]) <=> Silent(Sent(c))
      BY <2>1, <2>3 DEF VerdictInv
    <3>2. Unanswered(c)' <=> Silent(Sent(c))
      BY <2>2 DEF Unanswered, Silent, Sent
    <3>3. printed'[c] # "absent" => (printed'[c] = "unmeasured" <=> NoVerdict(breakers[c]))
      BY <2>1 DEF Summary
    <3> QED BY <3>1, <3>2, <3>3
  <2> QED BY <2>1, <2>3 DEF PrintedInv, SummaryAgrees
<1>2. CASE UNCHANGED vars
  BY <1>2 DEF vars, PrintedInv, SummaryAgrees, Unanswered, Rows
<1>3. CASE pc' # "over" \/ ending' # "finished"
  BY <1>3 DEF PrintedInv
<1>4. CASE StartFresh \/ StartResumed
  BY <1>3, <1>4 DEF StartFresh, StartResumed, Start
<1>5. CASE StopAtHead \/ StopRaisesAtHead \/ Unwound \/ CtrlC \/ Killed
  <2>1. pc' = "unwinding" \/ ending' \in {"operator", "crashed", "ctrl_c", "killed", raised}
    BY <1>5 DEF StopAtHead, StopRaisesAtHead, Unwound, CtrlC, Killed, Over
  <2> QED BY <1>3, <2>1 DEF VerdictInv
<1>6. CASE SkipTripped \/ TakeBatch \/ SkipIdentity \/ Launch \/ EngineUnavailable \/ WentDirect
  BY <1>3, <1>6 DEF SkipTripped, TakeBatch, SkipIdentity, Launch, EngineUnavailable, WentDirect,
                    NextBatch
<1>7. CASE WentDirectCloseRaises \/ SessionDies \/ JudgeTransport \/ JudgeStop \/ JudgeStopRaises
  BY <1>3, <1>7 DEF WentDirectCloseRaises, SessionDies, JudgeTransport, JudgeStop, JudgeStopRaises
<1>8. CASE JudgeRecord \/ BatchDone \/ CloseSession \/ CloseRaises \/ (\E o \in Sees : Fetch(o))
  BY <1>3, <1>8 DEF JudgeRecord, BatchDone, CloseSession, NextBatch, CloseRaises, Fetch
<1>9. CASE \E answer \in Answerable \cup Raising : RequestStop(answer)
  BY <1>3, <1>9 DEF RequestStop
<1> QED
  BY <1>1, <1>2, <1>4, <1>5, <1>6, <1>7, <1>8, <1>9 DEF Next, RunnerStep

LEMMA StepInvariant == IInv /\ [Next]_vars => IInv'
BY PromptStep, FileStep, BreakerStep, JudgeStep, StopsStep, VerdictStep, PrintedStep DEF IInv
----------------------------------------------------------------------------
(* What Kept keeps.                                                        *)

\* The equation that Kept's recursive function solves.
Keeping(list, T, f) ==
  f = [n \in 0..Len(list) |->
         IF n = 0 THEN <<>>
         ELSE IF list[n] \in T THEN Append(f[n - 1], list[n]) ELSE f[n - 1]]
Keeps(list, T, V) ==
  [n \in 1..Len(list) |->
     [kept \in Seq(V) |-> IF list[n] \in T THEN Append(kept, list[n]) ELSE kept]]

LEMMA KeepingExists ==
  ASSUME NEW V, NEW list \in Seq(V), NEW T
  PROVE  \E f \in [0..Len(list) -> Seq(V)] : Keeping(list, T, f)
<1>1. Len(list) \in Nat /\ \A i \in 1..Len(list) : list[i] \in V
  BY ElementOfSeq, LenProperties
<1>2. Keeps(list, T, V) \in [1..Len(list) -> [Seq(V) -> Seq(V)]]
  <2>1. \A n \in 1..Len(list), kept \in Seq(V) : Append(kept, list[n]) \in Seq(V)
    BY <1>1, AppendProperties
  <2> QED BY <2>1 DEF Keeps
<1>3. <<>> \in Seq(V)
  BY EmptySeq
<1>4. PICK f \in [0..Len(list) -> Seq(V)] : Recurs(f, Len(list), <<>>, Keeps(list, T, V))
  BY <1>1, <1>2, <1>3, RecursionExists
<1>5. \A n \in 0..Len(list) :
        f[n] = IF n = 0 THEN <<>>
               ELSE IF list[n] \in T THEN Append(f[n - 1], list[n]) ELSE f[n - 1]
  <2> TAKE n \in 0..Len(list)
  <2>1. f[n] = IF n = 0 THEN <<>> ELSE Keeps(list, T, V)[n][f[n - 1]]
    BY <1>4 DEF Recurs
  <2>2. ASSUME n # 0
        PROVE  Keeps(list, T, V)[n][f[n - 1]] =
                 IF list[n] \in T THEN Append(f[n - 1], list[n]) ELSE f[n - 1]
    <3>1. n \in 1..Len(list) /\ n - 1 \in 0..Len(list)
      BY <1>1, <2>2
    <3>2. f[n - 1] \in Seq(V)
      BY <3>1
    <3> QED BY <3>1, <3>2 DEF Keeps
  <2> QED BY <2>1, <2>2
<1> QED BY <1>5 DEF Keeping

\* The equation, an element at a time.
Stepped(list, T, f) ==
  \A n \in Nat : n + 1 <= Len(list) =>
    f[n + 1] = IF list[n + 1] \in T THEN Append(f[n], list[n + 1]) ELSE f[n]

\* One step of it.
LEMMA KeepingStep ==
  ASSUME NEW list, NEW T, NEW f, Keeping(list, T, f), Len(list) \in Nat
  PROVE  Stepped(list, T, f)
<1> USE DEF Stepped
<1> TAKE n \in Nat
<1> HAVE n + 1 <= Len(list)
<1> DEFINE m == n + 1
<1>1. m \in 0..Len(list) /\ m # 0 /\ m - 1 = n
  OBVIOUS
<1> HIDE DEF m
<1>2. f[m] = IF m = 0 THEN <<>>
             ELSE IF list[m] \in T THEN Append(f[m - 1], list[m]) ELSE f[m - 1]
  BY <1>1 DEF Keeping
<1>3. f[m] = IF list[m] \in T THEN Append(f[n], list[m]) ELSE f[n]
  BY <1>1, <1>2
<1> QED BY <1>3 DEF m

\* What is kept of a list is kept of the beginning of a longer one.
LEMMA KeepingAgrees ==
  ASSUME NEW V, NEW list \in Seq(V), NEW T, NEW longer \in Seq(V), NEW U,
         Len(list) <= Len(longer), \A i \in 1..Len(list) : list[i] = longer[i],
         \A i \in 1..Len(list) : list[i] \in T <=> list[i] \in U,
         NEW f, Keeping(list, T, f), NEW g, Keeping(longer, U, g)
  PROVE  \A n \in 0..Len(list) : f[n] = g[n]
<1> DEFINE S == {n \in Nat : n <= Len(list) => f[n] = g[n]}
<1>0. Len(list) \in Nat /\ Len(longer) \in Nat
  BY LenProperties
<1>1. 0 \in S
  BY <1>0 DEF Keeping
<1>2. ASSUME NEW n \in Nat, n \in S PROVE n + 1 \in S
  <2> SUFFICES ASSUME n + 1 <= Len(list) PROVE f[n + 1] = g[n + 1]
    OBVIOUS
  <2>1. f[n] = g[n] /\ n + 1 \in 1..Len(list) /\ n + 1 \in 1..Len(longer) /\ (n + 1) - 1 = n
    BY <1>0, <1>2
  <2>2. /\ f[n + 1] = IF list[n + 1] \in T THEN Append(f[n], list[n + 1]) ELSE f[n]
        /\ g[n + 1] = IF longer[n + 1] \in U THEN Append(g[n], longer[n + 1]) ELSE g[n]
    <3>1. Stepped(list, T, f) /\ Stepped(longer, U, g)
      BY <1>0, KeepingStep
    <3> QED BY <1>0, <2>1, <3>1 DEF Stepped
  <2> QED BY <2>1, <2>2
<1>3. Nat \subseteq S
  <2> HIDE DEF S
  <2> QED BY <1>1, <1>2, NatInduct
<1> QED BY <1>3

LEMMA KeptIs ==
  ASSUME NEW V, NEW list \in Seq(V), NEW T
  PROVE  \E f \in [0..Len(list) -> Seq(V)] : Keeping(list, T, f) /\ Kept(list, T) = f[Len(list)]
<1> DEFINE F == CHOOSE f : Keeping(list, T, f)
<1>1. Kept(list, T) = F[Len(list)]
  BY DEF Kept, Keeping
<1>2. PICK f \in [0..Len(list) -> Seq(V)] : Keeping(list, T, f)
  BY KeepingExists
<1>3. Keeping(list, T, F)
  BY <1>2
<1> HIDE DEF F
<1>4. Len(list) \in Nat
  BY LenProperties
<1>5. \A n \in 0..Len(list) : F[n] = f[n]
  BY <1>2, <1>3, <1>4, KeepingAgrees
<1>6. Len(list) \in 0..Len(list)
  BY <1>4
<1> QED BY <1>1, <1>2, <1>5, <1>6

\* Of a list with one element more, what was kept and that element or not.
LEMMA KeptGrows ==
  ASSUME NEW V, NEW list \in Seq(V), NEW T, NEW longer \in Seq(V), NEW U,
         Len(longer) = Len(list) + 1, \A i \in 1..Len(list) : list[i] = longer[i],
         \A i \in 1..Len(list) : list[i] \in T <=> list[i] \in U
  PROVE  /\ Kept(list, T) \in Seq(V)
         /\ Kept(longer, U) = IF longer[Len(longer)] \in U
                              THEN Append(Kept(list, T), longer[Len(longer)])
                              ELSE Kept(list, T)
<1>1. Len(list) \in Nat /\ Len(list) <= Len(longer)
  BY LenProperties
<1>2. PICK f \in [0..Len(list) -> Seq(V)] : Keeping(list, T, f) /\ Kept(list, T) = f[Len(list)]
  BY KeptIs
<1>3. PICK g \in [0..Len(longer) -> Seq(V)] :
        Keeping(longer, U, g) /\ Kept(longer, U) = g[Len(longer)]
  BY KeptIs
<1>4. g[Len(longer)] = IF longer[Len(longer)] \in U
                       THEN Append(g[Len(list)], longer[Len(longer)]) ELSE g[Len(list)]
  <2>1. Len(longer) \in Nat /\ Len(list) \in Nat /\ Len(list) + 1 <= Len(longer)
    BY <1>1
  <2>2. Keeping(longer, U, g)
    BY <1>3
  <2>3. Stepped(longer, U, g)
    BY <2>1, <2>2, KeepingStep
  <2>4. g[Len(list) + 1] = IF longer[Len(list) + 1] \in U
                           THEN Append(g[Len(list)], longer[Len(list) + 1]) ELSE g[Len(list)]
    BY <2>1, <2>3 DEF Stepped
  <2> QED BY <2>4
<1>5. g[Len(list)] = f[Len(list)]
  <2>1. Keeping(list, T, f) /\ Keeping(longer, U, g)
    BY <1>2, <1>3
  <2>2. \A n \in 0..Len(list) : f[n] = g[n]
    BY <1>1, <2>1, KeepingAgrees
  <2> QED BY <1>1, <2>2
<1> QED BY <1>1, <1>2, <1>3, <1>4, <1>5

\* And which element of a set of values is kept depends on these alone.
LEMMA KeptSame ==
  ASSUME NEW V, NEW list \in Seq(V), NEW T, NEW U,
         \A i \in 1..Len(list) : list[i] \in T <=> list[i] \in U
  PROVE  Kept(list, T) = Kept(list, U)
<1>1. Len(list) \in Nat /\ Len(list) \in 0..Len(list)
  BY LenProperties
<1>2. PICK f : Keeping(list, T, f) /\ Kept(list, T) = f[Len(list)]
  BY KeptIs
<1>3. PICK g : Keeping(list, U, g) /\ Kept(list, U) = g[Len(list)]
  BY KeptIs
<1>4. \A n \in 0..Len(list) : f[n] = g[n]
  BY <1>1, <1>2, <1>3, KeepingAgrees
<1> QED BY <1>1, <1>2, <1>3, <1>4

\* `kept` is of the first n elements of a list those in T, where `at` says.
PicksAt(kept, list, T, n, at) ==
  /\ at \in [1..Len(kept) -> 1..n]
  /\ \A i \in 1..Len(kept) : kept[i] = list[at[i]]
  /\ \A i, j \in 1..Len(kept) : i < j => at[i] < at[j]
  /\ \A m \in 1..n : list[m] \in T => \E i \in 1..Len(kept) : at[i] = m
Picks(kept, list, T, n) ==
  /\ Len(kept) <= n
  /\ \A i \in 1..Len(kept) : kept[i] \in T
  /\ \E at : PicksAt(kept, list, T, n, at)

LEMMA KeptPicks ==
  ASSUME NEW V, NEW list \in Seq(V), NEW T
  PROVE  Kept(list, T) \in Seq(V) /\ Picks(Kept(list, T), list, T, Len(list))
<1>0. Len(list) \in Nat /\ \A i \in 1..Len(list) : list[i] \in V
  BY LenProperties, ElementOfSeq
<1>1. PICK f \in [0..Len(list) -> Seq(V)] : Keeping(list, T, f) /\ Kept(list, T) = f[Len(list)]
  BY KeptIs
<1> DEFINE S == {n \in Nat : n <= Len(list) => Picks(f[n], list, T, n)}
<1>2. 0 \in S
  <2>1. f[0] = <<>> /\ Len(<<>>) = 0
    BY <1>0, <1>1 DEF Keeping
  <2>2. PicksAt(<<>>, list, T, 0, [i \in 1..0 |-> 1])
    BY DEF PicksAt
  <2> QED BY <2>1, <2>2 DEF Picks
<1>3. ASSUME NEW n \in Nat, n \in S PROVE n + 1 \in S
  <2> SUFFICES ASSUME n + 1 <= Len(list) PROVE Picks(f[n + 1], list, T, n + 1)
    OBVIOUS
  <2>1. n \in 0..Len(list) /\ n + 1 \in 1..Len(list) /\ (n + 1) - 1 = n /\ Picks(f[n], list, T, n)
    BY <1>0, <1>3
  <2>2. f[n + 1] = IF list[n + 1] \in T THEN Append(f[n], list[n + 1]) ELSE f[n]
    <3>1. Stepped(list, T, f)
      BY <1>0, <1>1, KeepingStep
    <3> QED BY <1>0, <2>1, <3>1 DEF Stepped
  <2>3. f[n] \in Seq(V) /\ Len(f[n]) \in Nat /\ list[n + 1] \in V
    BY <1>0, <1>1, <2>1, LenProperties
  <2>4. PICK at : PicksAt(f[n], list, T, n, at)
    BY <2>1 DEF Picks
  <2>5. CASE list[n + 1] \notin T
    <3>1. PicksAt(f[n], list, T, n + 1, at)
      <4>1. at \in [1..Len(f[n]) -> 1..(n + 1)]
        BY <2>4 DEF PicksAt
      <4>2. \A m \in 1..(n + 1) : list[m] \in T => m \in 1..n
        BY <2>5
      <4> QED BY <2>4, <4>1, <4>2 DEF PicksAt
    <3> QED BY <2>1, <2>2, <2>5, <3>1 DEF Picks
  <2>6. CASE list[n + 1] \in T
    <3> DEFINE k == f[n]
               l == Append(f[n], list[n + 1])
               to == [i \in 1..(Len(k) + 1) |-> IF i <= Len(k) THEN at[i] ELSE n + 1]
    <3>1. /\ l \in Seq(V) /\ Len(l) = Len(k) + 1
          /\ \A i \in 1..Len(k) : l[i] = k[i]
          /\ l[Len(k) + 1] = list[n + 1]
      BY <2>3, AppendProperties
    <3>2. /\ at \in [1..Len(k) -> 1..n]
          /\ \A i \in 1..Len(k) : k[i] = list[at[i]]
          /\ \A i, j \in 1..Len(k) : i < j => at[i] < at[j]
          /\ \A m \in 1..n : list[m] \in T => \E i \in 1..Len(k) : at[i] = m
      BY <2>4 DEF PicksAt
    <3>3. Len(k) <= n /\ (\A i \in 1..Len(k) : k[i] \in T) /\ Len(k) \in Nat
      BY <2>1, <2>3 DEF Picks
    <3>4. f[n + 1] = l
      BY <2>2, <2>6
    <3> HIDE DEF k, l
    <3>5. /\ \A i \in 1..Len(k) : to[i] = at[i] /\ at[i] \in 1..n
          /\ to[Len(k) + 1] = n + 1
          /\ \A i \in 1..(Len(k) + 1) : i \in 1..Len(k) \/ i = Len(k) + 1
      <4>0. \A i \in 1..Len(k) : at[i] \in 1..n
        BY <3>2
      <4>1. \A i \in 1..Len(k) : i \in 1..(Len(k) + 1) /\ i <= Len(k) /\ at[i] \in 1..n
        BY <3>3, <4>0
      <4>2. Len(k) + 1 \in 1..(Len(k) + 1) /\ ~(Len(k) + 1 <= Len(k))
        BY <3>3
      <4>3. \A i \in 1..(Len(k) + 1) : i \in 1..Len(k) \/ i = Len(k) + 1
        BY <3>3
      <4> QED BY <4>1, <4>2, <4>3
    <3>6. to \in [1..(Len(k) + 1) -> 1..(n + 1)]
      BY <3>2, <3>3
    <3> HIDE DEF to
    <3>7. \A i \in 1..Len(l) : l[i] = list[to[i]] /\ l[i] \in T
      BY <2>6, <3>1, <3>2, <3>3, <3>5
    <3>8. \A i, j \in 1..Len(l) : i < j => to[i] < to[j]
      <4> TAKE i, j \in 1..Len(l)
      <4>1. CASE j \in 1..Len(k)
        <5>1. i < j => i \in 1..Len(k)
          BY <3>1, <3>3, <4>1
        <5> QED BY <3>2, <3>5, <4>1, <5>1
      <4>2. CASE j = Len(k) + 1
        <5>1. i < j => i \in 1..Len(k)
          BY <3>1, <3>3, <4>2
        <5>2. i < j => to[i] \in 1..n /\ to[j] = n + 1
          BY <3>5, <4>2, <5>1
        <5> QED BY <5>2
      <4> QED BY <3>1, <3>5, <4>1, <4>2
    <3>9. \A m \in 1..(n + 1) : list[m] \in T => \E i \in 1..Len(l) : to[i] = m
      <4> TAKE m \in 1..(n + 1)
      <4>1. CASE m \in 1..n
        <5> HAVE list[m] \in T
        <5>1. PICK i \in 1..Len(k) : at[i] = m
          BY <3>2, <4>1
        <5>2. i \in 1..Len(l) /\ to[i] = m
          BY <3>1, <3>3, <3>5, <5>1
        <5> QED BY <5>2
      <4>2. CASE m = n + 1
        <5>1. Len(k) + 1 \in 1..Len(l)
          BY <3>1, <3>3
        <5> QED BY <3>5, <4>2, <5>1
      <4> QED BY <4>1, <4>2
    <3>10. PicksAt(l, list, T, n + 1, to)
      BY <3>1, <3>6, <3>7, <3>8, <3>9 DEF PicksAt
    <3> QED BY <3>1, <3>3, <3>4, <3>7, <3>10 DEF Picks
  <2> QED BY <2>5, <2>6
<1>4. Len(list) \in S
  <2> HIDE DEF S
  <2> QED BY <1>0, <1>2, <1>3, NatInduct
<1>5. f[Len(list)] \in Seq(V)
  BY <1>0, <1>1
<1> QED BY <1>0, <1>1, <1>4, <1>5
----------------------------------------------------------------------------
(* The plan.                                                               *)

Batches == [cell : Cells, index : Nat \ {0}, queries : Seq(Queries)]

\* The queries of a cell that are not skipped, and these only.
LEMMA RemainingIs ==
  ASSUME NEW c, NEW skip
  PROVE  LET rest == Remaining(c, skip)
         IN  /\ rest \in Seq(Queries) /\ Len(rest) <= Len(QueryOrder)
             /\ \A i \in 1..Len(rest) : <<c, rest[i]>> \notin skip
             /\ \A q \in Queries : <<c, q>> \notin skip => \E i \in 1..Len(rest) : rest[i] = q
<1> DEFINE T == {q \in Queries : <<c, q>> \notin skip}
           rest == Kept(QueryOrder, T)
<1>1. QueryOrder \in Seq(Queries)
  BY RunAssumption DEF Queries
<1>2. rest \in Seq(Queries) /\ Picks(rest, QueryOrder, T, Len(QueryOrder))
  <2> HIDE DEF T
  <2> QED BY <1>1, KeptPicks
<1>3. \A q \in Queries : \E m \in 1..Len(QueryOrder) : QueryOrder[m] = q
  BY <1>1, LenProperties DEF Queries, Range
<1> HIDE DEF rest
<1>4. PICK at : PicksAt(rest, QueryOrder, T, Len(QueryOrder), at)
  BY <1>2 DEF Picks
<1>5. ASSUME NEW q \in T PROVE \E i \in 1..Len(rest) : rest[i] = q
  <2>1. PICK m \in 1..Len(QueryOrder) : QueryOrder[m] = q
    BY <1>3
  <2>2. PICK i \in 1..Len(rest) : at[i] = m
    BY <1>4, <1>5, <2>1 DEF PicksAt
  <2>3. rest[i] = QueryOrder[at[i]]
    BY <1>4 DEF PicksAt
  <2> QED BY <2>1, <2>2, <2>3
<1> QED BY <1>2, <1>5 DEF Picks, Remaining, rest

\* A chunk holds the queries at its place among the remaining ones.
ChunkHolds(c, index, skip) ==
  LET chunk == Chunk(c, index, skip)
      rest  == Remaining(c, skip)
  IN  /\ chunk \in Seq(Queries) /\ Len(chunk) \in 0..BatchSize
      /\ \A j \in 1..Len(chunk) : <<c, chunk[j]>> \notin skip
      /\ \A p \in 1..Len(rest) : (p - 1) \div BatchSize = index - 1 =>
           \E j \in 1..Len(chunk) : chunk[j] = rest[p]

LEMMA ChunkIs ==
  ASSUME NEW c, NEW index \in Nat \ {0}, NEW skip
  PROVE  ChunkHolds(c, index, skip)
<1> DEFINE rest  == Remaining(c, skip)
           B     == BatchSize
           upto  == index * B
           n     == IF upto < Len(rest) THEN upto ELSE Len(rest)
           m     == upto - B + 1
           chunk == SubSeq(rest, m, n)
<1>1. /\ rest \in Seq(Queries)
      /\ \A i \in 1..Len(rest) : <<c, rest[i]>> \notin skip
  BY RemainingIs
<1>2. chunk = Chunk(c, index, skip)
  BY DEF Chunk
<1>3. Len(rest) \in Nat /\ (\A i \in 1..Len(rest) : rest[i] \in Queries)
  BY <1>1, LenProperties, ElementOfSeq
<1>4. B \in Nat \ {0}
  BY RunAssumption
<1> HIDE DEF rest, B
<1>5. upto \in Nat /\ upto - B >= 0
  BY <1>4
<1>6. ASSUME NEW p \in 1..Len(rest), (p - 1) \div B = index - 1
      PROVE  p - (upto - B) \in 1..B
  <2>0. p - 1 \in Nat
    BY <1>3
  <2>1. p - 1 = B * ((p - 1) \div B) + ((p - 1) % B) /\ (p - 1) % B \in 0..(B - 1)
    BY <1>4, <2>0
  <2>2. B * (index - 1) = upto - B
    BY <1>4
  <2>3. PICK r \in 0..(B - 1) : p - 1 = (upto - B) + r
    BY <1>6, <2>1, <2>2
  <2> HIDE DEF upto
  <2> QED BY <1>4, <1>5, <2>3
<1> HIDE DEF upto
<1>7. /\ m \in Int /\ n \in Int /\ m >= 1 /\ n <= Len(rest) /\ n - m + 1 <= B
      /\ \A i \in m..n : i \in 1..Len(rest)
  BY <1>3, <1>4, <1>5
<1> HIDE DEF m, n
<1>8. \A i \in m..n : rest[i] \in Queries
  BY <1>3, <1>7
<1>9. /\ chunk \in Seq(Queries)
      /\ Len(chunk) = IF m <= n THEN n - m + 1 ELSE 0
      /\ \A i \in 1..(n - m + 1) : chunk[i] = rest[m + i - 1]
  BY <1>7, <1>8, SubSeqProperties
<1>10. Len(chunk) \in 0..B
  BY <1>4, <1>7, <1>9
<1>11. ASSUME NEW j \in 1..Len(chunk) PROVE <<c, chunk[j]>> \notin skip
  <2>1. j \in 1..(n - m + 1) /\ m + j - 1 \in m..n
    BY <1>7, <1>9, <1>11
  <2>2. m + j - 1 \in 1..Len(rest)
    BY <1>7, <2>1
  <2>3. chunk[j] = rest[m + j - 1]
    BY <1>9, <2>1
  <2> QED BY <1>1, <2>2, <2>3
<1>12. ASSUME NEW p \in 1..Len(rest), (p - 1) \div B = index - 1
       PROVE  \E j \in 1..Len(chunk) : chunk[j] = rest[p]
  <2>1. p - (upto - B) \in 1..B
    BY <1>6, <1>12
  <2>2. p - m + 1 \in 1..(n - m + 1) /\ m <= n /\ m + (p - m + 1) - 1 = p
    BY <1>3, <1>4, <1>5, <2>1 DEF m, n
  <2>3. chunk[p - m + 1] = rest[p] /\ p - m + 1 \in 1..Len(chunk)
    BY <1>9, <2>2
  <2> QED BY <2>3
<1> HIDE DEF chunk
<1>13. /\ Chunk(c, index, skip) \in Seq(Queries) /\ Len(Chunk(c, index, skip)) \in 0..BatchSize
       /\ \A j \in 1..Len(Chunk(c, index, skip)) : <<c, Chunk(c, index, skip)[j]>> \notin skip
  BY <1>2, <1>9, <1>10, <1>11 DEF B
<1>14. \A p \in 1..Len(rest) : (p - 1) \div BatchSize = index - 1 =>
           \E j \in 1..Len(Chunk(c, index, skip)) : Chunk(c, index, skip)[j] = rest[p]
  BY <1>2, <1>12 DEF B
<1> QED BY <1>13, <1>14 DEF ChunkHolds, rest

\* The place of a cell and an index in the grid, and what is there.
LEMMA GridIs ==
  ASSUME NEW skip
  PROVE  LET grid == Grid(skip)
             size == Len(CellOrder) * Len(QueryOrder)
         IN  /\ size \in Nat /\ grid \in Seq(Batches) /\ Len(grid) = size
             /\ \A k \in 1..size :
                  /\ grid[k].queries = Chunk(grid[k].cell, grid[k].index, skip)
                  /\ \A l \in 1..size :
                       /\ k <= l => grid[k].index <= grid[l].index
                       /\ grid[k].cell = grid[l].cell /\ grid[k].index = grid[l].index => k = l
             /\ \A c \in Cells, index \in 1..Len(QueryOrder) :
                  \E k \in 1..size : grid[k] = BatchOf(c, index, skip)
<1> DEFINE W == Len(CellOrder)
           D == Len(QueryOrder)
           grid == Grid(skip)
           size == W * D
           column(k) == ((k - 1) % W) + 1
           line(k) == ((k - 1) \div W) + 1
<1>1. /\ CellOrder \in Seq(Cells) /\ QueryOrder \in Seq(Queries) /\ IsInjective(CellOrder)
  BY RunAssumption DEF Cells, Queries
<1>2. W \in Nat /\ D \in Nat /\ (\A a \in 1..W : CellOrder[a] \in Cells) /\ DOMAIN CellOrder = 1..W
  BY <1>1, LenProperties, ElementOfSeq
<1>3. \A c \in Cells : \E a \in 1..W : CellOrder[a] = c
  BY <1>2 DEF Cells, Range
<1>4. grid = [k \in 1..size |-> BatchOf(CellOrder[column(k)], line(k), skip)]
  BY DEF Grid
<1> HIDE DEF W, D, grid
<1>5. size \in Nat
  BY <1>2
<1>6. ASSUME NEW k \in 1..size
      PROVE  /\ W \in Nat \ {0} /\ k - 1 \in Nat
             /\ column(k) \in 1..W /\ line(k) \in Nat \ {0}
             /\ k - 1 = W * (line(k) - 1) + (column(k) - 1)
  <2>1. W # 0 /\ k - 1 \in Nat
    BY <1>2
  <2>2. (k - 1) % W \in 0..(W - 1) /\ (k - 1) \div W \in Nat
        /\ k - 1 = W * ((k - 1) \div W) + ((k - 1) % W)
    BY <1>2, <2>1
  <2> QED BY <1>2, <2>1, <2>2
<1>7. ASSUME NEW k \in 1..size
      PROVE  /\ grid[k] = BatchOf(CellOrder[column(k)], line(k), skip)
             /\ grid[k].cell = CellOrder[column(k)] /\ grid[k].index = line(k)
             /\ grid[k].queries = Chunk(grid[k].cell, grid[k].index, skip)
             /\ grid[k] \in Batches
  <2>1. grid[k] = BatchOf(CellOrder[column(k)], line(k), skip)
    BY <1>4
  <2>2. column(k) \in 1..W /\ line(k) \in Nat \ {0}
    BY <1>6
  <2>3. Chunk(CellOrder[column(k)], line(k), skip) \in Seq(Queries)
    <3> HIDE DEF column, line
    <3>1. ChunkHolds(CellOrder[column(k)], line(k), skip)
      BY <2>2, ChunkIs
    <3> QED BY <3>1 DEF ChunkHolds
  <2> HIDE DEF column, line
  <2> QED BY <1>2, <2>1, <2>2, <2>3 DEF BatchOf, Batches
<1>8. grid \in Seq(Batches) /\ Len(grid) = size
  <2>1. grid \in [1..size -> Batches]
    BY <1>4, <1>7
  <2> QED BY <1>5, <2>1, SeqDef
<1>9. ASSUME NEW k \in 1..size, NEW l \in 1..size, k <= l
      PROVE  grid[k].index <= grid[l].index
  <2>1. k - 1 \in Nat /\ l - 1 \in Nat /\ k - 1 <= l - 1 /\ W \in Nat \ {0}
    BY <1>6, <1>9
  <2>2. (k - 1) \div W <= (l - 1) \div W /\ (k - 1) \div W \in Nat /\ (l - 1) \div W \in Nat
    BY <2>1
  <2>3. grid[k].index = ((k - 1) \div W) + 1 /\ grid[l].index = ((l - 1) \div W) + 1
    BY <1>7
  <2> QED BY <2>2, <2>3
<1>10. ASSUME NEW k \in 1..size, NEW l \in 1..size,
              grid[k].cell = grid[l].cell, grid[k].index = grid[l].index
       PROVE  k = l
  <2>1. line(k) = line(l) /\ CellOrder[column(k)] = CellOrder[column(l)]
    BY <1>7, <1>10
  <2>2. column(k) = column(l)
    <3>1. column(k) \in DOMAIN CellOrder /\ column(l) \in DOMAIN CellOrder
      BY <1>2, <1>6
    <3> HIDE DEF column
    <3> QED BY <1>1, <2>1, <3>1 DEF IsInjective
  <2>3. k - 1 = W * (line(k) - 1) + (column(k) - 1) /\ l - 1 = W * (line(l) - 1) + (column(l) - 1)
    BY <1>6
  <2>4. k - 1 = l - 1
    BY <2>1, <2>2, <2>3
  <2> QED BY <1>5, <2>4
<1>11. ASSUME NEW c \in Cells, NEW index \in 1..D
       PROVE  \E k \in 1..size : grid[k] = BatchOf(c, index, skip)
  <2>1. PICK a \in 1..W : CellOrder[a] = c
    BY <1>3
  <2> DEFINE k == (index - 1) * W + a
  <2>2. W \in Nat \ {0} /\ index - 1 \in Nat /\ a - 1 \in Nat /\ a - 1 < W /\ k - 1 = (index - 1) * W + (a - 1)
    BY <1>2
  <2>3. (k - 1) \div W = index - 1 /\ (k - 1) % W = a - 1
    <3> DEFINE x == index - 1
               y == a - 1
    <3>1. x \in Nat /\ y \in Nat /\ y < W
      BY <2>2
    <3> HIDE DEF x, y
    <3>2. (x * W + y) \div W = x /\ (x * W + y) % W = y
      BY <2>2, <3>1
    <3> QED BY <2>2, <3>2 DEF x, y
  <2>4. k \in 1..size
    <3>1. (index - 1) * W + W <= D * W
      BY <1>2
    <3>2. (index - 1) * W \in Nat /\ D * W = size
      BY <1>2, <2>2
    <3> QED BY <1>2, <3>1, <3>2
  <2>5. column(k) = a /\ line(k) = index
    BY <1>2, <2>3
  <2>6. grid[k] = BatchOf(CellOrder[column(k)], line(k), skip)
    BY <1>7, <2>4
  <2> QED BY <2>1, <2>4, <2>5, <2>6
<1> HIDE DEF column, line
<1>12. \A k \in 1..size :
         /\ grid[k].queries = Chunk(grid[k].cell, grid[k].index, skip)
         /\ \A l \in 1..size :
              /\ k <= l => grid[k].index <= grid[l].index
              /\ grid[k].cell = grid[l].cell /\ grid[k].index = grid[l].index => k = l
  BY <1>7, <1>9, <1>10
<1> QED BY <1>5, <1>8, <1>11, <1>12 DEF W, D, grid

\* What a plan is owed: batches of queries that are not skipped, taken across
\* the cells one index at a time, no two of one cell and index, and a place
\* in one of them for every question.
Ahead(p, c, q) ==
  \E i \in 1..Len(p) : p[i].cell = c /\ \E j \in 1..Len(p[i].queries) : p[i].queries[j] = q
InOrder(p) ==
  \A i, j \in 1..Len(p) : i < j => /\ p[i].index <= p[j].index
                                   /\ p[i].cell = p[j].cell => p[i].index # p[j].index
Filled(p, skip) ==
  \A i \in 1..Len(p) : /\ Len(p[i].queries) \in 1..BatchSize
                       /\ \A j \in 1..Len(p[i].queries) :
                            <<p[i].cell, p[i].queries[j]>> \notin skip

LEMMA PlanIs ==
  ASSUME NEW skip
  PROVE  /\ PlanSkipping(skip) \in Seq(Batches)
         /\ InOrder(PlanSkipping(skip)) /\ Filled(PlanSkipping(skip), skip)
         /\ \A c \in Cells, q \in Queries : <<c, q>> \notin skip => Ahead(PlanSkipping(skip), c, q)
<1> DEFINE grid == Grid(skip)
           size == Len(CellOrder) * Len(QueryOrder)
           T == {batch \in Range(grid) : batch.queries # <<>>}
           p == Kept(grid, T)
<1>1. /\ size \in Nat /\ grid \in Seq(Batches) /\ Len(grid) = size
      /\ \A k \in 1..size :
           /\ grid[k].queries = Chunk(grid[k].cell, grid[k].index, skip)
           /\ \A l \in 1..size :
                /\ k <= l => grid[k].index <= grid[l].index
                /\ grid[k].cell = grid[l].cell /\ grid[k].index = grid[l].index => k = l
  BY GridIs
<1>2. \A c \in Cells, index \in 1..Len(QueryOrder) :
        \E k \in 1..size : grid[k] = BatchOf(c, index, skip)
  BY GridIs
<1>3. p = PlanSkipping(skip)
  BY DEF PlanSkipping
<1>4. \A k \in 1..size : grid[k] \in Range(grid)
  BY <1>1, LenProperties DEF Range
<1> HIDE DEF grid, size
<1>5. p \in Seq(Batches) /\ Picks(p, grid, T, size)
  <2>1. p \in Seq(Batches) /\ Picks(p, grid, T, Len(grid))
    <3> HIDE DEF T
    <3> QED BY <1>1, KeptPicks
  <2> QED BY <1>1, <2>1
<1>6. \A i \in 1..Len(p) : p[i].queries # <<>>
  BY <1>5 DEF Picks
<1>7. \A k \in 1..size : grid[k].queries # <<>> => grid[k] \in T
  BY <1>4
<1> HIDE DEF T, p
<1>8. PICK at : PicksAt(p, grid, T, size, at)
  BY <1>5 DEF Picks
<1>9. \A i \in 1..Len(p) : at[i] \in 1..size /\ p[i] = grid[at[i]]
  BY <1>8 DEF PicksAt
<1>10. \A i, j \in 1..Len(p) : i < j => at[i] < at[j]
  BY <1>8 DEF PicksAt
<1>11. InOrder(p)
  <2> SUFFICES ASSUME NEW i \in 1..Len(p), NEW j \in 1..Len(p), i < j
               PROVE  p[i].index <= p[j].index /\ (p[i].cell = p[j].cell => p[i].index # p[j].index)
    BY DEF InOrder
  <2>1. at[i] \in 1..size /\ at[j] \in 1..size /\ at[i] < at[j] /\ p[i] = grid[at[i]] /\ p[j] = grid[at[j]]
    BY <1>9, <1>10
  <2>2. at[i] <= at[j] /\ at[i] # at[j]
    BY <1>1, <2>1
  <2> QED BY <1>1, <2>1, <2>2
<1>12. ASSUME NEW i \in 1..Len(p)
       PROVE  /\ p[i].cell \in Cells
              /\ ChunkHolds(p[i].cell, p[i].index, skip)
              /\ p[i].queries = Chunk(p[i].cell, p[i].index, skip)
  <2>1. p[i] \in Batches
    BY <1>5, ElementOfSeq
  <2>2. p[i].index \in Nat \ {0} /\ p[i].cell \in Cells
    BY <2>1 DEF Batches
  <2> QED BY <1>1, <1>9, <2>2, ChunkIs
<1>13. Filled(p, skip)
  <2> SUFFICES ASSUME NEW i \in 1..Len(p)
               PROVE  /\ Len(p[i].queries) \in 1..BatchSize
                      /\ \A j \in 1..Len(p[i].queries) : <<p[i].cell, p[i].queries[j]>> \notin skip
    BY DEF Filled
  <2>1. /\ p[i].queries \in Seq(Queries) /\ Len(p[i].queries) \in 0..BatchSize
        /\ \A j \in 1..Len(p[i].queries) : <<p[i].cell, p[i].queries[j]>> \notin skip
    BY <1>12 DEF ChunkHolds
  <2>2. Len(p[i].queries) # 0
    BY <1>6, <2>1, EmptySeq
  <2> QED BY <2>1, <2>2, RunAssumption
<1>14. ASSUME NEW c \in Cells, NEW q \in Queries, <<c, q>> \notin skip
       PROVE  Ahead(p, c, q)
  <2> DEFINE rest == Remaining(c, skip)
  <2>1. /\ Len(rest) <= Len(QueryOrder) /\ Len(rest) \in Nat
        /\ \E n \in 1..Len(rest) : rest[n] = q
    BY <1>14, RemainingIs, LenProperties
  <2> HIDE DEF rest
  <2>2. PICK n \in 1..Len(rest) : rest[n] = q
    BY <2>1
  <2> DEFINE index == ((n - 1) \div BatchSize) + 1
  <2>3. index \in 1..Len(QueryOrder) /\ index - 1 = (n - 1) \div BatchSize
    <3>1. n - 1 \in Nat /\ BatchSize \in Nat \ {0} /\ Len(QueryOrder) \in Nat
      BY <2>1, RunAssumption, LenProperties
    <3>2. (n - 1) \div BatchSize \in Nat /\ (n - 1) \div BatchSize <= n - 1
      BY <3>1
    <3> QED BY <2>1, <3>1, <3>2
  <2> HIDE DEF index
  <2>4. PICK k \in 1..size : grid[k] = BatchOf(c, index, skip)
    BY <1>2, <2>3
  <2>5. grid[k].cell = c /\ grid[k].queries = Chunk(c, index, skip)
    BY <2>4 DEF BatchOf
  <2>6. ChunkHolds(c, index, skip)
    BY <2>3, ChunkIs
  <2>7. PICK j \in 1..Len(Chunk(c, index, skip)) : Chunk(c, index, skip)[j] = q
    BY <2>2, <2>3, <2>6 DEF ChunkHolds, rest
  <2>8. grid[k] \in T
    <3>1. Len(Chunk(c, index, skip)) \in Nat /\ Len(Chunk(c, index, skip)) # 0
      BY <2>6, <2>7 DEF ChunkHolds
    <3>2. Chunk(c, index, skip) # <<>>
      BY <3>1, EmptySeq
    <3> QED BY <1>7, <2>5, <3>2
  <2>9. PICK i \in 1..Len(p) : at[i] = k
    BY <1>8, <2>8 DEF PicksAt
  <2>10. p[i].cell = c /\ p[i].queries = Chunk(c, index, skip)
    BY <1>9, <2>5, <2>9
  <2> QED BY <2>7, <2>10 DEF Ahead
<1> QED BY <1>3, <1>5, <1>11, <1>13, <1>14
----------------------------------------------------------------------------
(* What each step writes.                                                  *)

\* The files e are the files d with more rows in the newest, which may have
\* been filed elsewhere.
Grown(d, e, more) ==
  /\ IsFiles(e) /\ Len(e) = Len(d)
  /\ \A f \in 1..(Len(d) - 1) : e[f] = d[f]
  /\ RowsOf(e) = RowsOf(d) \o more
  /\ e[Len(d)].place \in {d[Len(d)].place, "runs", "stopped", "gone"}

LEMMA NewestGrown ==
  ASSUME NEW d, IsFiles(d), NEW file, DOMAIN file = {"rows", "place"}, NEW more, IsSeq(more),
         file.rows = RowsOf(d) \o more,
         file.place \in {d[Len(d)].place, "runs", "stopped", "gone"}
  PROVE  Grown(d, [d EXCEPT ![Len(d)] = file], more)
<1> DEFINE S == Range(d) \cup {file}
           e == [d EXCEPT ![Len(d)] = file]
<1>1. d \in Seq(S) /\ file \in S
  BY SeqMonotonic DEF IsFiles, IsSeq
<1>2. Len(d) \in Nat /\ Len(d) \in 1..Len(d)
  BY <1>1, EmptySeq DEF IsFiles
<1>3. /\ Len(e) = Len(d) /\ e[Len(d)] = file
      /\ \A f \in 1..(Len(d) - 1) : e[f] = d[f]
  <2>1. \A f \in 1..Len(d) : e[f] = IF f = Len(d) THEN file ELSE d[f]
    BY <1>1, <1>2, ExceptSeq
  <2>2. Len(e) = Len(d)
    BY <1>1, <1>2, ExceptSeq
  <2> HIDE DEF e
  <2>3. \A f \in 1..(Len(d) - 1) : f \in 1..Len(d) /\ f # Len(d)
    BY <1>2
  <2> QED BY <1>2, <2>1, <2>2, <2>3
<1>4. IsSeq(file.rows)
  BY Concatenation DEF IsFiles
<1>5. IsFiles(e) /\ RowsOf(e) = file.rows
  BY <1>4, NewestChanged
<1> HIDE DEF e
<1>6. Grown(d, e, more)
  BY <1>3, <1>5 DEF Grown
<1> QED BY <1>6 DEF e

LEMMA RowsGrown ==
  ASSUME NEW d, IsFiles(d), NEW more, IsSeq(more)
  PROVE  Grown(d, [d EXCEPT ![Len(d)].rows = @ \o more], more)
<1> DEFINE file == [d[Len(d)] EXCEPT !.rows = RowsOf(d) \o more]
<1>1. DOMAIN file = {"rows", "place"} /\ file.rows = RowsOf(d) \o more /\ file.place = d[Len(d)].place
  BY DEF IsFiles
<1>2. [d EXCEPT ![Len(d)].rows = @ \o more] = [d EXCEPT ![Len(d)] = file]
  BY DEF RowsOf
<1> HIDE DEF file
<1> QED BY <1>1, <1>2, NewestGrown

LEMMA OneGrown ==
  ASSUME IsFiles(disk), NEW row
  PROVE  Grown(disk, Written(row), <<row>>)
<1>1. Append(RowsOf(disk), row) = RowsOf(disk) \o <<row>> /\ IsSeq(<<row>>)
  BY AppendOne, Singleton DEF IsFiles
<1>2. Written(row) = [disk EXCEPT ![Len(disk)].rows = @ \o <<row>>]
  BY <1>1 DEF Written, RowsOf
<1> QED BY <1>1, <1>2, RowsGrown

LEMMA NoneGrown ==
  ASSUME NEW d, IsFiles(d)
  PROVE  Grown(d, d, <<>>)
<1>1. RowsOf(d) \o <<>> = RowsOf(d)
  BY ConcatEmptySeq DEF IsFiles, IsSeq
<1> QED BY <1>1 DEF Grown

\* The disposal changes no row of the files it is given.
LEMMA OverGrown ==
  ASSUME IsFiles(disk), NEW how, NEW rows, NEW more, IsSeq(more), Grown(disk, rows, more),
         Over(how, rows)
  PROVE  Grown(disk, disk', more)
<1>1. CASE how # "operator"
  BY <1>1 DEF Over
<1>2. CASE how = "operator"
  <2>1. PICK place \in {"gone", "stopped", "runs"} : disk' = [rows EXCEPT ![Len(rows)].place = place]
    BY <1>2 DEF Over
  <2> DEFINE file == [rows[Len(rows)] EXCEPT !.place = place]
             e == [rows EXCEPT ![Len(rows)] = file]
  <2>2. IsFiles(rows) /\ Len(rows) = Len(disk) /\ IsSeq(<<>>)
    BY EmptySeq DEF Grown, IsSeq
  <2>3. /\ DOMAIN file = {"rows", "place"} /\ file.place = place
        /\ file.rows = RowsOf(rows) \o <<>>
    <3>1. RowsOf(rows) \o <<>> = RowsOf(rows)
      BY <2>2, ConcatEmptySeq DEF IsFiles, IsSeq
    <3> QED BY <2>2, <3>1 DEF IsFiles, RowsOf
  <2>4. disk' = e
    BY <2>1
  <2> HIDE DEF file
  <2>5. Grown(rows, e, <<>>)
    BY <2>2, <2>3, NewestGrown
  <2> HIDE DEF e
  <2>6. /\ IsFiles(e) /\ Len(e) = Len(disk)
        /\ \A f \in 1..(Len(disk) - 1) : e[f] = disk[f]
        /\ RowsOf(e) = RowsOf(disk) \o more
    <3>1. RowsOf(e) = RowsOf(rows)
      BY <2>2, <2>5, ConcatEmptySeq DEF Grown, IsFiles, IsSeq
    <3> QED BY <2>2, <2>5, <3>1 DEF Grown
  <2>7. e[Len(disk)].place \in {"runs", "stopped", "gone"}
    <3>1. e = [rows EXCEPT ![Len(rows)] = file] /\ file.place = place /\ IsSeq(rows) /\ rows # <<>>
      BY <2>2, <2>3 DEF e, IsFiles
    <3>2. Len(rows) \in DOMAIN rows
      BY <3>1, EmptySeq, LenProperties DEF IsSeq
    <3>3. e[Len(rows)] = file
      BY <3>1, <3>2
    <3> QED BY <2>1, <2>2, <3>1, <3>3
  <2> QED BY <2>4, <2>6, <2>7 DEF Grown
<1> QED BY <1>1, <1>2

Failed == [kind |-> "session_failed", cell |-> Cell]
Skipped == [kind |-> "identity_skipped", cell |-> Cell]
Attempt(o) == [kind |-> "attempt", cell |-> Cell, batch |-> Batch.index,
               query |-> Batch.queries[pos + 1], outcome |-> o,
               timed |-> speed.reading # NotMeasured]
Closed == [kind |-> "session_closed", cell |-> Cell,
           batch |-> Batch.index, class |-> ClassOf(breakers[Cell])]
Stop == [kind |-> "cell_stopped", cell |-> Cell, why |-> EndSession(breakers[Cell]).reason]

\* The step that writes the rows `more`.
Writes(more) ==
  \/ Unwritten /\ more = <<>>
  \/ (StopAtHead \/ (Unwound /\ raised = "operator")) /\ more = <<StopRow("operator")>>
  \/ SkipIdentity /\ more = <<Skipped>>
  \/ (SessionDies \/ JudgeStopRaises \/ CloseRaises) /\ more = <<Failed>>
  \/ JudgeTransport /\ more = <<StopRow("transport")>>
  \/ WentDirect /\ more = <<DirectStop>>
  \/ WentDirectCloseRaises /\ more = <<DirectStop, Failed>>
  \/ CloseSession /\ Tripped(EndSession(breakers[Cell])) /\ more = <<Closed, Stop>>
  \/ CloseSession /\ ~Tripped(EndSession(breakers[Cell])) /\ more = <<Closed>>
  \/ \E o \in Sees : Fetch(o) /\ more = <<Attempt(o)>>

LEMMA TwoRows ==
  ASSUME NEW x, NEW y
  PROVE  <<x>> \o <<y>> = <<x, y>> /\ IsSeq(<<x, y>>)
<1> DEFINE S == {x, y}
           two == <<x>> \o <<y>>
<1>1. <<x, y>> \in Seq(S) /\ Len(<<x, y>>) = 2 /\ <<x, y>>[1] = x /\ <<x, y>>[2] = y
  OBVIOUS
<1>2. <<x>> \in Seq(S) /\ <<y>> \in Seq(S) /\ Len(<<x>>) = 1 /\ Len(<<y>>) = 1
      /\ <<x>>[1] = x /\ <<y>>[1] = y
  OBVIOUS
<1>3. two \in Seq(S) /\ Len(two) = 2 /\ two[1] = x /\ two[2] = y
  BY <1>2, ConcatProperties
<1> HIDE DEF two, S
<1>4. two = <<x, y>>
  <2>1. \A i \in 1..2 : two[i] = <<x, y>>[i]
    <3>1. \A i \in 1..2 : i = 1 \/ i = 2
      OBVIOUS
    <3> QED BY <1>1, <1>3, <3>1
  <2> QED BY <1>1, <1>3, <2>1, SeqEqual
<1>5. IsSeq(<<x, y>>)
  BY <1>1, SeqOfRange DEF IsSeq
<1> QED BY <1>4, <1>5 DEF two

LEMMA EveryStepWrites ==
  ASSUME FileInv, Next, ~StartFresh, ~StartResumed
  PROVE  /\ pc # "idle" /\ IsFiles(disk)
         /\ \E more : IsSeq(more) /\ Writes(more) /\ Grown(disk, disk', more)
<1>1. pc # "idle"
  BY BegunStep
<1>2. IsFiles(disk) /\ IsSeq(<<>>)
  BY <1>1, BegunHasFile, EmptySeq DEF IsSeq
<1>3. \A row : IsSeq(<<row>>) /\ Grown(disk, Written(row), <<row>>)
  BY <1>2, OneGrown, Singleton
<1>4. CASE Unwritten
  <2>1. disk' = disk
    BY <1>4, UnwrittenRows
  <2>2. Grown(disk, disk, <<>>)
    BY <1>2, NoneGrown
  <2>3. Grown(disk, disk', <<>>)
    BY <2>1, <2>2
  <2>4. Writes(<<>>)
    BY <1>4 DEF Writes
  <2> QED BY <1>1, <1>2, <2>3, <2>4
<1>5. CASE StopAtHead \/ (Unwound /\ raised = "operator")
  <2>1. Over("operator", Written(StopRow("operator")))
    BY <1>5 DEF StopAtHead, Unwound
  <2>2. IsSeq(<<StopRow("operator")>>)
        /\ Grown(disk, Written(StopRow("operator")), <<StopRow("operator")>>)
    BY <1>3
  <2>3. Grown(disk, disk', <<StopRow("operator")>>)
    BY <1>2, <2>1, <2>2, OverGrown
  <2> QED BY <1>1, <1>2, <1>5, <2>2, <2>3 DEF Writes
<1>6. CASE SkipIdentity
  <2>1. disk' = Written(Skipped)
    BY <1>6 DEF SkipIdentity, NextBatch, Skipped
  <2> QED BY <1>1, <1>2, <1>3, <1>6, <2>1 DEF Writes
<1>7. CASE SessionDies \/ JudgeStopRaises \/ CloseRaises
  <2>1. disk' = Written(Failed)
    BY <1>7 DEF SessionDies, JudgeStopRaises, CloseRaises, SessionFailed, Failed
  <2> QED BY <1>1, <1>2, <1>3, <1>7, <2>1 DEF Writes
<1>8. CASE JudgeTransport
  <2>1. disk' = Written(StopRow("transport"))
    BY <1>8 DEF JudgeTransport
  <2> QED BY <1>1, <1>2, <1>3, <1>8, <2>1 DEF Writes
<1>9. CASE WentDirect
  <2>1. disk' = Written(DirectStop)
    BY <1>9 DEF WentDirect, NextBatch
  <2> QED BY <1>1, <1>2, <1>3, <1>9, <2>1 DEF Writes
<1>10. CASE WentDirectCloseRaises
  <2>1. disk' = [disk EXCEPT ![Len(disk)].rows = @ \o <<DirectStop, Failed>>]
    BY <1>10 DEF WentDirectCloseRaises, Failed
  <2>2. IsSeq(<<DirectStop, Failed>>)
    BY TwoRows
  <2>3. Grown(disk, disk', <<DirectStop, Failed>>)
    BY <1>2, <2>1, <2>2, RowsGrown
  <2> QED BY <1>1, <1>2, <1>10, <2>2, <2>3 DEF Writes
<1>11. CASE CloseSession
  <2> DEFINE tripped == Tripped(EndSession(breakers[Cell]))
  <2>1. disk' = [disk EXCEPT ![Len(disk)].rows =
                   @ \o (<<Closed>> \o (IF tripped THEN <<Stop>> ELSE <<>>))]
    BY <1>11 DEF CloseSession, NextBatch, Closed, Stop
  <2>2. CASE tripped
    <3>1. disk' = [disk EXCEPT ![Len(disk)].rows = @ \o <<Closed, Stop>>]
          /\ IsSeq(<<Closed, Stop>>)
      BY <2>1, <2>2, TwoRows
    <3>2. Grown(disk, disk', <<Closed, Stop>>)
      BY <1>2, <3>1, RowsGrown
    <3> QED BY <1>1, <1>2, <1>11, <2>2, <3>1, <3>2 DEF Writes
  <2>3. CASE ~tripped
    <3>1. <<Closed>> \o <<>> = <<Closed>> /\ IsSeq(<<Closed>>)
      BY <1>3, ConcatEmptySeq DEF IsSeq
    <3>2. Grown(disk, disk', <<Closed>>)
      BY <1>2, <2>1, <2>3, <3>1, RowsGrown
    <3> QED BY <1>1, <1>2, <1>11, <2>3, <3>1, <3>2 DEF Writes
  <2> QED BY <2>2, <2>3
<1>12. ASSUME NEW o \in Sees, Fetch(o)
       PROVE  \E more : IsSeq(more) /\ Writes(more) /\ Grown(disk, disk', more)
  <2>1. disk' = Written(Attempt(o))
    BY <1>12 DEF Fetch, Attempt
  <2>2. Writes(<<Attempt(o)>>)
    BY <1>12 DEF Writes
  <2> QED BY <1>3, <2>1, <2>2
<1> QED
  BY <1>1, <1>2, <1>4, <1>5, <1>6, <1>7, <1>8, <1>9, <1>10, <1>11, <1>12
  DEF Next, RunnerStep, Unwritten

\* The rows of a file with more rows: the old ones, and the new ones after them.
LEMMA RowsOfGrown ==
  ASSUME FileInv, pc # "idle", NEW more, IsSeq(more), Grown(disk, disk', more)
  PROVE  /\ IsSeq(Rows) /\ IsSeq(Rows') /\ Rows' = Rows \o more
         /\ Len(Rows) \in Nat /\ Len(more) \in Nat /\ Len(Rows') = Len(Rows) + Len(more)
         /\ DOMAIN Rows = 1..Len(Rows) /\ DOMAIN more = 1..Len(more)
         /\ DOMAIN Rows' = 1..(Len(Rows) + Len(more))
         /\ \A i \in DOMAIN Rows : i \in DOMAIN Rows' /\ Rows'[i] = Rows[i]
         /\ \A k \in DOMAIN more : Len(Rows) + k \in DOMAIN Rows' /\ Rows'[Len(Rows) + k] = more[k]
         /\ \A i \in DOMAIN Rows' : i \in DOMAIN Rows \/ \E k \in DOMAIN more : i = Len(Rows) + k
<1>1. Rows = RowsOf(disk) /\ Rows' = RowsOf(disk') /\ IsSeq(Rows)
  BY BegunHasFile DEF RowsOf, Rows, Last
<1>2. Rows' = Rows \o more
  BY <1>1 DEF Grown
<1>3. /\ IsSeq(Rows \o more)
      /\ Len(Rows) \in Nat /\ Len(more) \in Nat
      /\ Len(Rows \o more) = Len(Rows) + Len(more)
      /\ DOMAIN Rows = 1..Len(Rows) /\ DOMAIN more = 1..Len(more)
      /\ DOMAIN (Rows \o more) = 1..(Len(Rows) + Len(more))
      /\ \A i \in 1..Len(Rows) : (Rows \o more)[i] = Rows[i]
      /\ \A i \in 1..Len(more) : (Rows \o more)[Len(Rows) + i] = more[i]
  BY <1>1, Concatenation
<1>4. /\ \A i \in DOMAIN Rows : i \in DOMAIN Rows' /\ Rows'[i] = Rows[i]
      /\ \A k \in DOMAIN more : Len(Rows) + k \in DOMAIN Rows' /\ Rows'[Len(Rows) + k] = more[k]
  BY <1>2, <1>3
<1>5. ASSUME NEW i \in DOMAIN Rows', i \notin DOMAIN Rows
      PROVE  \E k \in DOMAIN more : i = Len(Rows) + k
  <2>1. i \in 1..(Len(Rows) + Len(more)) /\ i \notin 1..Len(Rows)
    BY <1>2, <1>3, <1>5
  <2>2. i - Len(Rows) \in 1..Len(more) /\ i = Len(Rows) + (i - Len(Rows))
    BY <1>3, <2>1
  <2> QED BY <1>3, <2>2
<1> QED BY <1>1, <1>2, <1>3, <1>4, <1>5

\* Only a fetch writes an attempt, and that is the last row.
LEMMA AttemptsOfGrown ==
  ASSUME FileInv, pc # "idle", NEW more, IsSeq(more), Grown(disk, disk', more), Writes(more)
  PROVE  \/ AttemptRows(Rows') = AttemptRows(Rows)
         \/ \E o \in Sees : /\ Fetch(o) /\ Len(Rows') = Len(Rows) + 1
                            /\ Rows'[Len(Rows')] = Attempt(o)
                            /\ AttemptRows(Rows') = AttemptRows(Rows) \cup {Len(Rows')}
<1>1. /\ Len(Rows) \in Nat /\ Len(Rows') = Len(Rows) + Len(more)
      /\ DOMAIN Rows = 1..Len(Rows)
      /\ \A i \in DOMAIN Rows : i \in DOMAIN Rows' /\ Rows'[i] = Rows[i]
      /\ \A k \in DOMAIN more : Len(Rows) + k \in DOMAIN Rows' /\ Rows'[Len(Rows) + k] = more[k]
      /\ \A i \in DOMAIN Rows' : i \in DOMAIN Rows \/ \E k \in DOMAIN more : i = Len(Rows) + k
  BY RowsOfGrown
<1>2. CASE \A k \in DOMAIN more : more[k].kind # "attempt"
  <2>1. ASSUME NEW i \in DOMAIN Rows', Rows'[i].kind = "attempt" PROVE i \in DOMAIN Rows
    BY <1>1, <1>2, <2>1
  <2>2. \A i \in DOMAIN Rows : i \in DOMAIN Rows' /\ Rows'[i].kind = Rows[i].kind
    BY <1>1
  <2>3. AttemptRows(Rows') = AttemptRows(Rows)
    BY <2>1, <2>2 DEF AttemptRows
  <2> QED BY <2>3
<1>3. ASSUME NEW o \in Sees, Fetch(o), more = <<Attempt(o)>>
      PROVE  /\ Len(Rows') = Len(Rows) + 1 /\ Rows'[Len(Rows')] = Attempt(o)
             /\ AttemptRows(Rows') = AttemptRows(Rows) \cup {Len(Rows')}
  <2> DEFINE row == Attempt(o)
  <2>1. row.kind = "attempt"
    BY DEF Attempt
  <2> HIDE DEF row
  <2>2. more = <<row>>
    BY <1>3 DEF row
  <2>3. DOMAIN more = {1} /\ Len(more) = 1 /\ more[1] = row
    BY <2>2
  <2>4. Len(Rows') = Len(Rows) + 1 /\ Rows'[Len(Rows')] = row
    BY <1>1, <2>3
  <2>5. \A i \in DOMAIN Rows' : i \in DOMAIN Rows \/ i = Len(Rows')
    BY <1>1, <2>3, <2>4
  <2>6. Len(Rows') \in DOMAIN Rows' /\ \A i \in DOMAIN Rows : i \in DOMAIN Rows' /\ Rows'[i] = Rows[i]
    BY <1>1, <2>3, <2>4
  <2>7. AttemptRows(Rows') = AttemptRows(Rows) \cup {Len(Rows')}
    BY <2>1, <2>4, <2>5, <2>6 DEF AttemptRows
  <2> QED BY <2>4, <2>7 DEF row
<1>4. (\A k \in DOMAIN more : more[k].kind # "attempt")
      \/ \E o \in Sees : Fetch(o) /\ more = <<Attempt(o)>>
  <2>1. \A x : x.kind # "attempt" => \A k \in DOMAIN <<x>> : <<x>>[k].kind # "attempt"
    OBVIOUS
  <2>2. \A x, y : x.kind # "attempt" /\ y.kind # "attempt" =>
          \A k \in DOMAIN <<x, y>> : <<x, y>>[k].kind # "attempt"
    OBVIOUS
  <2>3. /\ StopRow("operator").kind # "attempt" /\ StopRow("transport").kind # "attempt"
        /\ Skipped.kind # "attempt" /\ Failed.kind # "attempt" /\ DirectStop.kind # "attempt"
        /\ Closed.kind # "attempt" /\ Stop.kind # "attempt"
    BY DEF StopRow, Skipped, Failed, DirectStop, Closed, Stop
  <2>4. DOMAIN <<>> = {}
    OBVIOUS
  <2> QED BY <2>1, <2>2, <2>3, <2>4 DEF Writes
<1> QED BY <1>2, <1>3, <1>4
----------------------------------------------------------------------------
(* The second part of the invariant: what the files hold, and what is left *)
(* of the plan.                                                            *)

RowOK(row) ==
  /\ row.kind \in Kinds
  /\ row.kind = "attempt" => /\ row.cell \in Cells /\ row.query \in Queries
                             /\ row.outcome \in Outcomes /\ row.batch \in Nat
FileOK(file) ==
  /\ file.place \in {"runs", "stopped", "gone"}
  /\ IsSeq(file.rows)
  /\ \A i \in DOMAIN file.rows : RowOK(file.rows[i])
FilesInv ==
  /\ Len(disk) <= MaxRuns
  /\ \A f \in DOMAIN disk : FileOK(disk[f])

\* What is skipped was answered in one earlier file; no batch holds any of it.
\* An open session has a batch, and is at a place in it.
Open == {"identify", "session", "judge", "unwinding", "closing"}
PlanInv ==
  /\ plan \in Seq(Batches) /\ InOrder(plan) /\ Filled(plan, done)
  /\ done \subseteq Cells \X Queries
  /\ pc # "idle" => done \in {{}} \cup {Answered(f) : f \in Earlier}
  /\ pos \in 0..BatchSize
  /\ pc \in Open => plan # <<>>
  /\ pc = "identify" => pos = 0
  /\ pc \in {"identify", "session", "judge"} => pos <= Len(Batch.queries)
  /\ pc = "over" /\ ending = "finished" => plan = <<>>

\* Attempts were of batches before those ahead, but for the one in hand, and
\* of nothing that is skipped.
Session(i) == <<Rows[i].cell, Rows[i].batch>>
AskedInv ==
  pc # "idle" =>
    /\ \A i \in AttemptRows(Rows) : <<Rows[i].cell, Rows[i].query>> \notin done
    /\ \A i \in AttemptRows(Rows), k \in DOMAIN plan :
         /\ Rows[i].batch <= plan[k].index
         /\ Session(i) = <<plan[k].cell, plan[k].index>> => k = 1 /\ pc \notin {"head", "identify"}
    /\ \A i, j \in AttemptRows(Rows) : i < j => Rows[i].batch <= Rows[j].batch

\* Every question is skipped, asked, explained by a row of its cell, or still
\* to be asked; or its cell is stopped and its session is being closed.
Explained(c) ==
  \E kind \in {"cell_stopped", "session_failed", "identity_skipped"} : OfCell(Rows, kind, c) # {}
Left(c, q) ==
  \E i \in 1..Len(plan) :
    /\ plan[i].cell = c
    /\ i = 1 => pc # "closing"
    /\ \E j \in 1..Len(plan[i].queries) :
         /\ plan[i].queries[j] = q
         /\ i = 1 /\ pc \in {"session", "judge"} => j > pos
MissingInv ==
  pc # "idle" /\ (pc = "over" => ending = "finished") =>
    \A c \in Cells, q \in Queries :
      \/ <<c, q>> \in done
      \/ \E i \in Sent(c) : Rows[i].query = q
      \/ Explained(c)
      \/ Left(c, q)
      \/ pc = "closing" /\ c = Cell /\ Tripped(breakers[c])
----------------------------------------------------------------------------
(* The batch in hand.                                                      *)

LEMMA HeadOfPlan ==
  ASSUME NEW p \in Seq(Batches), p # <<>>
  PROVE  /\ Head(p) = p[1] /\ Len(p) \in Nat \ {0} /\ 1 \in 1..Len(p) /\ DOMAIN p = 1..Len(p)
         /\ p[1].cell \in Cells /\ p[1].index \in Nat \ {0} /\ p[1].queries \in Seq(Queries)
         /\ Len(p[1].queries) \in Nat
         /\ Tail(p) \in Seq(Batches) /\ Len(Tail(p)) = Len(p) - 1
         /\ DOMAIN Tail(p) = 1..(Len(p) - 1)
         /\ \A i \in 1..(Len(p) - 1) : Tail(p)[i] = p[i + 1] /\ i + 1 \in 1..Len(p)
<1>1. Len(p) \in Nat \ {0} /\ DOMAIN p = 1..Len(p)
  BY EmptySeq, LenProperties
<1>2. 1 \in 1..Len(p) /\ p[1] \in Batches
  BY <1>1, ElementOfSeq
<1>3. p[1].cell \in Cells /\ p[1].index \in Nat \ {0} /\ p[1].queries \in Seq(Queries)
  BY <1>2 DEF Batches
<1>4. Tail(p) \in Seq(Batches) /\ Len(Tail(p)) = Len(p) - 1
      /\ \A i \in 1..Len(Tail(p)) : Tail(p)[i] = p[i + 1]
  BY HeadTailProperties
<1>5. DOMAIN Tail(p) = 1..(Len(p) - 1) /\ Len(p[1].queries) \in Nat
  BY <1>3, <1>4, LenProperties
<1>6. \A i \in 1..(Len(p) - 1) : i + 1 \in 1..Len(p)
  BY <1>1
<1>7. Head(p) = p[1]
  OBVIOUS
<1> QED BY <1>1, <1>2, <1>3, <1>4, <1>5, <1>6, <1>7

LEMMA InHand ==
  ASSUME PlanInv, plan # <<>>
  PROVE  /\ Batch = plan[1] /\ Cell = plan[1].cell
         /\ Cell \in Cells /\ Batch.index \in Nat \ {0} /\ Batch.queries \in Seq(Queries)
         /\ Len(Batch.queries) \in 1..BatchSize
         /\ \A j \in 1..Len(Batch.queries) : <<Cell, Batch.queries[j]>> \notin done
<1>1. plan \in Seq(Batches) /\ Filled(plan, done)
  BY DEF PlanInv
<1>2. /\ Head(plan) = plan[1] /\ 1 \in 1..Len(plan)
      /\ plan[1].cell \in Cells /\ plan[1].index \in Nat \ {0} /\ plan[1].queries \in Seq(Queries)
  BY <1>1, HeadOfPlan
<1>3. /\ Len(plan[1].queries) \in 1..BatchSize
      /\ \A j \in 1..Len(plan[1].queries) : <<plan[1].cell, plan[1].queries[j]>> \notin done
  BY <1>1, <1>2 DEF Filled
<1> QED BY <1>2, <1>3 DEF Batch, Cell

\* The row of an attempt.
LEMMA AttemptIs ==
  ASSUME PlanInv, NEW o \in Sees, Fetch(o)
  PROVE  /\ Attempt(o).kind = "attempt" /\ Attempt(o).cell = Cell
         /\ Attempt(o).batch = Batch.index
         /\ Attempt(o).query = Batch.queries[pos + 1] /\ Attempt(o).outcome = o
         /\ pos + 1 \in 1..Len(Batch.queries) /\ Batch.queries[pos + 1] \in Queries
         /\ <<Cell, Batch.queries[pos + 1]>> \notin done
         /\ plan # <<>> /\ o \in Outcomes
<1>1. pc = "session" /\ pos < Len(Batch.queries) /\ plan # <<>> /\ pos \in 0..BatchSize
  BY DEF Fetch, PlanInv, Open
<1>2. Batch.queries \in Seq(Queries) /\ Len(Batch.queries) \in 1..BatchSize
      /\ \A j \in 1..Len(Batch.queries) : <<Cell, Batch.queries[j]>> \notin done
  BY <1>1, InHand
<1>3. pos + 1 \in 1..Len(Batch.queries)
  BY <1>1, <1>2, RunAssumption
<1>4. Batch.queries[pos + 1] \in Queries
  BY <1>2, <1>3, ElementOfSeq
<1> QED BY <1>1, <1>2, <1>3, <1>4, RunAssumption DEF Attempt
----------------------------------------------------------------------------
(* What each step does to the plan, and where it leaves the process.       *)

\* The batch in hand is done with.
Passes == /\ plan # <<>> /\ plan' = Tail(plan) /\ pos' = pos
          /\ pc \in {"head", "identify", "closing"} /\ pc' = "head"
\* The next one is taken up.
Takes == plan # <<>> /\ plan' = plan /\ pos' = 0 /\ pc = "head" /\ pc' = "identify"
\* One of its queries is asked.
Asks == /\ pc = "session" /\ pos < Len(Batch.queries)
        /\ plan' = plan /\ pos' = pos + 1 /\ pc' = "judge"
\* Nothing of the plan changes.
Stays ==
  /\ plan' = plan /\ pos' = pos /\ pc # "idle"
  /\ \/ pc' = pc /\ ending' = ending
     \/ pc' = "over" /\ pc # "over" /\ (ending' = "finished" => pc = "head" /\ plan = <<>>)
     \/ pc = "identify" /\ pc' = "session"
     \/ pc = "judge" /\ pc' = "session"
     \/ pc \in {"session", "judge"} /\ pc' = "unwinding"
     \/ pc \in Open \ {"closing"} /\ pc' = "closing"
Moves == Passes \/ Takes \/ Asks \/ Stays

LEMMA EveryStepMoves ==
  ASSUME VerdictInv, PlanInv, Next, ~StartFresh, ~StartResumed
  PROVE  done' = done /\ Moves
<1>1. CASE Finish \/ StopAtHead \/ StopRaisesAtHead \/ Killed
  BY <1>1 DEF Finish, StopAtHead, StopRaisesAtHead, Killed, Over, Moves, Stays
<1>2. CASE SkipTripped \/ SkipIdentity \/ WentDirect \/ CloseSession
  <2>1. plan # <<>>
    BY <1>2 DEF SkipTripped, SkipIdentity, WentDirect, CloseSession, PlanInv, Open
  <2> QED BY <1>2, <2>1 DEF SkipTripped, SkipIdentity, WentDirect, CloseSession, NextBatch,
                            Moves, Passes
<1>3. CASE TakeBatch
  BY <1>3 DEF TakeBatch, Moves, Takes
<1>4. CASE \E o \in Sees : Fetch(o)
  BY <1>4 DEF Fetch, Moves, Asks
<1>5. CASE Launch \/ EngineUnavailable \/ WentDirectCloseRaises \/ SessionDies
  BY <1>5 DEF Launch, EngineUnavailable, WentDirectCloseRaises, SessionDies, Moves, Stays, Open
<1>6. CASE JudgeTransport \/ JudgeStop \/ JudgeStopRaises \/ JudgeRecord \/ BatchDone
  BY <1>6 DEF JudgeTransport, JudgeStop, JudgeStopRaises, JudgeRecord, BatchDone, Moves, Stays, Open
<1>7. CASE Unwound
  <2>1. ending' # "finished"
    BY <1>7 DEF Unwound, Over, VerdictInv
  <2> QED BY <1>7, <2>1 DEF Unwound, Over, Moves, Stays
<1>8. CASE CloseRaises
  BY <1>8 DEF CloseRaises, Moves, Stays, Open
<1>9. CASE CtrlC
  BY <1>9 DEF CtrlC, Over, Moves, Stays
<1>10. CASE \E answer \in Answerable \cup Raising : RequestStop(answer)
  BY <1>10 DEF RequestStop, Moves, Stays
<1> QED
  BY <1>1, <1>2, <1>3, <1>4, <1>5, <1>6, <1>7, <1>8, <1>9, <1>10 DEF Next, RunnerStep
----------------------------------------------------------------------------
(* The second part of the invariant, step by step.                         *)

LEMMA OtherRowsOK ==
  \A row : row.kind \in Kinds \ {"attempt"} => RowOK(row)
BY DEF RowOK

LEMMA WrittenOK ==
  ASSUME PlanInv, NEW more, Writes(more)
  PROVE  \A k \in DOMAIN more : RowOK(more[k])
<1>1. \A x : RowOK(x) => \A k \in DOMAIN <<x>> : RowOK(<<x>>[k])
  OBVIOUS
<1>2. \A x, y : RowOK(x) /\ RowOK(y) => \A k \in DOMAIN <<x, y>> : RowOK(<<x, y>>[k])
  OBVIOUS
<1>3. DOMAIN <<>> = {}
  OBVIOUS
<1>4. /\ RowOK(StopRow("operator")) /\ RowOK(StopRow("transport"))
      /\ RowOK(Skipped) /\ RowOK(Failed) /\ RowOK(DirectStop) /\ RowOK(Closed) /\ RowOK(Stop)
  BY OtherRowsOK DEF StopRow, Skipped, Failed, DirectStop, Closed, Stop, Kinds
<1>5. ASSUME NEW o \in Sees, Fetch(o) PROVE RowOK(Attempt(o))
  <2>1. /\ Attempt(o).kind = "attempt" /\ Attempt(o).cell = Cell
        /\ Attempt(o).batch = Batch.index /\ Attempt(o).query \in Queries
        /\ Attempt(o).outcome \in Outcomes /\ plan # <<>>
    BY <1>5, AttemptIs
  <2>2. Cell \in Cells /\ Batch.index \in Nat
    BY <2>1, InHand
  <2> QED BY <2>1, <2>2 DEF RowOK, Kinds
<1> QED BY <1>1, <1>2, <1>3, <1>4, <1>5 DEF Writes

LEMMA FilesStep ==
  ASSUME FileInv, PlanInv, FilesInv, [Next]_vars
  PROVE  FilesInv'
<1>0. disk \in Seq(Range(disk)) /\ Len(disk) \in Nat /\ DOMAIN disk = 1..Len(disk)
  BY LenProperties DEF FileInv, IsSeq
<1>1. CASE StartFresh \/ StartResumed
  <2>1. PICK skip : Start(skip)
    BY <1>1 DEF StartFresh, StartResumed
  <2> DEFINE file == [rows |-> <<>>, place |-> "runs"]
             S == Range(disk) \cup {file}
  <2>2. disk' = Append(disk, file) /\ Len(disk) < MaxRuns
    BY <2>1 DEF Start
  <2>3. disk \in Seq(S) /\ file \in S
    BY <1>0, SeqMonotonic
  <2>4. FileOK(file)
    <3>1. IsSeq(<<>>) /\ DOMAIN <<>> = {}
      BY EmptySeq DEF IsSeq
    <3> QED BY <3>1 DEF FileOK
  <2> HIDE DEF file, S
  <2>5. /\ disk' \in Seq(S) /\ Len(disk') = Len(disk) + 1
        /\ \A f \in 1..Len(disk) : disk'[f] = disk[f]
        /\ disk'[Len(disk) + 1] = file
    BY <2>2, <2>3, AppendProperties
  <2>6. DOMAIN disk' = 1..(Len(disk) + 1)
    BY <2>5, LenProperties
  <2>7. \A f \in DOMAIN disk' : f \in 1..Len(disk) \/ f = Len(disk) + 1
    BY <1>0, <2>6
  <2>8. \A f \in 1..Len(disk) : FileOK(disk[f])
    BY <1>0 DEF FilesInv
  <2>9. \A f \in DOMAIN disk' : FileOK(disk'[f])
    BY <2>4, <2>5, <2>7, <2>8
  <2>10. Len(disk') <= MaxRuns
    BY <1>0, <2>2, <2>5, RunAssumption
  <2> QED BY <2>9, <2>10 DEF FilesInv
<1>2. CASE Next /\ ~StartFresh /\ ~StartResumed
  <2>1. PICK more : IsSeq(more) /\ Writes(more) /\ Grown(disk, disk', more)
    BY <1>2, EveryStepWrites
  <2>2. pc # "idle" /\ IsFiles(disk)
    BY <1>2, EveryStepWrites
  <2>3. /\ IsSeq(Rows')
        /\ \A i \in DOMAIN Rows : i \in DOMAIN Rows' /\ Rows'[i] = Rows[i]
        /\ \A k \in DOMAIN more : Len(Rows) + k \in DOMAIN Rows' /\ Rows'[Len(Rows) + k] = more[k]
        /\ \A i \in DOMAIN Rows' : i \in DOMAIN Rows \/ \E k \in DOMAIN more : i = Len(Rows) + k
    BY <2>1, <2>2, RowsOfGrown
  <2>4. Len(disk) \in DOMAIN disk /\ Rows = disk[Len(disk)].rows /\ Rows' = disk'[Len(disk')].rows
    BY <1>0, <2>2, EmptySeq DEF IsFiles, Rows, Last
  <2>5. \A i \in DOMAIN Rows : RowOK(Rows[i])
    BY <2>4 DEF FilesInv, FileOK
  <2>6. \A i \in DOMAIN Rows' : RowOK(Rows'[i])
    BY <2>1, <2>3, <2>5, WrittenOK
  <2>7. /\ IsFiles(disk') /\ Len(disk') = Len(disk) /\ \A f \in 1..(Len(disk) - 1) : disk'[f] = disk[f]
        /\ disk'[Len(disk)].place \in {disk[Len(disk)].place, "runs", "stopped", "gone"}
    BY <2>1 DEF Grown
  <2>8. FileOK(disk'[Len(disk)])
    <3>1. disk[Len(disk)].place \in {"runs", "stopped", "gone"}
      BY <2>4 DEF FilesInv, FileOK
    <3> QED BY <2>3, <2>4, <2>6, <2>7, <3>1 DEF FileOK
  <2>9. DOMAIN disk' = 1..Len(disk)
    BY <2>7, LenProperties DEF IsFiles, IsSeq
  <2>10. \A f \in DOMAIN disk' : f = Len(disk) \/ f \in 1..(Len(disk) - 1)
    BY <1>0, <2>9
  <2>11. \A f \in 1..(Len(disk) - 1) : FileOK(disk[f])
    BY <1>0 DEF FilesInv
  <2> QED BY <2>7, <2>8, <2>10, <2>11 DEF FilesInv
<1>3. CASE UNCHANGED vars
  BY <1>3 DEF FilesInv, vars
<1> QED BY <1>1, <1>2, <1>3

\* What a resumed run skips is what one file of its past answers.
LEMMA CompletedIsAnswered ==
  ASSUME FilesInv, NEW f \in DOMAIN disk
  PROVE  /\ Completed(disk[f].rows) = Answered(f)
         /\ Completed(disk[f].rows) \subseteq Cells \X Queries
<1>1. \A i \in DOMAIN disk[f].rows : RowOK(disk[f].rows[i])
  BY DEF FilesInv, FileOK
<1>2. {j \in AttemptRows(disk[f].rows) : ~IsError(disk[f].rows[j].outcome)} =
        {j \in AttemptRows(disk[f].rows) : disk[f].rows[j].outcome \in {"ok", "refused"}}
  BY <1>1 DEF RowOK, AttemptRows, Outcomes, IsError
<1>3. Completed(disk[f].rows) = Answered(f)
  BY <1>2 DEF Completed, Answered
<1>4. \A i \in AttemptRows(disk[f].rows) :
        <<disk[f].rows[i].cell, disk[f].rows[i].query>> \in Cells \X Queries
  BY <1>1 DEF RowOK, AttemptRows
<1> QED BY <1>3, <1>4 DEF Answered

LEMMA PlanInit == Init => PlanInv
<1> SUFFICES ASSUME Init PROVE PlanInv
  OBVIOUS
<1>1. plan = <<>> /\ done = {} /\ pos = 0 /\ pc = "idle"
  BY DEF Init
<1>2. <<>> \in Seq(Batches) /\ Len(<<>>) = 0
  BY EmptySeq
<1>3. InOrder(<<>>) /\ Filled(<<>>, done)
  BY <1>2 DEF InOrder, Filled
<1> QED BY <1>1, <1>2, <1>3, RunAssumption DEF PlanInv, Open

\* The next batch is at the head of what is left.
LEMMA TailOfPlan ==
  ASSUME NEW p \in Seq(Batches), p # <<>>, NEW skip, InOrder(p), Filled(p, skip)
  PROVE  Tail(p) \in Seq(Batches) /\ InOrder(Tail(p)) /\ Filled(Tail(p), skip)
<1>1. /\ Tail(p) \in Seq(Batches) /\ Len(Tail(p)) = Len(p) - 1 /\ Len(p) \in Nat \ {0}
      /\ \A i \in 1..(Len(p) - 1) : Tail(p)[i] = p[i + 1] /\ i + 1 \in 1..Len(p)
  BY HeadOfPlan
<1>2. Filled(Tail(p), skip)
  BY <1>1 DEF Filled
<1>3. InOrder(Tail(p))
  <2> SUFFICES ASSUME NEW i \in 1..Len(Tail(p)), NEW j \in 1..Len(Tail(p)), i < j
               PROVE  /\ Tail(p)[i].index <= Tail(p)[j].index
                      /\ Tail(p)[i].cell = Tail(p)[j].cell => Tail(p)[i].index # Tail(p)[j].index
    BY DEF InOrder
  <2>1. Tail(p)[i] = p[i + 1] /\ Tail(p)[j] = p[j + 1] /\ i + 1 < j + 1
        /\ i + 1 \in 1..Len(p) /\ j + 1 \in 1..Len(p)
    BY <1>1
  <2> QED BY <2>1 DEF InOrder
<1> QED BY <1>1, <1>2, <1>3

\* What is skipped is of earlier files, which no step changes.
LEMMA AnsweredStays ==
  ASSUME FileInv, VerdictInv, PlanInv, Next, ~StartFresh, ~StartResumed
  PROVE  done' = done /\ Earlier' = Earlier /\ \A f \in Earlier : Answered(f)' = Answered(f)
<1>1. PICK more : Grown(disk, disk', more)
  BY EveryStepWrites
<1>2. Len(disk') = Len(disk) /\ \A f \in 1..(Len(disk) - 1) : disk'[f] = disk[f]
  BY <1>1 DEF Grown
<1>3. \A f \in Earlier : Answered(f)' = Answered(f)
  BY <1>2 DEF Earlier, Answered
<1>4. done' = done
  BY EveryStepMoves
<1> QED BY <1>2, <1>3, <1>4 DEF Earlier

LEMMA PlanStep ==
  ASSUME FileInv, VerdictInv, FilesInv, PlanInv, [Next]_vars
  PROVE  PlanInv'
<1>0. /\ plan \in Seq(Batches) /\ InOrder(plan) /\ Filled(plan, done)
      /\ done \subseteq Cells \X Queries /\ pos \in 0..BatchSize
      /\ BatchSize \in Nat \ {0}
  BY RunAssumption DEF PlanInv
<1>1. CASE StartFresh \/ StartResumed
  <2>1. PICK skip : /\ Start(skip) /\ skip \subseteq Cells \X Queries
                    /\ skip \in {{}} \cup {Answered(f) : f \in DOMAIN disk}
    <3>1. CASE StartFresh
      BY <3>1 DEF StartFresh
    <3>2. CASE StartResumed
      <4>1. PICK f \in Resumable : Start(Completed(disk[f].rows))
        BY <3>2 DEF StartResumed
      <4>2. f \in DOMAIN disk
        BY DEF Resumable
      <4> QED BY <4>1, <4>2, CompletedIsAnswered
    <3> QED BY <1>1, <3>1, <3>2
  <2>2. /\ done' = skip /\ plan' = PlanSkipping(skip) /\ pos' = 0 /\ pc' = "head"
        /\ disk' = Append(disk, [rows |-> <<>>, place |-> "runs"])
    BY <2>1 DEF Start
  <2>3. PlanSkipping(skip) \in Seq(Batches) /\ InOrder(PlanSkipping(skip))
        /\ Filled(PlanSkipping(skip), skip)
    BY PlanIs
  <2>4. skip \in {{}} \cup {Answered(f)' : f \in Earlier'}
    <3> DEFINE S == Range(disk) \cup {[rows |-> <<>>, place |-> "runs"]}
    <3>1. disk \in Seq(S) /\ [rows |-> <<>>, place |-> "runs"] \in S
      BY SeqMonotonic DEF FileInv, IsSeq
    <3> HIDE DEF S
    <3>2. Len(disk') = Len(disk) + 1 /\ \A f \in 1..Len(disk) : disk'[f] = disk[f]
      BY <2>2, <3>1, AppendProperties
    <3>3. Len(disk) \in Nat /\ DOMAIN disk = 1..Len(disk)
      BY <3>1, LenProperties
    <3>4. Earlier' = DOMAIN disk
      BY <3>2, <3>3 DEF Earlier
    <3>5. \A f \in DOMAIN disk : Answered(f)' = Answered(f)
      BY <3>2, <3>3 DEF Answered
    <3> QED BY <2>1, <3>4, <3>5
  <2> QED BY <1>0, <2>1, <2>2, <2>3, <2>4 DEF PlanInv, Open
<1>2. CASE Next /\ ~StartFresh /\ ~StartResumed
  <2>1. done' = done /\ Moves
    BY <1>2, EveryStepMoves
  <2>2. pc # "idle" /\ done \in {{}} \cup {Answered(f) : f \in Earlier}
    BY <1>2, BegunStep DEF PlanInv
  <2>3. done' \in {{}} \cup {Answered(f)' : f \in Earlier'}
    BY <1>2, <2>2, AnsweredStays
  <2>4. CASE Passes
    <3>1. Tail(plan) \in Seq(Batches) /\ InOrder(Tail(plan)) /\ Filled(Tail(plan), done)
      BY <1>0, <2>4, TailOfPlan DEF Passes
    <3> QED BY <1>0, <2>1, <2>3, <2>4, <3>1 DEF Passes, PlanInv, Open
  <2>5. CASE Takes
    <3>1. Batch' = Batch /\ Len(Batch.queries) \in 1..BatchSize
      BY <2>5, InHand DEF Takes, Batch
    <3> QED BY <1>0, <2>1, <2>3, <2>5, <3>1 DEF Takes, PlanInv, Open
  <2>6. CASE Asks
    <3>1. Batch' = Batch /\ pc = "session" /\ plan # <<>> /\ Len(Batch.queries) \in 1..BatchSize
      BY <2>6, InHand DEF Asks, Batch, PlanInv, Open
    <3> QED BY <1>0, <2>1, <2>3, <2>6, <3>1 DEF Asks, PlanInv, Open
  <2>7. CASE Stays
    <3>1. Batch' = Batch
      BY <2>7 DEF Stays, Batch
    <3> QED BY <1>0, <2>1, <2>2, <2>3, <2>7, <3>1 DEF Stays, PlanInv, Open
  <2> QED BY <2>1, <2>4, <2>5, <2>6, <2>7 DEF Moves
<1>3. CASE UNCHANGED vars
  <2>1. \A f \in Earlier : Answered(f)' = Answered(f) /\ Earlier' = Earlier
    BY <1>3 DEF vars, Answered, Earlier
  <2>2. pc' = pc /\ plan' = plan /\ pos' = pos /\ done' = done /\ Batch' = Batch
        /\ ending' = ending /\ disk' = disk
    BY <1>3 DEF vars, Batch
  <2>3. {Answered(f)' : f \in Earlier'} = {Answered(f) : f \in Earlier}
    BY <2>2 DEF Answered, Earlier
  <2> QED BY <2>2, <2>3 DEF PlanInv
<1> QED BY <1>1, <1>2, <1>3
----------------------------------------------------------------------------
(* Attempts and what is left of the plan.                                  *)

LEMMA AskedStep ==
  ASSUME FileInv, VerdictInv, FilesInv, PlanInv, AskedInv, [Next]_vars
  PROVE  AskedInv'
<1>1. CASE StartFresh \/ StartResumed
  <2>1. PICK skip : Start(skip)
    BY <1>1 DEF StartFresh, StartResumed
  <2>2. Rows' = <<>>
    BY <2>1, StartRows
  <2>3. AttemptRows(Rows') = {}
    BY <2>2 DEF AttemptRows
  <2> QED BY <2>3 DEF AskedInv
<1>2. CASE Next /\ ~StartFresh /\ ~StartResumed
  <2>1. PICK more : IsSeq(more) /\ Writes(more) /\ Grown(disk, disk', more)
    BY <1>2, EveryStepWrites
  <2>2. pc # "idle" /\ done' = done /\ Moves
    BY <1>2, EveryStepWrites, EveryStepMoves
  <2>3. /\ DOMAIN Rows = 1..Len(Rows) /\ Len(Rows) \in Nat
        /\ \A i \in DOMAIN Rows : i \in DOMAIN Rows' /\ Rows'[i] = Rows[i]
    BY <2>1, <2>2, RowsOfGrown
  <2>4. \A i \in AttemptRows(Rows) : i \in DOMAIN Rows /\ Rows'[i] = Rows[i] /\ Session(i)' = Session(i)
    BY <2>3 DEF AttemptRows, Session
  <2>5. /\ \A i \in AttemptRows(Rows) : <<Rows[i].cell, Rows[i].query>> \notin done
        /\ \A i \in AttemptRows(Rows), k \in DOMAIN plan :
             /\ Rows[i].batch <= plan[k].index
             /\ Session(i) = <<plan[k].cell, plan[k].index>> => k = 1 /\ pc \notin {"head", "identify"}
        /\ \A i, j \in AttemptRows(Rows) : i < j => Rows[i].batch <= Rows[j].batch
    BY <2>2 DEF AskedInv
  <2>6. plan \in Seq(Batches) /\ InOrder(plan)
    BY DEF PlanInv
  <2>7. ASSUME AttemptRows(Rows') = AttemptRows(Rows)
        PROVE  AskedInv'
    <3>1. /\ \A i \in AttemptRows(Rows') : <<Rows'[i].cell, Rows'[i].query>> \notin done'
          /\ \A i, j \in AttemptRows(Rows') : i < j => Rows'[i].batch <= Rows'[j].batch
      BY <2>2, <2>4, <2>5, <2>7
    <3>2. ASSUME NEW i \in AttemptRows(Rows'), NEW k \in DOMAIN plan'
          PROVE  /\ Rows'[i].batch <= plan'[k].index
                 /\ Session(i)' = <<plan'[k].cell, plan'[k].index>> =>
                      k = 1 /\ pc' \notin {"head", "identify"}
      <4>0. i \in AttemptRows(Rows) /\ Rows'[i] = Rows[i] /\ Session(i)' = Session(i)
        BY <2>4, <2>7, <3>2
      <4>1. CASE Passes
        <5>1. /\ DOMAIN plan' = 1..(Len(plan) - 1) /\ Len(plan) \in Nat /\ DOMAIN plan = 1..Len(plan)
              /\ \A j \in 1..(Len(plan) - 1) : plan'[j] = plan[j + 1] /\ j + 1 \in 1..Len(plan)
          BY <2>6, <4>1, HeadOfPlan DEF Passes
        <5>2. k + 1 \in DOMAIN plan /\ plan'[k] = plan[k + 1] /\ k + 1 # 1
          BY <3>2, <5>1
        <5> QED BY <2>5, <4>0, <5>2
      <4>2. CASE Takes \/ Asks \/ Stays
        <5>1. plan' = plan /\ (pc' \in {"head", "identify"} => pc \in {"head", "identify"})
          BY <4>2 DEF Takes, Asks, Stays
        <5> QED BY <2>5, <3>2, <4>0, <5>1
      <4> QED BY <2>2, <4>1, <4>2 DEF Moves
    <3> QED BY <3>1, <3>2 DEF AskedInv
  <2>8. ASSUME NEW o \in Sees, Fetch(o), Len(Rows') = Len(Rows) + 1, Rows'[Len(Rows')] = Attempt(o),
               AttemptRows(Rows') = AttemptRows(Rows) \cup {Len(Rows')}
        PROVE  AskedInv'
    <3> DEFINE n == Len(Rows')
    <3>1. /\ Rows'[n].cell = Cell /\ Rows'[n].batch = Batch.index
          /\ <<Rows'[n].cell, Rows'[n].query>> \notin done /\ plan # <<>>
      BY <2>8, AttemptIs
    <3>2. /\ 1 \in DOMAIN plan /\ DOMAIN plan = 1..Len(plan) /\ Cell = plan[1].cell
          /\ Batch.index = plan[1].index /\ plan[1].index \in Nat
      BY <2>6, <3>1, HeadOfPlan, InHand
    <3>3. plan' = plan /\ pc' = "judge"
      BY <2>8 DEF Fetch
    <3>4. n = Len(Rows) + 1 /\ \A i \in AttemptRows(Rows) : i < n
      <4>1. AttemptRows(Rows) \subseteq DOMAIN Rows
        BY DEF AttemptRows
      <4> QED BY <2>3, <2>8, <4>1
    <3> HIDE DEF n
    <3>5. ASSUME NEW i \in AttemptRows(Rows')
          PROVE  <<Rows'[i].cell, Rows'[i].query>> \notin done'
      BY <2>2, <2>4, <2>5, <2>8, <3>1, <3>5 DEF n
    <3>6. ASSUME NEW k \in DOMAIN plan
          PROVE  /\ plan[1].index <= plan[k].index
                 /\ <<plan[1].cell, plan[1].index>> = <<plan[k].cell, plan[k].index>> => k = 1
      BY <2>6, <3>2 DEF InOrder
    <3>7. ASSUME NEW i \in AttemptRows(Rows'), NEW k \in DOMAIN plan'
          PROVE  /\ Rows'[i].batch <= plan'[k].index
                 /\ Session(i)' = <<plan'[k].cell, plan'[k].index>> =>
                      k = 1 /\ pc' \notin {"head", "identify"}
      <4>1. CASE i = n
        BY <3>1, <3>2, <3>3, <3>6, <3>7, <4>1 DEF Session
      <4>2. CASE i \in AttemptRows(Rows)
        BY <2>4, <2>5, <3>3, <3>7, <4>2
      <4> QED BY <2>8, <3>7, <4>1, <4>2 DEF n
    <3>8. ASSUME NEW i \in AttemptRows(Rows'), NEW j \in AttemptRows(Rows'), i < j
          PROVE  Rows'[i].batch <= Rows'[j].batch
      <4>1. CASE j \in AttemptRows(Rows)
        <5>1. i \in AttemptRows(Rows)
          <6>1. j < n /\ j \in Nat
            BY <2>3, <3>4, <4>1 DEF AttemptRows
          <6>2. i # n
            BY <2>3, <3>4, <3>8, <6>1
          <6> QED BY <2>8, <6>2 DEF n
        <5> QED BY <2>4, <2>5, <3>8, <4>1, <5>1
      <4>2. CASE j = n
        <5>1. i \in AttemptRows(Rows)
          BY <2>3, <2>8, <3>4, <3>8, <4>2 DEF n
        <5> QED BY <2>4, <2>5, <3>1, <3>2, <4>2, <5>1
      <4> QED BY <2>8, <4>1, <4>2 DEF n
    <3> QED BY <3>5, <3>7, <3>8 DEF AskedInv
  <2> QED BY <2>1, <2>2, <2>7, <2>8, AttemptsOfGrown
<1>3. CASE UNCHANGED vars
  BY <1>3 DEF AskedInv, vars, Rows, Session
<1> QED BY <1>1, <1>2, <1>3

\* A row that explains a cell's missing questions goes on to explain them.
LEMMA RowExplains ==
  ASSUME FileInv, pc # "idle", NEW more, IsSeq(more), Grown(disk, disk', more), NEW c
  PROVE  /\ \A kind : OfCell(Rows, kind, c) \subseteq OfCell(Rows', kind, c)
         /\ Explained(c) => Explained(c)'
         /\ \A i \in Sent(c) : i \in Sent(c)' /\ Rows'[i] = Rows[i]
         /\ \A k \in DOMAIN more :
              /\ more[k].kind \in {"cell_stopped", "session_failed", "identity_skipped"}
              /\ more[k].cell = c
              => Explained(c)'
<1>1. /\ \A i \in DOMAIN Rows : i \in DOMAIN Rows' /\ Rows'[i] = Rows[i]
      /\ \A k \in DOMAIN more : Len(Rows) + k \in DOMAIN Rows' /\ Rows'[Len(Rows) + k] = more[k]
  BY RowsOfGrown
<1>2. \A kind : OfCell(Rows, kind, c) \subseteq OfCell(Rows', kind, c)
  BY <1>1 DEF OfCell
<1>3. \A i \in Sent(c) : i \in Sent(c)' /\ Rows'[i] = Rows[i]
  BY <1>1 DEF OfCell, Sent
<1>4. Explained(c) => Explained(c)'
  BY <1>2 DEF Explained
<1>5. ASSUME NEW k \in DOMAIN more, more[k].cell = c,
             more[k].kind \in {"cell_stopped", "session_failed", "identity_skipped"}
      PROVE  Explained(c)'
  <2>1. Len(Rows) + k \in OfCell(Rows', more[k].kind, c)
    BY <1>1, <1>5 DEF OfCell
  <2> QED BY <1>5, <2>1 DEF Explained
<1> QED BY <1>2, <1>3, <1>4, <1>5

\* What MissingInv says of one question.
Accounted(c, q) ==
  \/ <<c, q>> \in done
  \/ \E i \in Sent(c) : Rows[i].query = q
  \/ Explained(c)
  \/ Left(c, q)
  \/ pc = "closing" /\ c = Cell /\ Tripped(breakers[c])
LeftAt(c, q, i, j) ==
  /\ i \in 1..Len(plan) /\ plan[i].cell = c
  /\ i = 1 => pc # "closing"
  /\ j \in 1..Len(plan[i].queries) /\ plan[i].queries[j] = q
  /\ i = 1 /\ pc \in {"session", "judge"} => j > pos

LEMMA LeftIs ==
  ASSUME NEW c, NEW q
  PROVE  Left(c, q) <=> \E i, j : LeftAt(c, q, i, j)
BY DEF Left, LeftAt

\* A step that gives up on the batch in hand says so in a row of its cell.
LEMMA GivingUpExplains ==
  ASSUME FileInv, pc # "idle", NEW c, c = Cell
  PROVE  /\ SkipIdentity \/ WentDirect \/ WentDirectCloseRaises => Explained(c)'
         /\ SessionDies \/ JudgeStopRaises \/ CloseRaises => Explained(c)'
         /\ CloseSession /\ Tripped(EndSession(breakers[Cell])) => Explained(c)'
<1>0. IsFiles(disk)
  BY BegunHasFile
<1>1. \A row : IsSeq(<<row>>) /\ Grown(disk, Written(row), <<row>>)
  BY <1>0, OneGrown, Singleton
<1>2. \A x, y : /\ <<x>> \o <<y>> = <<x, y>> /\ IsSeq(<<x, y>>)
                /\ DOMAIN <<x, y>> = {1, 2} /\ <<x, y>>[1] = x /\ <<x, y>>[2] = y
  <2>1. \A x, y : <<x>> \o <<y>> = <<x, y>> /\ IsSeq(<<x, y>>)
    BY TwoRows
  <2>2. \A x, y : DOMAIN <<x, y>> = {1, 2} /\ <<x, y>>[1] = x /\ <<x, y>>[2] = y
    OBVIOUS
  <2> QED BY <2>1, <2>2
<1>3. ASSUME NEW more, IsSeq(more), Grown(disk, disk', more), NEW k \in DOMAIN more,
             more[k].kind \in {"cell_stopped", "session_failed", "identity_skipped"},
             more[k].cell = c
      PROVE  Explained(c)'
  BY <1>3, RowExplains
<1>4. ASSUME NEW row, disk' = Written(row), row.cell = c,
             row.kind \in {"cell_stopped", "session_failed", "identity_skipped"}
      PROVE  Explained(c)'
  <2>1. IsSeq(<<row>>) /\ Grown(disk, disk', <<row>>)
    BY <1>1, <1>4
  <2>2. DOMAIN <<row>> = {1} /\ <<row>>[1] = row
    OBVIOUS
  <2>3. 1 \in DOMAIN <<row>> /\ <<row>>[1].kind = row.kind /\ <<row>>[1].cell = c
    BY <1>4, <2>2
  <2> QED BY <1>3, <1>4, <2>1, <2>3
<1>5. /\ Skipped.kind = "identity_skipped" /\ Failed.kind = "session_failed"
      /\ DirectStop.kind = "cell_stopped" /\ Stop.kind = "cell_stopped"
      /\ Skipped.cell = c /\ Failed.cell = c /\ DirectStop.cell = c /\ Stop.cell = c
  BY DEF Skipped, Failed, DirectStop, Stop
<1>6. ASSUME SkipIdentity PROVE Explained(c)'
  <2>1. disk' = Written(Skipped)
    BY <1>6 DEF SkipIdentity, NextBatch, Skipped
  <2> QED BY <1>4, <1>5, <2>1
<1>7. ASSUME WentDirect PROVE Explained(c)'
  <2>1. disk' = Written(DirectStop)
    BY <1>7 DEF WentDirect, NextBatch
  <2> QED BY <1>4, <1>5, <2>1
<1>8. ASSUME SessionDies \/ JudgeStopRaises \/ CloseRaises PROVE Explained(c)'
  <2>1. disk' = Written(Failed)
    BY <1>8 DEF SessionDies, JudgeStopRaises, CloseRaises, SessionFailed, Failed
  <2> QED BY <1>4, <1>5, <2>1
<1>9. ASSUME WentDirectCloseRaises PROVE Explained(c)'
  <2>1. disk' = [disk EXCEPT ![Len(disk)].rows = @ \o <<DirectStop, Failed>>]
    BY <1>9 DEF WentDirectCloseRaises, Failed
  <2>2. IsSeq(<<DirectStop, Failed>>) /\ Grown(disk, disk', <<DirectStop, Failed>>)
    BY <1>0, <1>2, <2>1, RowsGrown
  <2>3. 1 \in DOMAIN <<DirectStop, Failed>> /\ <<DirectStop, Failed>>[1] = DirectStop
    BY <1>2
  <2>4. <<DirectStop, Failed>>[1].kind = "cell_stopped" /\ <<DirectStop, Failed>>[1].cell = c
    BY <1>5, <2>3
  <2> QED BY <1>3, <2>2, <2>3, <2>4
<1>10. ASSUME CloseSession, Tripped(EndSession(breakers[Cell])) PROVE Explained(c)'
  <2>1. disk' = [disk EXCEPT ![Len(disk)].rows = @ \o (<<Closed>> \o <<Stop>>)]
    BY <1>10 DEF CloseSession, NextBatch, Closed, Stop
  <2>2. IsSeq(<<Closed, Stop>>) /\ Grown(disk, disk', <<Closed, Stop>>)
    BY <1>0, <1>2, <2>1, RowsGrown
  <2>3. 2 \in DOMAIN <<Closed, Stop>> /\ <<Closed, Stop>>[2] = Stop
    BY <1>2
  <2>4. <<Closed, Stop>>[2].kind = "cell_stopped" /\ <<Closed, Stop>>[2].cell = c
    BY <1>5, <2>3
  <2> QED BY <1>3, <2>2, <2>3, <2>4
<1> QED BY <1>6, <1>7, <1>8, <1>9, <1>10

\* A question still to be asked stays so, unless its batch is passed over or it
\* is asked.
LEMMA LeftBehind ==
  ASSUME PlanInv, plan' = Tail(plan), pc' = "head", NEW c, NEW q,
         NEW i, NEW j, LeftAt(c, q, i, j), i # 1
  PROVE  Left(c, q)'
<1>1. plan \in Seq(Batches) /\ plan # <<>> /\ i \in 1..Len(plan)
  BY DEF PlanInv, LeftAt
<1>2. Len(plan') = Len(plan) - 1 /\ \A k \in 1..(Len(plan) - 1) : plan'[k] = plan[k + 1]
  BY <1>1, HeadOfPlan
<1>3. i - 1 \in 1..Len(plan') /\ plan'[i - 1] = plan[i]
  <2>1. Len(plan) \in Nat /\ i - 1 \in 1..(Len(plan) - 1) /\ (i - 1) + 1 = i
    BY <1>1
  <2> QED BY <1>2, <2>1
<1> QED BY <1>3 DEF Left, LeftAt

LEMMA LeftStays ==
  ASSUME plan' = plan, NEW c, NEW q, NEW i, NEW j, LeftAt(c, q, i, j),
         i = 1 => pc' # "closing",
         i = 1 /\ pc' \in {"session", "judge"} => j > pos'
  PROVE  Left(c, q)'
BY DEF Left, LeftAt

LEMMA MissingStep ==
  ASSUME IInv, PlanInv, MissingInv, [Next]_vars
  PROVE  MissingInv'
<1>1. CASE StartFresh \/ StartResumed
  <2>1. PICK skip : Start(skip)
    BY <1>1 DEF StartFresh, StartResumed
  <2>2. plan' = PlanSkipping(skip) /\ pc' = "head" /\ done' = skip
    BY <2>1 DEF Start
  <2>3. \A c \in Cells, q \in Queries : <<c, q>> \notin skip => Ahead(PlanSkipping(skip), c, q)
    BY PlanIs
  <2>4. ASSUME NEW c \in Cells, NEW q \in Queries, <<c, q>> \notin skip
        PROVE  Left(c, q)'
    BY <2>2, <2>3, <2>4 DEF Ahead, Left
  <2> QED BY <2>2, <2>4 DEF MissingInv
<1>2. CASE Next /\ ~StartFresh /\ ~StartResumed
  <2>0. /\ FileInv /\ VerdictInv /\ BreakerInv /\ StopsInv
    BY DEF IInv
  <2>1. PICK more : IsSeq(more) /\ Writes(more) /\ Grown(disk, disk', more)
    BY <1>2, <2>0, EveryStepWrites
  <2>2. pc # "idle" /\ done' = done /\ Moves
    BY <1>2, <2>0, EveryStepWrites, EveryStepMoves, SMTT(60)
  <2>3. pc # "over"
    BY <1>2 DEF Next, RunnerStep, Finish, SkipTripped, StopAtHead, StopRaisesAtHead, TakeBatch,
       SkipIdentity, Launch, EngineUnavailable, WentDirect, WentDirectCloseRaises, SessionDies, Fetch,
       JudgeTransport, JudgeStop, JudgeStopRaises, JudgeRecord, BatchDone, CloseSession, Unwound,
       CloseRaises, CtrlC, Killed, RequestStop
  <2> SUFFICES ASSUME pc' = "over" => ending' = "finished",
                      NEW c \in Cells, NEW q \in Queries
               PROVE  Accounted(c, q)'
    BY DEF MissingInv, Accounted
  <2>4. Accounted(c, q)
    BY <2>2, <2>3 DEF MissingInv, Accounted
  <2>5. CASE <<c, q>> \in done \/ (\E i \in Sent(c) : Rows[i].query = q) \/ Explained(c)
    <3>1. /\ Explained(c) => Explained(c)'
          /\ \A i \in Sent(c) : i \in Sent(c)' /\ Rows'[i] = Rows[i]
      BY <2>0, <2>1, <2>2, RowExplains
    <3> QED BY <2>2, <2>5, <3>1 DEF Accounted
  <2>6. CASE pc = "closing" /\ c = Cell /\ Tripped(breakers[c])
    <3>1. CASE CloseSession
      <4>1. breakers[c] \in SessionBreakers /\ Ordered(breakers[c])
        BY <2>0 DEF BreakerInv, Ordered
      <4>2. Tripped(EndSession(breakers[c]))
        BY <2>6, <4>1, EndSessionMethod
      <4> QED BY <2>0, <2>2, <2>6, <3>1, <4>2, GivingUpExplains DEF Accounted
    <3>2. CASE CtrlC \/ Killed
      BY <2>6, <3>2 DEF CtrlC, Killed, Over
    <3>3. CASE \E answer \in Answerable \cup Raising : RequestStop(answer)
      <4>1. pc' = pc /\ Cell' = Cell /\ breakers' = breakers
        BY <3>3 DEF RequestStop, Cell, Batch
      <4> QED BY <2>6, <4>1 DEF Accounted
    <3> QED
      BY <1>2, <2>6, <3>1, <3>2, <3>3
      DEF Next, RunnerStep, Finish, SkipTripped, StopAtHead, StopRaisesAtHead, TakeBatch,
       SkipIdentity, Launch, EngineUnavailable, WentDirect, WentDirectCloseRaises, SessionDies, Fetch,
       JudgeTransport, JudgeStop, JudgeStopRaises, JudgeRecord, BatchDone, Unwound, CloseRaises
  <2>7. CASE Left(c, q)
    <3>1. PICK i, j : LeftAt(c, q, i, j)
      BY <2>7, LeftIs
    <3>2. plan # <<>> /\ i \in 1..Len(plan) /\ plan \in Seq(Batches)
      BY <3>1 DEF LeftAt, PlanInv
    <3>3. i = 1 => /\ c = Cell /\ pc # "closing" /\ q = Batch.queries[j]
                   /\ j \in 1..Len(Batch.queries)
                   /\ pc \in {"session", "judge"} => j > pos
      BY <3>1, <3>2, InHand DEF LeftAt
    <3>4. CASE Passes
      <4>1. CASE i # 1
        BY <3>1, <3>4, <4>1, LeftBehind DEF Passes, Accounted
      <4>2. CASE i = 1
        <5>1. CASE SkipTripped
          <6>1. OfCell(Rows, "cell_stopped", c) # {}
            BY <2>0, <2>2, <3>3, <4>2, <5>1 DEF SkipTripped, StopsInv, Stops
          <6>2. Explained(c)
            BY <6>1 DEF Explained
          <6>3. Explained(c)'
            BY <2>0, <2>1, <2>2, <6>2, RowExplains
          <6> QED BY <6>3 DEF Accounted
        <5>2. CASE SkipIdentity \/ WentDirect
          BY <2>0, <2>2, <3>3, <4>2, <5>2, GivingUpExplains, SMTT(60) DEF Accounted
        <5>3. SkipTripped \/ SkipIdentity \/ WentDirect \/ CloseSession
          <6>1. plan' = Tail(plan) /\ plan # plan'
            <7>1. Len(Tail(plan)) # Len(plan)
              BY <3>2, HeadOfPlan
            <7> QED BY <3>4, <7>1 DEF Passes
          <6> QED
            BY <1>2, <6>1
            DEF Next, RunnerStep, Finish, StopAtHead, StopRaisesAtHead, TakeBatch, Launch,
             EngineUnavailable, WentDirectCloseRaises, SessionDies, Fetch,
             JudgeTransport, JudgeStop, JudgeStopRaises, JudgeRecord, BatchDone, Unwound,
             CloseRaises, CtrlC, Killed, RequestStop
        <5>4. ~CloseSession
          BY <3>3, <4>2 DEF CloseSession
        <5> QED BY <5>1, <5>2, <5>3, <5>4
      <4> QED BY <4>1, <4>2
    <3>5. CASE Takes
      BY <3>1, <3>5, LeftStays DEF Takes, Accounted
    <3>6. CASE Asks
      <4>1. plan' = plan /\ pos' = pos + 1 /\ pc' = "judge" /\ pc = "session"
        BY <3>6 DEF Asks
      <4>2. CASE i = 1 /\ j = pos + 1
        <5>1. PICK o \in Sees : Fetch(o)
          BY <1>2, <4>1
          DEF Next, RunnerStep, Finish, SkipTripped, StopAtHead, StopRaisesAtHead, TakeBatch,
           SkipIdentity, Launch, EngineUnavailable, WentDirect, WentDirectCloseRaises, SessionDies,
           JudgeTransport, JudgeStop, JudgeStopRaises, JudgeRecord, BatchDone, CloseSession,
           Unwound, CloseRaises, CtrlC, Killed, RequestStop, Over, NextBatch
        <5>2. /\ Attempt(o).kind = "attempt" /\ Attempt(o).cell = c /\ Attempt(o).query = q
          BY <2>0, <3>3, <4>2, <5>1, AttemptIs
        <5>3. \E k \in Sent(c)' : Rows'[k].query = q
          <6>1. IsFiles(disk) /\ disk' = Written(Attempt(o)) /\ Attempt(o).kind = "attempt"
            BY <2>0, <2>2, <5>1, <5>2, BegunHasFile DEF Fetch, Attempt
          <6> DEFINE row == Attempt(o)
                     one == <<row>>
          <6>2. IsSeq(one) /\ Grown(disk, disk', one) /\ DOMAIN one = {1} /\ one[1] = row
            BY <6>1, OneGrown, Singleton
          <6> HIDE DEF one
          <6>3. Len(Rows) + 1 \in DOMAIN Rows' /\ Rows'[Len(Rows) + 1] = row
            BY <2>0, <2>2, <6>2, RowsOfGrown
          <6>4. row.kind = "attempt" /\ row.cell = c /\ row.query = q
            BY <5>2
          <6> HIDE DEF row
          <6>5. Len(Rows) + 1 \in Sent(c)'
            BY <6>3, <6>4 DEF Sent, OfCell
          <6> QED BY <6>3, <6>4, <6>5
        <5> QED BY <5>3 DEF Accounted
      <4>3. CASE ~(i = 1 /\ j = pos + 1)
        <5>1. i = 1 => j > pos'
          <6>1. j \in Int /\ pos \in Int
            BY <3>1 DEF LeftAt, PlanInv
          <6> QED BY <3>3, <4>1, <4>3, <6>1
        <5> QED BY <3>1, <4>1, <5>1, LeftStays DEF Accounted
      <4> QED BY <4>2, <4>3
    <3>7. CASE Stays
      <4>0. plan' = plan /\ pos' = pos
        BY <3>7 DEF Stays
      <4>1. CASE pc' = pc \/ (pc = "judge" /\ pc' = "session")
                 \/ (pc \in {"session", "judge"} /\ pc' = "unwinding")
        BY <3>1, <3>3, <4>0, <4>1, LeftStays DEF Accounted
      <4>2. CASE pc' = "over" /\ pc # "over" /\ (ending' = "finished" => pc = "head" /\ plan = <<>>)
        BY <3>2, <4>2
      <4>3. CASE pc = "identify" /\ pc' = "session"
        <5>1. j \in 1..Len(plan[i].queries) /\ pos = 0
          BY <3>1, <4>3 DEF LeftAt, PlanInv
        <5> QED BY <3>1, <3>3, <4>0, <4>3, <5>1, LeftStays DEF Accounted
      <4>4. CASE pc \in Open \ {"closing"} /\ pc' = "closing"
        <5>1. CASE i # 1
          BY <3>1, <4>0, <5>1, LeftStays DEF Accounted
        <5>2. CASE i = 1
          <6>1. CASE EngineUnavailable
            <7>1. Cell' = Cell /\ pc' = "closing"
                  /\ breakers'[Cell] = Trip(breakers[Cell], "engine_unavailable")
              BY <2>0, <3>3, <5>2, <6>1 DEF EngineUnavailable, Cell, Batch, BreakerInv
            <7>2. Tripped(Trip(breakers[Cell], "engine_unavailable"))
              <8>1. breakers[Cell] \in SessionBreakers /\ Ordered(breakers[Cell])
                BY <2>0, <3>3, <5>2 DEF BreakerInv, Ordered
              <8>2. "engine_unavailable" \in SessionReasons \ {Running}
                BY DEF SessionReasons, Running
              <8> QED BY <8>1, <8>2, TripMethod
            <7> QED BY <3>3, <5>2, <7>1, <7>2 DEF Accounted
          <6>2. CASE WentDirectCloseRaises \/ SessionDies \/ JudgeStopRaises \/ CloseRaises
            BY <2>0, <2>2, <3>3, <5>2, <6>2, GivingUpExplains DEF Accounted
          <6>3. ~BatchDone
            BY <3>3, <5>2 DEF BatchDone
          <6> QED
            BY <1>2, <4>4, <6>1, <6>2, <6>3
            DEF Open, Next, RunnerStep, Finish, SkipTripped, StopAtHead, StopRaisesAtHead, TakeBatch,
             SkipIdentity, Launch, WentDirect, Fetch, NextBatch,
             JudgeTransport, JudgeStop, JudgeRecord, CloseSession,
             Unwound, CtrlC, Killed, RequestStop, Over
        <5> QED BY <5>1, <5>2
      <4> QED BY <3>7, <4>1, <4>2, <4>3, <4>4 DEF Stays
    <3> QED BY <2>2, <3>4, <3>5, <3>6, <3>7 DEF Moves
  <2> QED BY <2>4, <2>5, <2>6, <2>7 DEF Accounted
<1>3. CASE UNCHANGED vars
  <2>1. /\ disk' = disk /\ pc' = pc /\ ending' = ending /\ done' = done /\ plan' = plan
        /\ pos' = pos /\ breakers' = breakers /\ Cell' = Cell /\ Rows' = Rows
    BY <1>3 DEF vars, Rows, Cell, Batch
  <2>2. ASSUME NEW c, NEW q PROVE Accounted(c, q)' <=> Accounted(c, q)
    BY <2>1 DEF Accounted, Explained, Left, Sent
  <2> QED BY <2>1, <2>2 DEF MissingInv, Accounted
<1> QED BY <1>1, <1>2, <1>3
----------------------------------------------------------------------------
(* The variables with a few values each.                                   *)

TypesInv ==
  /\ printed \in [Cells -> {"absent", "unmeasured", "rate"}]
  /\ stopfile \in {"absent"} \cup Answerable \cup Raising
  /\ pc \in {"idle", "head", "identify", "session", "judge", "unwinding", "closing", "over"}
  /\ ending \in {"none", "finished", "transport", "operator", "ctrl_c", "killed", "crashed"}
  /\ swallowed \in BOOLEAN
  /\ pc = "unwinding" => raised # "nothing"

LEMMA SummaryType == Summary \in [Cells -> {"absent", "unmeasured", "rate"}]
BY DEF Summary

LEMMA TypesInit == Init => TypesInv
BY DEF Init, TypesInv

LEMMA TypesStep ==
  ASSUME TypesInv, VerdictInv, [Next]_vars
  PROVE  TypesInv'
<1> USE DEF TypesInv
<1>0. [c \in Cells |-> "absent"] \in [Cells -> {"absent", "unmeasured", "rate"}]
  OBVIOUS
<1>1. CASE StartFresh \/ StartResumed
  BY <1>0, <1>1 DEF StartFresh, StartResumed, Start
<1>2. CASE Finish \/ StopAtHead \/ Unwound \/ CtrlC
  BY <1>2, SummaryType DEF Finish, StopAtHead, Unwound, CtrlC, Over, VerdictInv, history
<1>3. CASE SkipTripped \/ StopRaisesAtHead \/ TakeBatch \/ SkipIdentity \/ Launch \/ EngineUnavailable
  BY <1>3 DEF SkipTripped, StopRaisesAtHead, TakeBatch, SkipIdentity, Launch, EngineUnavailable,
              NextBatch, history
<1>4. CASE WentDirect \/ WentDirectCloseRaises \/ SessionDies \/ \E o \in Sees : Fetch(o)
  BY <1>4 DEF WentDirect, WentDirectCloseRaises, SessionDies, Fetch, NextBatch, history
<1>5. CASE JudgeTransport \/ JudgeStop \/ JudgeStopRaises \/ JudgeRecord
  BY <1>5 DEF JudgeTransport, JudgeStop, JudgeStopRaises, JudgeRecord, history, Answerable
<1>6. CASE BatchDone \/ CloseSession \/ CloseRaises \/ Killed
  BY <1>6 DEF BatchDone, CloseSession, CloseRaises, Killed, NextBatch, history
<1>7. CASE \E answer \in Answerable \cup Raising : RequestStop(answer)
  BY <1>7 DEF RequestStop, history
<1>8. CASE UNCHANGED vars
  BY <1>8 DEF vars
<1> QED
  BY <1>1, <1>2, <1>3, <1>4, <1>5, <1>6, <1>7, <1>8 DEF Next, RunnerStep
----------------------------------------------------------------------------
(* What the watch holds is the end of what the file holds.                 *)

\* The watch holds the last attempts among the rows, as many as it can.
Holds(recent, rows) ==
  LET before == AttemptsAmong(rows)
      first  == Len(before) - Len(recent)
  IN  /\ Len(recent) = IF Len(before) < Window THEN Len(before) ELSE Window
      /\ \A i \in 1..Len(recent) : recent[i] = <<before[first + i].cell, before[first + i].outcome>>
BeforeLast(rows) == SubSeq(rows, 1, Len(rows) - 1)
WatchInv ==
  /\ watch.recent \in Seq(Cells \X Outcomes) /\ Len(watch.recent) <= Window
  /\ pc \in {"head", "identify", "session", "judge", "closing"} /\ ~swallowed =>
       /\ ~watch.tripped
       /\ Holds(watch.recent, IF pc = "judge" THEN BeforeLast(Rows) ELSE Rows)


\* One more row, at the end of the file.
LEMMA AttemptsAmongGrown ==
  ASSUME NEW rows, IsSeq(rows), NEW row
  PROVE  /\ IsSeq(AttemptsAmong(rows)) /\ Len(AttemptsAmong(rows)) \in Nat
         /\ AttemptsAmong(rows \o <<row>>) =
              IF row.kind = "attempt" THEN Append(AttemptsAmong(rows), row) ELSE AttemptsAmong(rows)
<1> DEFINE V == Range(rows) \cup {row}
           longer == rows \o <<row>>
           T == {rows[i] : i \in AttemptRows(rows)}
           U == {longer[i] : i \in AttemptRows(longer)}
<1>1. rows \in Seq(V)
  BY SeqMonotonic DEF IsSeq
<1>2. <<row>> \in Seq(V) /\ Len(<<row>>) = 1 /\ <<row>>[1] = row
  OBVIOUS
<1>3. /\ longer \in Seq(V) /\ Len(longer) = Len(rows) + 1
      /\ \A i \in 1..Len(rows) : rows[i] = longer[i]
      /\ longer[Len(longer)] = row
  <2>1. IsSeq(<<row>>)
    BY Singleton
  <2>2. /\ longer \in Seq(V) /\ Len(longer) = Len(rows) + 1
    BY <1>1, <1>2, ConcatProperties
  <2>3. \A i \in 1..Len(rows) : rows[i] = longer[i]
    BY <2>1, Concatenation
  <2>4. longer[Len(rows) + 1] = row
    BY <1>2, <2>1, Concatenation
  <2> QED BY <2>2, <2>3, <2>4
<1>4. /\ DOMAIN rows = 1..Len(rows) /\ Len(rows) \in Nat
      /\ DOMAIN longer = 1..(Len(rows) + 1)
  BY <1>1, <1>3, LenProperties
<1> HIDE DEF longer, V
<1>5. \A i \in 1..Len(rows) : rows[i] \in T <=> rows[i].kind = "attempt"
  BY <1>4 DEF AttemptRows
<1>6. \A i \in 1..(Len(rows) + 1) : longer[i] \in U <=> longer[i].kind = "attempt"
  BY <1>4 DEF AttemptRows
<1>7. \A i \in 1..Len(rows) : i \in 1..(Len(rows) + 1)
  BY <1>4
<1>8. \A i \in 1..Len(rows) : rows[i] \in T <=> rows[i] \in U
  BY <1>3, <1>5, <1>6, <1>7
<1>9. row \in U <=> row.kind = "attempt"
  BY <1>3, <1>4, <1>6
<1> HIDE DEF T, U
<1>10. /\ Kept(rows, T) \in Seq(V)
       /\ Kept(longer, U) = IF row \in U THEN Append(Kept(rows, T), row) ELSE Kept(rows, T)
  BY <1>1, <1>3, <1>8, KeptGrows
<1>11. AttemptsAmong(rows) = Kept(rows, T) /\ AttemptsAmong(longer) = Kept(longer, U)
  BY DEF AttemptsAmong, T, U
<1>12. IsSeq(Kept(rows, T)) /\ Len(Kept(rows, T)) \in Nat
  BY <1>10, SeqOfRange, LenProperties DEF IsSeq
<1> QED BY <1>9, <1>10, <1>11, <1>12 DEF longer

\* Several rows none of which is an attempt.
LEMMA NoneAmongGrown ==
  ASSUME NEW rows, IsSeq(rows), NEW x, NEW y, x.kind # "attempt", y.kind # "attempt"
  PROVE  /\ AttemptsAmong(rows \o <<x>>) = AttemptsAmong(rows)
         /\ AttemptsAmong(rows \o <<x, y>>) = AttemptsAmong(rows)
<1>1. AttemptsAmong(rows \o <<x>>) = AttemptsAmong(rows)
  BY AttemptsAmongGrown
<1>2. IsSeq(rows \o <<x>>)
  BY Singleton, Concatenation
<1>3. AttemptsAmong((rows \o <<x>>) \o <<y>>) = AttemptsAmong(rows)
  BY <1>1, <1>2, AttemptsAmongGrown
<1>4. (rows \o <<x>>) \o <<y>> = rows \o <<x, y>>
  <2> DEFINE V == Range(rows) \cup {x, y}
  <2>1. rows \in Seq(V) /\ <<x>> \in Seq(V) /\ <<y>> \in Seq(V)
    BY SeqMonotonic DEF IsSeq
  <2>2. (rows \o <<x>>) \o <<y>> = rows \o (<<x>> \o <<y>>)
    BY <2>1, ConcatAssociative
  <2> QED BY <2>2, TwoRows
<1> QED BY <1>1, <1>3, <1>4

LEMMA NoneAmongNone ==
  AttemptsAmong(<<>>) = <<>> /\ Holds(<<>>, <<>>)
<1>1. /\ <<>> \in Seq({}) /\ Len(<<>>) = 0
  BY EmptySeq
<1> DEFINE T == {<<>>[i] : i \in AttemptRows(<<>>)}
           kept == Kept(<<>>, T)
<1>2. kept \in Seq({}) /\ Picks(kept, <<>>, T, Len(<<>>))
  BY <1>1, KeptPicks
<1> HIDE DEF T
<1>3. Len(kept) <= 0 /\ Len(kept) \in Nat
  BY <1>1, <1>2, LenProperties DEF Picks
<1>4. kept = <<>>
  BY <1>2, <1>3, EmptySeq
<1>5. AttemptsAmong(<<>>) = <<>>
  BY <1>4 DEF AttemptsAmong, T
<1> QED BY <1>1, <1>5, WatchAssumption DEF Holds

\* TransportWatch.record: the deque goes on holding the last attempts.
LEMMA PushedHolds ==
  ASSUME NEW recent \in Seq(Cells \X Outcomes), NEW rows, IsSeq(rows),
         NEW row, row.kind = "attempt", row.cell \in Cells, row.outcome \in Outcomes,
         Len(recent) <= Window
  PROVE  LET pushed == Pushed(recent, <<row.cell, row.outcome>>)
         IN  /\ pushed \in Seq(Cells \X Outcomes) /\ Len(pushed) <= Window
             /\ Holds(recent, rows) => Holds(pushed, rows \o <<row>>)
<1> DEFINE e == <<row.cell, row.outcome>>
           longer == Append(recent, e)
           pushed == Pushed(recent, e)
           before == AttemptsAmong(rows)
           after  == Append(before, row)
           first  == Len(before) - Len(recent)
<1>1. /\ IsSeq(before) /\ Len(before) \in Nat
      /\ AttemptsAmong(rows \o <<row>>) = after
  BY AttemptsAmongGrown
<1>2. e \in Cells \X Outcomes
  OBVIOUS
<1>3. /\ longer \in Seq(Cells \X Outcomes) /\ Len(longer) = Len(recent) + 1 /\ longer # <<>>
      /\ \A i \in 1..Len(recent) : longer[i] = recent[i]
      /\ longer[Len(recent) + 1] = e /\ Len(recent) \in Nat
  <2>1. Len(recent) \in Nat
    BY LenProperties
  <2>2. \A d \in Cells \X Outcomes :
          LET l == Append(recent, d)
          IN  /\ l \in Seq(Cells \X Outcomes) /\ Len(l) = Len(recent) + 1 /\ l # <<>>
              /\ \A i \in 1..Len(recent) : l[i] = recent[i]
              /\ l[Len(recent) + 1] = d
    BY AppendProperties
  <2> QED BY <1>2, <2>1, <2>2
<1>4. /\ Len(after) = Len(before) + 1
      /\ \A i \in 1..Len(before) : after[i] = before[i]
      /\ after[Len(before) + 1] = row
  <2> DEFINE V == Range(before) \cup {row}
  <2>1. before \in Seq(V) /\ row \in V
    BY <1>1, SeqMonotonic DEF IsSeq
  <2> HIDE DEF V
  <2> QED BY <2>1, AppendProperties
<1>5. Window \in Nat \ {0}
  BY WatchAssumption
<1>6. pushed = IF Len(longer) > Window THEN Tail(longer) ELSE longer
  BY DEF Pushed
<1> HIDE DEF e, longer, before, after, pushed
<1>7. CASE Len(longer) > Window
  <2>1. /\ pushed \in Seq(Cells \X Outcomes) /\ Len(pushed) = Window /\ Len(recent) = Window
        /\ \A i \in 1..Window : pushed[i] = longer[i + 1]
    BY <1>3, <1>5, <1>6, <1>7, HeadTailProperties
  <2>2. ASSUME Holds(recent, rows) PROVE Holds(pushed, rows \o <<row>>)
    <3>1. /\ Len(recent) = IF Len(before) < Window THEN Len(before) ELSE Window
          /\ \A i \in 1..Len(recent) : recent[i] = <<before[first + i].cell, before[first + i].outcome>>
      BY <2>2 DEF Holds, before
    <3>2. Len(before) >= Window /\ first \in Nat
      BY <1>1, <1>5, <2>1, <3>1
    <3>3. ASSUME NEW i \in 1..Window
          PROVE  pushed[i] = <<after[Len(after) - Window + i].cell, after[Len(after) - Window + i].outcome>>
      <4>1. CASE i < Window
        <5>1. i + 1 \in 1..Len(recent) /\ first + (i + 1) \in 1..Len(before)
          BY <1>1, <1>5, <2>1, <3>2, <4>1
        <5>2. pushed[i] = <<before[first + (i + 1)].cell, before[first + (i + 1)].outcome>>
          BY <1>3, <2>1, <3>1, <5>1
        <5>3. Len(after) - Window + i = first + (i + 1)
          BY <1>1, <1>4, <1>5, <2>1
        <5> QED BY <1>4, <5>1, <5>2, <5>3
      <4>2. CASE i = Window
        <5>1. Len(after) - Window + i = Len(before) + 1 /\ pushed[i] = e
          BY <1>1, <1>3, <1>4, <1>5, <2>1, <4>2
        <5> QED BY <1>4, <5>1 DEF e
      <4> QED BY <1>5, <4>1, <4>2
    <3>4. Len(pushed) = IF Len(after) < Window THEN Len(after) ELSE Window
      BY <1>1, <1>4, <1>5, <2>1, <3>2
    <3> QED BY <1>1, <2>1, <3>3, <3>4 DEF Holds
  <2> QED BY <1>5, <2>1, <2>2 DEF pushed, e
<1>8. CASE ~(Len(longer) > Window)
  <2>1. /\ pushed = longer /\ Len(pushed) = Len(recent) + 1 /\ Len(recent) < Window
    BY <1>3, <1>5, <1>6, <1>8
  <2>2. ASSUME Holds(recent, rows) PROVE Holds(pushed, rows \o <<row>>)
    <3>1. /\ Len(recent) = IF Len(before) < Window THEN Len(before) ELSE Window
          /\ \A i \in 1..Len(recent) : recent[i] = <<before[first + i].cell, before[first + i].outcome>>
      BY <2>2 DEF Holds, before
    <3>2. Len(recent) = Len(before) /\ first = 0
      BY <1>1, <1>3, <1>5, <2>1, <3>1
    <3>3. ASSUME NEW i \in 1..Len(pushed)
          PROVE  pushed[i] = <<after[Len(after) - Len(pushed) + i].cell,
                               after[Len(after) - Len(pushed) + i].outcome>>
      <4>1. Len(after) - Len(pushed) + i = i
        BY <1>1, <1>4, <2>1, <3>2
      <4>2. CASE i \in 1..Len(recent)
        BY <1>3, <1>4, <2>1, <3>1, <3>2, <4>1, <4>2
      <4>3. CASE i = Len(recent) + 1
        BY <1>3, <1>4, <2>1, <3>2, <4>1, <4>3 DEF e
      <4> QED BY <1>3, <2>1, <4>2, <4>3
    <3>4. Len(pushed) = IF Len(after) < Window THEN Len(after) ELSE Window
      BY <1>1, <1>3, <1>4, <1>5, <2>1, <3>2
    <3> QED BY <1>1, <3>3, <3>4 DEF Holds
  <2> QED BY <1>3, <1>5, <2>1, <2>2 DEF pushed, e
<1> QED BY <1>7, <1>8

\* The evidence the watch had is in the attempts before its row.
Evidence(before) ==
  LET recent == SubSeq(before, Len(before) - Window + 1, Len(before))
      errors == {i \in DOMAIN recent : IsError(recent[i].outcome)}
  IN  /\ Len(before) >= Window
      /\ 100 * Cardinality(errors) >= SharePct * Window
      /\ Cardinality({recent[i].cell : i \in errors}) >= Spread
LEMMA TripIsEvidence ==
  ASSUME NEW recent \in Seq(Cells \X Outcomes), NEW rows, IsSeq(rows), Holds(recent, rows),
         Len(recent) = Window, 100 * ErrorCount(recent) >= SharePct * Window,
         Cardinality(ErrorCells(recent)) >= Spread
  PROVE  Evidence(AttemptsAmong(rows))
<1> DEFINE before == AttemptsAmong(rows)
           m == Len(before) - Window + 1
           last == SubSeq(before, m, Len(before))
<1>1. IsSeq(before) /\ Len(before) \in Nat
  BY AttemptsAmongGrown
<1> HIDE DEF before
<1>2. /\ Len(recent) = IF Len(before) < Window THEN Len(before) ELSE Window
      /\ \A i \in 1..Len(recent) : recent[i] = <<before[(Len(before) - Len(recent)) + i].cell,
                                                 before[(Len(before) - Len(recent)) + i].outcome>>
  BY DEF Holds, before
<1>3. Window \in Nat \ {0} /\ Len(before) >= Window
  BY <1>1, <1>2, WatchAssumption
<1>4. /\ last \in Seq(Range(before)) /\ Len(last) = Window
      /\ \A i \in 1..Window : last[i] = before[m + i - 1]
  <2>1. m \in 1..Len(before) /\ Len(before) - m + 1 = Window /\ m \in Int /\ Len(before) \in Int
    BY <1>1, <1>3
  <2>2. \A i \in m..Len(before) : before[i] \in Range(before)
    BY <1>1, <2>1, ElementOfSeq DEF IsSeq
  <2> HIDE DEF m
  <2>3. /\ SubSeq(before, m, Len(before)) \in Seq(Range(before))
        /\ Len(SubSeq(before, m, Len(before))) =
             IF m <= Len(before) THEN Len(before) - m + 1 ELSE 0
        /\ \A i \in 1..(Len(before) - m + 1) : SubSeq(before, m, Len(before))[i] = before[m + i - 1]
    BY <2>1, <2>2, SubSeqProperties
  <2>4. m <= Len(before) /\ 1..(Len(before) - m + 1) = 1..Window
    BY <2>1
  <2> QED BY <2>1, <2>3, <2>4
<1>5. DOMAIN last = 1..Window /\ DOMAIN recent = 1..Window
  BY <1>4, LenProperties
<1>6. \A i \in 1..Window : recent[i] = <<last[i].cell, last[i].outcome>>
  <2>1. \A i \in 1..Window : m + i - 1 = (Len(before) - Len(recent)) + i
    BY <1>1, <1>3
  <2> QED BY <1>2, <1>4, <2>1
<1> HIDE DEF last
<1>7. {i \in DOMAIN last : IsError(last[i].outcome)} = {j \in DOMAIN recent : IsError(recent[j][2])}
  BY <1>5, <1>6
<1>8. {last[i].cell : i \in {j \in DOMAIN last : IsError(last[j].outcome)}} = ErrorCells(recent)
  BY <1>5, <1>6, <1>7 DEF ErrorCells
<1>9. ErrorCount(recent) = Cardinality({i \in DOMAIN last : IsError(last[i].outcome)})
  BY <1>7 DEF ErrorCount
<1> QED BY <1>3, <1>8, <1>9 DEF Evidence, last, before

LEMMA WatchRecordIs ==
  ASSUME NEW w, NEW c, NEW o
  PROVE  LET recent == Pushed(w.recent, <<c, o>>)
             r == WatchRecord(w, c, o)
         IN  /\ w.tripped => r = w
             /\ ~w.tripped => /\ r.recent = recent
                              /\ r.tripped => /\ Len(recent) = Window
                                              /\ 100 * ErrorCount(recent) >= SharePct * Window
                                              /\ Cardinality(ErrorCells(recent)) >= Spread
BY DEF WatchRecord

\* The attempts of a file change with a fetch only.
LEMMA AmongGrown ==
  ASSUME FileInv, pc # "idle", NEW more, IsSeq(more), Grown(disk, disk', more), Writes(more)
  PROVE  \/ AttemptsAmong(Rows') = AttemptsAmong(Rows)
         \/ \E o \in Sees : Fetch(o) /\ Rows' = Rows \o <<Attempt(o)>>
<1>1. IsSeq(Rows) /\ Rows' = Rows \o more
  BY RowsOfGrown
<1>2. /\ StopRow("operator").kind # "attempt" /\ StopRow("transport").kind # "attempt"
      /\ Skipped.kind # "attempt" /\ Failed.kind # "attempt" /\ DirectStop.kind # "attempt"
      /\ Closed.kind # "attempt" /\ Stop.kind # "attempt"
  BY DEF StopRow, Skipped, Failed, DirectStop, Closed, Stop
<1>3. \A x, y : x.kind # "attempt" /\ y.kind # "attempt" =>
        /\ AttemptsAmong(Rows \o <<x>>) = AttemptsAmong(Rows)
        /\ AttemptsAmong(Rows \o <<x, y>>) = AttemptsAmong(Rows)
  BY <1>1, NoneAmongGrown
<1>4. Rows \o <<>> = Rows
  BY <1>1, ConcatEmptySeq DEF IsSeq
<1>5. CASE \E o \in Sees : Fetch(o) /\ more = <<Attempt(o)>>
  BY <1>1, <1>5
<1>6. \/ more = <<>> \/ more = <<StopRow("operator")>> \/ more = <<Skipped>> \/ more = <<Failed>>
      \/ more = <<StopRow("transport")>> \/ more = <<DirectStop>> \/ more = <<DirectStop, Failed>>
      \/ more = <<Closed, Stop>> \/ more = <<Closed>>
      \/ \E o \in Sees : Fetch(o) /\ more = <<Attempt(o)>>
  BY DEF Writes
<1> QED BY <1>1, <1>2, <1>3, <1>4, <1>5, <1>6

\* What a step does to the watch.
WatchMoves ==
  \/ \E o \in Sees : Fetch(o)
  \/ JudgeRecord
  \/ (JudgeTransport \/ JudgeStop \/ JudgeStopRaises) /\ watch' = Watched
     /\ (pc' = "closing" => swallowed')
  \/ /\ watch' = watch
     /\ pc' \in {"head", "identify", "session", "judge", "closing"} /\ ~swallowed' =>
          /\ pc \in {"head", "identify", "session", "judge", "closing"} /\ ~swallowed
          /\ pc = "judge" <=> pc' = "judge"
          /\ pc = "judge" => Rows' = Rows
LEMMA EveryStepWatches ==
  ASSUME Next, ~StartFresh, ~StartResumed
  PROVE  WatchMoves
<1> USE DEF WatchMoves, history
<1>1. CASE Finish \/ StopAtHead \/ Unwound \/ CtrlC
  BY <1>1 DEF Finish, StopAtHead, Unwound, CtrlC, Over
<1>2. CASE SkipTripped \/ StopRaisesAtHead \/ TakeBatch \/ SkipIdentity \/ Launch \/ EngineUnavailable
  BY <1>2 DEF SkipTripped, StopRaisesAtHead, TakeBatch, SkipIdentity, Launch, EngineUnavailable,
              NextBatch
<1>3. CASE WentDirect \/ WentDirectCloseRaises \/ SessionDies \/ BatchDone \/ CloseSession
  BY <1>3 DEF WentDirect, WentDirectCloseRaises, SessionDies, BatchDone, CloseSession, NextBatch
<1>4. CASE JudgeTransport \/ JudgeStop \/ JudgeStopRaises \/ JudgeRecord
  BY <1>4 DEF JudgeTransport, JudgeStop, JudgeStopRaises
<1>5. CASE CloseRaises \/ Killed
  BY <1>5 DEF CloseRaises, Killed
<1>6. CASE \E answer \in Answerable \cup Raising : RequestStop(answer)
  BY <1>6 DEF RequestStop, Rows
<1>7. CASE \E o \in Sees : Fetch(o)
  BY <1>7, SMTT(60)
<1> QED
  BY <1>1, <1>2, <1>3, <1>4, <1>5, <1>6, <1>7 DEF Next, RunnerStep

\* The row being judged is the last one.
LEMMA JudgedRow ==
  ASSUME FileInv, JudgeInv, PlanInv, pc = "judge"
  PROVE  /\ IsSeq(BeforeLast(Rows)) /\ Rows = BeforeLast(Rows) \o <<Last(Rows)>>
         /\ Last(Rows).kind = "attempt" /\ Last(Rows).cell = Cell /\ Last(Rows).outcome = Outcome
         /\ Cell \in Cells /\ Outcome \in Outcomes
<1>1. /\ IsSeq(Rows) /\ Rows # <<>> /\ Last(Rows) = Rows[Len(Rows)]
      /\ Last(Rows).kind = "attempt" /\ Last(Rows).cell = Cell /\ Last(Rows).outcome = Outcome
      /\ Outcome \in Outcomes
  BY BegunHasFile DEF JudgeInv, Last, Outcome
<1>2. Len(Rows) \in 1..Len(Rows) /\ Len(Rows) \in Nat /\ 1 \in 1..Len(Rows)
  BY <1>1, EmptySeq, LenProperties DEF IsSeq
<1>3. SubSeq(Rows, 1, Len(Rows)) = SubSeq(Rows, 1, Len(Rows) - 1) \o <<Rows[Len(Rows)]>>
  BY <1>1, <1>2, SubSeqRecursiveSecond DEF IsSeq
<1>4. SubSeq(Rows, 1, Len(Rows)) = Rows
  BY <1>1, SubSeqFull DEF IsSeq
<1>5. IsSeq(BeforeLast(Rows))
  <2>1. \A i \in 1..(Len(Rows) - 1) : Rows[i] \in Range(Rows)
    BY <1>1, <1>2, ElementOfSeq DEF IsSeq
  <2>2. 1 \in Int /\ Len(Rows) - 1 \in Int
    BY <1>2
  <2>3. SubSeq(Rows, 1, Len(Rows) - 1) \in Seq(Range(Rows))
    BY <2>1, <2>2, SubSeqProperties
  <2> QED BY <2>3, SeqOfRange DEF IsSeq, BeforeLast
<1>6. Cell \in Cells
  BY InHand DEF PlanInv, Open
<1> QED BY <1>1, <1>3, <1>4, <1>5, <1>6 DEF BeforeLast

\* One row more at the end, and it is not before the last.
LEMMA BeforeLastOf ==
  ASSUME NEW rows, IsSeq(rows), NEW row
  PROVE  BeforeLast(rows \o <<row>>) = rows
<1> DEFINE longer == rows \o <<row>>
           V == Range(rows) \cup {row}
<1>1. rows \in Seq(V)
  BY SeqMonotonic DEF IsSeq
<1>2. /\ IsSeq(longer) /\ Len(longer) = Len(rows) + 1 /\ Len(rows) \in Nat
      /\ \A i \in 1..Len(rows) : longer[i] = rows[i]
  BY Singleton, Concatenation
<1> HIDE DEF longer
<1>3. /\ SubSeq(longer, 1, Len(rows)) \in Seq(V) /\ Len(SubSeq(longer, 1, Len(rows))) = Len(rows)
      /\ \A i \in 1..Len(rows) : SubSeq(longer, 1, Len(rows))[i] = longer[i]
  <2>1. \A i \in 1..Len(rows) : longer[i] \in V
    BY <1>1, <1>2, ElementOfSeq
  <2> HIDE DEF V
  <2>2. 1 \in Int /\ Len(rows) \in Int
    BY <1>2
  <2>3. /\ SubSeq(longer, 1, Len(rows)) \in Seq(V)
        /\ Len(SubSeq(longer, 1, Len(rows))) = IF 1 <= Len(rows) THEN Len(rows) - 1 + 1 ELSE 0
        /\ \A i \in 1..(Len(rows) - 1 + 1) : SubSeq(longer, 1, Len(rows))[i] = longer[1 + i - 1]
    BY <2>1, <2>2, SubSeqProperties
  <2> QED BY <1>2, <2>3
<1>4. SubSeq(longer, 1, Len(rows)) = rows
  BY <1>1, <1>2, <1>3, SeqEqual
<1> QED BY <1>2, <1>4 DEF BeforeLast, longer

LEMMA WatchInit == Init => WatchInv
<1>1. <<>> \in Seq(Cells \X Outcomes) /\ Len(<<>>) = 0
  BY EmptySeq
<1> QED BY <1>1, WatchAssumption DEF Init, WatchInv, NewWatch

LEMMA WatchStep ==
  ASSUME FileInv, JudgeInv, PlanInv, WatchInv, [Next]_vars
  PROVE  WatchInv'
<1> DEFINE typed(w) == w.recent \in Seq(Cells \X Outcomes) /\ Len(w.recent) <= Window
<1>0. typed(watch)
  BY DEF WatchInv
<1>1. CASE StartFresh \/ StartResumed
  <2>1. PICK skip : Start(skip)
    BY <1>1 DEF StartFresh, StartResumed
  <2>2. Rows' = <<>> /\ watch' = NewWatch /\ pc' = "head"
    BY <2>1, StartRows DEF Start
  <2>3. <<>> \in Seq(Cells \X Outcomes) /\ Len(<<>>) = 0
    BY EmptySeq
  <2> QED BY <2>2, <2>3, NoneAmongNone, WatchAssumption DEF WatchInv, NewWatch
<1>2. CASE Next /\ ~StartFresh /\ ~StartResumed
  <2>1. PICK more : IsSeq(more) /\ Writes(more) /\ Grown(disk, disk', more)
    BY <1>2, EveryStepWrites
  <2>2. pc # "idle" /\ WatchMoves
    BY <1>2, EveryStepWrites, EveryStepWatches
  <2>3. IsSeq(Rows)
    BY <2>1, <2>2, RowsOfGrown
  <2>4. pc = "judge" =>
          LET pushed == Pushed(watch.recent, <<Cell, Outcome>>)
          IN  /\ pushed \in Seq(Cells \X Outcomes) /\ Len(pushed) <= Window
              /\ Holds(watch.recent, BeforeLast(Rows)) => Holds(pushed, Rows)
    <3> SUFFICES ASSUME pc = "judge"
                 PROVE  LET pushed == Pushed(watch.recent, <<Cell, Outcome>>)
                        IN  /\ pushed \in Seq(Cells \X Outcomes) /\ Len(pushed) <= Window
                            /\ Holds(watch.recent, BeforeLast(Rows)) => Holds(pushed, Rows)
      OBVIOUS
    <3>1. /\ IsSeq(BeforeLast(Rows)) /\ Rows = BeforeLast(Rows) \o <<Last(Rows)>>
          /\ Last(Rows).kind = "attempt" /\ Last(Rows).cell = Cell /\ Last(Rows).outcome = Outcome
          /\ Cell \in Cells /\ Outcome \in Outcomes
      BY JudgedRow
    <3> QED BY <1>0, <3>1, PushedHolds
  <2>5. pc = "judge" => typed(Watched)
    BY <1>0, <2>4, WatchRecordIs DEF Watched
  <2>6. CASE \E o \in Sees : Fetch(o)
    <3>1. PICK o \in Sees : Fetch(o) /\ Rows' = Rows \o <<Attempt(o)>>
      <4>1. PICK o \in Sees : Fetch(o)
        BY <2>6
      <4>2. disk' = Written(Attempt(o)) /\ pc = "session"
        BY <4>1 DEF Fetch, Attempt
      <4>3. Grown(disk, disk', <<Attempt(o)>>) /\ IsSeq(<<Attempt(o)>>)
        BY <2>2, <4>2, BegunHasFile, OneGrown, Singleton
      <4> QED BY <2>2, <4>1, <4>3, RowsOfGrown
    <3>2. BeforeLast(Rows') = Rows
      BY <2>3, <3>1, BeforeLastOf
    <3>3. watch' = watch /\ pc = "session" /\ pc' = "judge" /\ swallowed' = swallowed
      BY <3>1 DEF Fetch
    <3> QED BY <3>2, <3>3 DEF WatchInv
  <2>7. CASE JudgeRecord
    <3>1. /\ pc = "judge" /\ watch' = Watched /\ ~Watched.tripped /\ pc' = "session"
          /\ Rows' = Rows /\ swallowed' = swallowed
      BY <2>7, UnwrittenRows DEF JudgeRecord, Unwritten, history
    <3>2. ~swallowed => ~watch.tripped /\ Holds(watch.recent, BeforeLast(Rows))
      BY <3>1 DEF WatchInv
    <3>3. ~swallowed => Holds(Watched.recent, Rows)
      BY <2>4, <3>1, <3>2, WatchRecordIs DEF Watched
    <3> QED BY <2>5, <3>1, <3>3 DEF WatchInv
  <2>8. CASE (JudgeTransport \/ JudgeStop \/ JudgeStopRaises) /\ watch' = Watched
             /\ (pc' = "closing" => swallowed')
    <3>1. pc = "judge" /\ pc' \in {"unwinding", "closing"}
      BY <2>8 DEF JudgeTransport, JudgeStop, JudgeStopRaises
    <3> QED BY <2>5, <2>8, <3>1 DEF WatchInv
  <2>9. CASE /\ watch' = watch /\ ~\E o \in Sees : Fetch(o)
             /\ pc' \in {"head", "identify", "session", "judge", "closing"} /\ ~swallowed' =>
                  /\ pc \in {"head", "identify", "session", "judge", "closing"} /\ ~swallowed
                  /\ pc = "judge" <=> pc' = "judge"
                  /\ pc = "judge" => Rows' = Rows
    <3>1. AttemptsAmong(Rows') = AttemptsAmong(Rows)
      BY <2>1, <2>2, <2>9, AmongGrown
    <3>2. Holds(watch.recent, Rows) => Holds(watch.recent, Rows')
      BY <3>1 DEF Holds
    <3> QED BY <1>0, <2>9, <3>2 DEF WatchInv
  <2> QED BY <2>2, <2>6, <2>7, <2>8, <2>9 DEF WatchMoves
<1>3. CASE UNCHANGED vars
  <2>1. watch' = watch /\ pc' = pc /\ swallowed' = swallowed /\ Rows' = Rows
    BY <1>3 DEF vars, Rows
  <2> QED BY <2>1 DEF WatchInv
<1> QED BY <1>1, <1>2, <1>3

LEMMA SwallowedStays ==
  ASSUME Next, ~StartFresh, ~StartResumed
  PROVE  swallowed => swallowed'
<1> USE DEF history
<1>1. CASE Finish \/ StopAtHead \/ Unwound \/ CtrlC
  BY <1>1 DEF Finish, StopAtHead, Unwound, CtrlC
<1>2. CASE SkipTripped \/ StopRaisesAtHead \/ TakeBatch \/ SkipIdentity \/ Launch \/ EngineUnavailable
  BY <1>2 DEF SkipTripped, StopRaisesAtHead, TakeBatch, SkipIdentity, Launch, EngineUnavailable
<1>3. CASE WentDirect \/ WentDirectCloseRaises \/ SessionDies \/ BatchDone \/ CloseSession
  BY <1>3 DEF WentDirect, WentDirectCloseRaises, SessionDies, BatchDone, CloseSession
<1>4. CASE JudgeTransport \/ JudgeStop \/ JudgeStopRaises \/ JudgeRecord
  BY <1>4 DEF JudgeTransport, JudgeStop, JudgeStopRaises, JudgeRecord
<1>5. CASE CloseRaises \/ Killed \/ \E o \in Sees : Fetch(o)
  BY <1>5 DEF CloseRaises, Killed, Fetch
<1>6. CASE \E answer \in Answerable \cup Raising : RequestStop(answer)
  BY <1>6 DEF RequestStop
<1> QED
  BY <1>1, <1>2, <1>3, <1>4, <1>5, <1>6 DEF Next, RunnerStep

LEMMA EvidenceOfRows ==
  WatchStopIsEvidence <=>
    (disk # <<>> /\ ~swallowed =>
       \A s \in DOMAIN Rows :
         Rows[s] = StopRow("transport") => Evidence(AttemptsAmong(SubSeq(Rows, 1, s))))
BY DEF WatchStopIsEvidence, Evidence

LEMMA EvidenceStep ==
  ASSUME FileInv, JudgeInv, PlanInv, WatchInv, WatchStopIsEvidence, [Next]_vars
  PROVE  WatchStopIsEvidence'
<1>1. CASE StartFresh \/ StartResumed
  <2>1. PICK skip : Start(skip)
    BY <1>1 DEF StartFresh, StartResumed
  <2>2. Rows' = <<>> /\ DOMAIN <<>> = {}
    BY <2>1, StartRows
  <2> QED BY <2>2 DEF WatchStopIsEvidence
<1>2. CASE Next /\ ~StartFresh /\ ~StartResumed
  <2>1. PICK more : IsSeq(more) /\ Writes(more) /\ Grown(disk, disk', more)
    BY <1>2, EveryStepWrites
  <2>2. pc # "idle" /\ disk # <<>>
    BY <1>2, EveryStepWrites DEF IsFiles
  <2>3. /\ IsSeq(Rows) /\ IsSeq(Rows') /\ Rows' = Rows \o more
        /\ Len(Rows) \in Nat /\ Len(more) \in Nat /\ Len(Rows') = Len(Rows) + Len(more)
        /\ DOMAIN Rows = 1..Len(Rows) /\ DOMAIN more = 1..Len(more)
        /\ DOMAIN Rows' = 1..(Len(Rows) + Len(more))
        /\ \A i \in DOMAIN Rows : i \in DOMAIN Rows' /\ Rows'[i] = Rows[i]
        /\ \A k \in DOMAIN more : Len(Rows) + k \in DOMAIN Rows' /\ Rows'[Len(Rows) + k] = more[k]
        /\ \A i \in DOMAIN Rows' : i \in DOMAIN Rows \/ \E k \in DOMAIN more : i = Len(Rows) + k
    BY <2>1, <2>2, RowsOfGrown
  <2> SUFFICES ASSUME ~swallowed', NEW s \in DOMAIN Rows', Rows'[s] = StopRow("transport")
               PROVE  Evidence(AttemptsAmong(SubSeq(Rows', 1, s)))
    BY DEF WatchStopIsEvidence, Evidence
  <2>4. ~swallowed
    BY <1>2, SwallowedStays
  <2>5. CASE s \in DOMAIN Rows
    <3>1. SubSeq(Rows', 1, s) = SubSeq(Rows, 1, s)
      <4> DEFINE V == Range(Rows) \cup Range(more)
      <4>1. Rows \in Seq(V) /\ more \in Seq(V)
        BY <2>1, <2>3, SeqMonotonic DEF IsSeq
      <4> HIDE DEF V
      <4>2. s \in 1..Len(Rows) /\ 1 \in 1..Len(Rows)
        BY <2>3, <2>5
      <4>3. SubSeq(Rows \o more, 1, s) = SubSeq(Rows, 1, s)
        BY <4>1, <4>2, SubSeqOfConcat1
      <4> QED BY <2>3, <4>3
    <3>2. Rows[s] = StopRow("transport")
      BY <2>3, <2>5
    <3> QED BY <2>2, <2>4, <2>5, <3>1, <3>2, EvidenceOfRows
  <2>6. CASE s \notin DOMAIN Rows
    <3>1. PICK k \in DOMAIN more : s = Len(Rows) + k /\ more[k] = StopRow("transport")
      BY <2>3, <2>6
    <3>2. JudgeTransport /\ more = <<StopRow("transport")>>
      <4> DEFINE stop == StopRow("transport")
      <4>1. stop.kind = "run_stopped" /\ stop.why = "transport"
        BY DEF StopRow
      <4>2. /\ StopRow("operator").why # stop.why
            /\ Skipped.kind # stop.kind /\ Failed.kind # stop.kind /\ DirectStop.kind # stop.kind
            /\ Closed.kind # stop.kind /\ Stop.kind # stop.kind
            /\ \A o : Attempt(o).kind # stop.kind
        BY DEF StopRow, Skipped, Failed, DirectStop, Closed, Stop, Attempt
      <4> HIDE DEF stop
      <4>3. \A x : x # stop => \A n \in DOMAIN <<x>> : <<x>>[n] # stop
        OBVIOUS
      <4>4. \A x, y : x # stop /\ y # stop => \A n \in DOMAIN <<x, y>> : <<x, y>>[n] # stop
        OBVIOUS
      <4>5. DOMAIN <<>> = {}
        OBVIOUS
      <4>6. /\ StopRow("operator") # stop /\ Skipped # stop /\ Failed # stop /\ DirectStop # stop
            /\ Closed # stop /\ Stop # stop /\ \A o : Attempt(o) # stop
        BY <4>2
      <4>7. more[k] = stop
        BY <3>1 DEF stop
      <4> QED BY <2>1, <4>3, <4>4, <4>5, <4>6, <4>7 DEF Writes, stop
    <3>3. /\ s = Len(Rows) + 1 /\ Len(more) = 1
      <4>1. DOMAIN <<StopRow("transport")>> = {1} /\ Len(<<StopRow("transport")>>) = 1
        OBVIOUS
      <4> QED BY <3>1, <3>2, <4>1
    <3>4. SubSeq(Rows', 1, s) = Rows'
      BY <2>3, <3>3, SubSeqFull DEF IsSeq
    <3>5. AttemptsAmong(Rows') = AttemptsAmong(Rows)
      <4>1. StopRow("transport").kind # "attempt"
        BY DEF StopRow
      <4> QED BY <2>3, <3>2, <4>1, AttemptsAmongGrown
    <3>6. pc = "judge" /\ Watched.tripped
      BY <3>2 DEF JudgeTransport
    <3> DEFINE pushed == Pushed(watch.recent, <<Cell, Outcome>>)
    <3>7. /\ ~watch.tripped /\ Holds(watch.recent, BeforeLast(Rows))
          /\ watch.recent \in Seq(Cells \X Outcomes) /\ Len(watch.recent) <= Window
      BY <2>4, <3>6 DEF WatchInv
    <3>8. pushed \in Seq(Cells \X Outcomes) /\ Holds(pushed, Rows)
      <4>1. /\ IsSeq(BeforeLast(Rows)) /\ Rows = BeforeLast(Rows) \o <<Last(Rows)>>
            /\ Last(Rows).kind = "attempt" /\ Last(Rows).cell = Cell /\ Last(Rows).outcome = Outcome
            /\ Cell \in Cells /\ Outcome \in Outcomes
        BY <3>6, JudgedRow
      <4> QED BY <3>7, <4>1, PushedHolds
    <3>9. /\ Len(pushed) = Window /\ 100 * ErrorCount(pushed) >= SharePct * Window
          /\ Cardinality(ErrorCells(pushed)) >= Spread
      BY <3>6, <3>7, WatchRecordIs DEF Watched
    <3> HIDE DEF pushed
    <3>10. Evidence(AttemptsAmong(Rows))
      BY <2>3, <3>8, <3>9, TripIsEvidence
    <3> QED BY <3>4, <3>5, <3>10
  <2> QED BY <2>5, <2>6
<1>3. CASE UNCHANGED vars
  <2>1. disk' = disk /\ swallowed' = swallowed /\ Rows' = Rows
    BY <1>3 DEF vars, Rows
  <2>2. WatchStopIsEvidence' <=>
          (disk' # <<>> /\ ~swallowed' =>
             \A s \in DOMAIN Rows' :
               Rows'[s] = StopRow("transport") => Evidence(AttemptsAmong(SubSeq(Rows', 1, s))))
    BY DEF WatchStopIsEvidence, Evidence
  <2> QED BY <2>1, <2>2, EvidenceOfRows
<1> QED BY <1>1, <1>2, <1>3
----------------------------------------------------------------------------
(* What a breaker knows of the open session is what its rows say.          *)

\* What the counters of a breaker say of its session, as a set of outcomes.
Counts(x, of) ==
  /\ x.session_attempts > 0 <=> of # {}
  /\ x.session_ok > 0 <=> "ok" \in of
  /\ x.session_arrived > 0 <=> of \ {"transport"} # {}
InSession(c, b) == {i \in AttemptRows(Rows) : Rows[i].cell = c /\ Rows[i].batch = b}
Heard(c) ==
  IF pc \in {"session", "judge", "closing"} /\ c = Cell
  THEN {Rows[i].outcome : i \in {j \in InSession(c, Batch.index) : pc = "judge" => j # Len(Rows)}}
  ELSE {}
CountersInv ==
  /\ pc = "judge" => Rows[Len(Rows)].batch = Batch.index
  /\ pc \notin {"idle", "over"} /\ ~swallowed =>
       \A c \in Cells : (pc = "unwinding" /\ c = Cell) \/ Counts(breakers[c], Heard(c))

\* end_session() names the session by its counters as its rows do.
ClassOfOutcomes(of) ==
  CASE of = {} -> "abandoned"
    [] "ok" \in of -> "alive"
    [] of = {"transport"} -> "unreachable"
    [] OTHER -> "dead"
LEMMA ClassIs ==
  ASSUME NEW x \in SessionBreakers, NEW of, Counts(x, of)
  PROVE  ClassOf(x) = ClassOfOutcomes(of)
<1>1. /\ x.session_ok \in Nat /\ x.session_arrived \in Nat /\ x.session_attempts \in Nat
  BY DEF SessionBreakers
<1>2. /\ ClassOf(x) \in Classes
      /\ ClassOf(x) = "abandoned" <=> x.session_attempts = 0
      /\ ClassOf(x) = "alive" => x.session_ok > 0
      /\ ClassOf(x) = "dead" => x.session_ok = 0 /\ x.session_arrived > 0
      /\ ClassOf(x) = "unreachable" => x.session_ok = 0 /\ x.session_arrived = 0
  BY ClassOfType
<1>3. /\ ClassOf(x) = "abandoned" <=> of = {}
      /\ ClassOf(x) = "alive" => "ok" \in of
      /\ ClassOf(x) = "dead" => "ok" \notin of /\ of \ {"transport"} # {}
      /\ ClassOf(x) = "unreachable" => "ok" \notin of /\ of \ {"transport"} = {}
  BY <1>1, <1>2 DEF Counts
<1>4. of \ {"transport"} = {} /\ of # {} => of = {"transport"}
  OBVIOUS
<1>5. CASE ClassOf(x) = "abandoned"
  BY <1>3, <1>5 DEF ClassOfOutcomes
<1>6. CASE ClassOf(x) = "alive"
  <2>1. of # {} /\ "ok" \in of
    BY <1>3, <1>6
  <2> QED BY <1>6, <2>1 DEF ClassOfOutcomes
<1>7. CASE ClassOf(x) = "dead"
  <2>1. of # {} /\ "ok" \notin of /\ of # {"transport"}
    BY <1>3, <1>7
  <2> QED BY <1>7, <2>1 DEF ClassOfOutcomes
<1>8. CASE ClassOf(x) = "unreachable"
  <2>1. of # {} /\ "ok" \notin of /\ of = {"transport"}
    BY <1>3, <1>4, <1>8
  <2> QED BY <1>8, <2>1 DEF ClassOfOutcomes
<1> QED BY <1>2, <1>5, <1>6, <1>7, <1>8 DEF Classes

\* The counters of the session in flight, of the cell c.
SameCounts(c) ==
  /\ breakers'[c].session_attempts = breakers[c].session_attempts
  /\ breakers'[c].session_ok = breakers[c].session_ok
  /\ breakers'[c].session_arrived = breakers[c].session_arrived

LEMMA CountsStay ==
  ASSUME BreakerInv, JudgeInv, Next, ~StartFresh, ~StartResumed, NEW c \in Cells,
         c # Cell \/ (~JudgeRecord /\ ~CloseSession)
  PROVE  SameCounts(c)
<1>1. CASE Untold
  BY <1>1, UntoldBreakers DEF SameCounts
<1>2. CASE Stopping
  <2>1. PICK why \in {"engine_unavailable", "went_direct"} :
          breakers' = [breakers EXCEPT ![Cell] = Trip(breakers[Cell], why)]
    BY <1>2 DEF Stopping, EngineUnavailable, WentDirect, WentDirectCloseRaises
  <2>2. breakers \in [Cells -> SessionBreakers]
    BY DEF BreakerInv
  <2>3. CASE c # Cell
    BY <2>1, <2>2, <2>3 DEF SameCounts
  <2>4. CASE c = Cell
    <3>1. breakers'[c] = Trip(breakers[c], why)
      BY <2>1, <2>2, <2>4
    <3> QED BY <3>1 DEF Trip, SameCounts
  <2> QED BY <2>3, <2>4
<1>3. CASE JudgeRecord
  BY <1>3, JudgeRecordBreakers DEF SameCounts
<1>4. CASE CloseSession
  BY <1>4, CloseSessionBreakers DEF SameCounts
<1> QED BY <1>1, <1>2, <1>3, <1>4 DEF Next, RunnerStep, Untold, Stopping

LEMMA RecordCounts ==
  ASSUME NEW x \in SessionBreakers, NEW o \in Outcomes, NEW of, Counts(x, of)
  PROVE  Counts(Record(x, o), of \cup {o})
<1>1. /\ x.session_ok \in Nat /\ x.session_arrived \in Nat /\ x.session_attempts \in Nat
  BY DEF SessionBreakers
<1> DEFINE r == Record(x, o)
<1>2. /\ r.session_attempts = x.session_attempts + 1
      /\ r.session_arrived = IF o = "transport" THEN x.session_arrived ELSE x.session_arrived + 1
      /\ r.session_ok = IF o = "ok" THEN x.session_ok + 1 ELSE x.session_ok
  BY RecordFields
<1> HIDE DEF r
<1>3. r.session_attempts > 0 <=> of \cup {o} # {}
  BY <1>1, <1>2
<1>4. r.session_ok > 0 <=> "ok" \in of \cup {o}
  BY <1>1, <1>2 DEF Counts
<1>5. r.session_arrived > 0 <=> (of \cup {o}) \ {"transport"} # {}
  <2>1. CASE o = "transport"
    <3>1. (of \cup {o}) \ {"transport"} = of \ {"transport"}
      BY <2>1
    <3> QED BY <1>1, <1>2, <2>1, <3>1 DEF Counts
  <2>2. CASE o # "transport"
    <3>1. (of \cup {o}) \ {"transport"} # {}
      BY <2>2
    <3> QED BY <1>1, <1>2, <2>2, <3>1
  <2> QED BY <2>1, <2>2
<1> QED BY <1>3, <1>4, <1>5 DEF Counts, r

\* Of the batch at hand at its head, nothing was asked yet.
LEMMA NothingAsked ==
  ASSUME PlanInv, AskedInv, plan # <<>>, pc \in {"head", "identify"}
  PROVE  InSession(Cell, Batch.index) = {}
<1>1. Batch = plan[1] /\ Cell = plan[1].cell /\ 1 \in DOMAIN plan
  BY InHand, HeadOfPlan DEF PlanInv
<1>2. \A i \in AttemptRows(Rows) : <<Rows[i].cell, Rows[i].batch>> # <<plan[1].cell, plan[1].index>>
  BY <1>1 DEF AskedInv, Session
<1> QED BY <1>1, <1>2 DEF InSession

\* The rows of a session in a file with no attempt more.
LEMMA InSessionSame ==
  ASSUME FileInv, pc # "idle", NEW more, IsSeq(more), Grown(disk, disk', more),
         AttemptRows(Rows') = AttemptRows(Rows)
  PROVE  \A c, b : /\ InSession(c, b)' = InSession(c, b)
                   /\ \A i \in InSession(c, b) : Rows'[i] = Rows[i]
<1>1. \A i \in DOMAIN Rows : Rows'[i] = Rows[i]
  BY RowsOfGrown
<1>2. \A i \in AttemptRows(Rows) : Rows'[i] = Rows[i]
  BY <1>1 DEF AttemptRows
<1> QED BY <1>2 DEF InSession

LEMMA CountsOfSame ==
  ASSUME NEW c, SameCounts(c), NEW of
  PROVE  Counts(breakers[c], of) => Counts(breakers'[c], of)
BY DEF SameCounts, Counts

\* What was heard of a session changes with a fetch's verdict and its closing.
LEMMA HeardStays ==
  ASSUME IInv, PlanInv, AskedInv, Next, ~StartFresh, ~StartResumed, NEW c \in Cells,
         c # Cell \/ (~JudgeRecord /\ ~CloseSession),
         pc' # "over", ~swallowed', ~(pc' = "unwinding" /\ c = Cell')
  PROVE  Heard(c)' = Heard(c) /\ ~(pc = "unwinding" /\ c = Cell)
<1>0. FileInv /\ VerdictInv /\ JudgeInv
  BY DEF IInv
<1>1. PICK more : IsSeq(more) /\ Writes(more) /\ Grown(disk, disk', more)
  BY <1>0, EveryStepWrites
<1>2. pc # "idle" /\ Moves
  BY <1>0, EveryStepWrites, EveryStepMoves
<1>3. AttemptRows(Rows') = AttemptRows(Rows) =>
        \A b : InSession(c, b)' = InSession(c, b) /\ \A i \in InSession(c, b) : Rows'[i] = Rows[i]
  BY <1>0, <1>1, <1>2, InSessionSame
<1>4. CASE Passes
  <2>1. Heard(c)' = {}
    BY <1>4 DEF Passes, Heard
  <2>2. pc = "closing" => c # Cell
    BY <1>4 DEF Passes, Next, RunnerStep, Finish, SkipTripped, StopAtHead, StopRaisesAtHead, TakeBatch,
       SkipIdentity, Launch, EngineUnavailable, WentDirect, WentDirectCloseRaises, SessionDies, Fetch,
       JudgeTransport, JudgeStop, JudgeStopRaises, JudgeRecord, BatchDone, CloseSession, Unwound,
       CloseRaises, CtrlC, Killed, RequestStop, Over
  <2>3. Heard(c) = {} /\ pc # "unwinding"
    BY <1>4, <2>2 DEF Passes, Heard
  <2> QED BY <2>1, <2>3
<1>5. CASE Takes
  BY <1>5 DEF Takes, Heard
<1>6. CASE Asks
  <2>1. /\ plan' = plan /\ pc = "session" /\ pc' = "judge" /\ Cell' = Cell /\ Batch' = Batch
    BY <1>6 DEF Asks, Cell, Batch
  <2>2. CASE c # Cell
    BY <2>1, <2>2 DEF Heard
  <2>3. CASE c = Cell
    <3>1. /\ Len(Rows') = Len(Rows) + 1
          /\ AttemptRows(Rows') = AttemptRows(Rows) \cup {Len(Rows')}
                \/ AttemptRows(Rows') = AttemptRows(Rows)
      <4>1. PICK o \in Sees : Fetch(o)
        BY <2>1
        DEF Next, RunnerStep, Finish, SkipTripped, StopAtHead, StopRaisesAtHead, TakeBatch,
         SkipIdentity, Launch, EngineUnavailable, WentDirect, WentDirectCloseRaises, SessionDies,
         JudgeTransport, JudgeStop, JudgeStopRaises, JudgeRecord, BatchDone, CloseSession,
         Unwound, CloseRaises, CtrlC, Killed, RequestStop, Over, NextBatch
      <4>2. Len(Rows') = Len(Rows) + 1
        BY <1>0, <4>1, FetchRows
      <4> QED BY <1>0, <1>1, <1>2, <4>2, AttemptsOfGrown
    <3>2. /\ \A i \in AttemptRows(Rows) : i # Len(Rows') /\ Rows'[i] = Rows[i]
      <4>1. DOMAIN Rows = 1..Len(Rows) /\ Len(Rows) \in Nat /\ \A i \in DOMAIN Rows : Rows'[i] = Rows[i]
        BY <1>0, <1>1, <1>2, RowsOfGrown
      <4>2. AttemptRows(Rows) \subseteq DOMAIN Rows
        BY DEF AttemptRows
      <4> QED BY <3>1, <4>1, <4>2
    <3> DEFINE b == Batch.index
    <3>3. /\ Heard(c) = {Rows[i].outcome : i \in InSession(c, b)}
          /\ Heard(c)' = {Rows'[i].outcome : i \in {j \in InSession(c, b)' : j # Len(Rows')}}
      BY <2>1, <2>3 DEF Heard
    <3>4. {j \in InSession(c, b)' : j # Len(Rows')} = InSession(c, b)
      BY <2>1, <3>1, <3>2 DEF InSession
    <3>5. \A i \in InSession(c, b) : Rows'[i].outcome = Rows[i].outcome
      BY <3>2 DEF InSession
    <3> HIDE DEF b
    <3>6. Heard(c)' = Heard(c)
      BY <3>3, <3>4, <3>5
    <3> QED BY <2>1, <3>6
  <2> QED BY <2>2, <2>3
<1>7. CASE Stays
  <2>1. /\ plan' = plan /\ Cell' = Cell /\ Batch' = Batch
        /\ AttemptRows(Rows') = AttemptRows(Rows)
    <3>1. plan' = plan /\ ~\E o \in Sees : Fetch(o)
      BY <1>2, <1>7, RunAssumption DEF Stays, Fetch, PlanInv
    <3> QED BY <1>0, <1>1, <1>2, <3>1, AttemptsOfGrown DEF Cell, Batch
  <2>2. CASE pc' = pc
    <3>1. pc = "judge" => Rows' = Rows
      BY <2>2
      DEF Next, RunnerStep, Finish, SkipTripped, StopAtHead, StopRaisesAtHead, TakeBatch,
       SkipIdentity, Launch, EngineUnavailable, WentDirect, WentDirectCloseRaises, SessionDies,
       JudgeTransport, JudgeStop, JudgeStopRaises, JudgeRecord, BatchDone, CloseSession,
       Unwound, CloseRaises, CtrlC, Killed, RequestStop, Over, NextBatch, Fetch, Rows
    <3>2. Heard(c)' = Heard(c)
      <4>1. CASE pc = "judge"
        BY <1>3, <2>1, <2>2, <3>1, <4>1, ZenonT(60) DEF Heard
      <4>2. CASE pc # "judge"
        <5>1. {j \in InSession(c, Batch.index) : pc = "judge" => j # Len(Rows)} = InSession(c, Batch.index)
          BY <4>2
        <5>2. {j \in InSession(c, Batch.index) : pc = "judge" => j # Len(Rows')} = InSession(c, Batch.index)
          BY <4>2
        <5> QED BY <1>3, <2>1, <2>2, <5>1, <5>2, ZenonT(60) DEF Heard
      <4> QED BY <4>1, <4>2
    <3> QED BY <2>1, <2>2, <3>2
  <2>3. CASE pc = "identify" /\ pc' = "session"
    <3>1. plan # <<>>
      BY <2>3 DEF PlanInv, Open
    <3>2. InSession(Cell, Batch.index) = {}
      BY <2>3, <3>1, NothingAsked
    <3> QED BY <1>3, <2>1, <2>3, <3>2 DEF Heard
  <2>4. CASE pc = "judge" /\ pc' = "session"
    <3>1. JudgeRecord
      BY <2>4
      DEF Next, RunnerStep, Finish, SkipTripped, StopAtHead, StopRaisesAtHead, TakeBatch,
       SkipIdentity, Launch, EngineUnavailable, WentDirect, WentDirectCloseRaises, SessionDies,
       JudgeTransport, JudgeStop, JudgeStopRaises, BatchDone, CloseSession,
       Unwound, CloseRaises, CtrlC, Killed, RequestStop, Over, NextBatch, Fetch
    <3> QED BY <2>1, <2>4, <3>1 DEF Heard
  <2>5. CASE pc \in {"session", "judge"} /\ pc' = "unwinding"
    BY <2>1, <2>5 DEF Heard
  <2>6. CASE pc \in Open \ {"closing"} /\ pc' = "closing"
    <3>1. pc \in {"identify", "session"}
      BY <2>6
      DEF Open, Next, RunnerStep, Finish, SkipTripped, StopAtHead, StopRaisesAtHead, TakeBatch,
       SkipIdentity, Launch, EngineUnavailable, WentDirect, WentDirectCloseRaises, SessionDies,
       JudgeTransport, JudgeStop, JudgeStopRaises, JudgeRecord, BatchDone, CloseSession,
       Unwound, CloseRaises, CtrlC, Killed, RequestStop, Over, NextBatch, Fetch
    <3>2. CASE c # Cell
      BY <2>1, <2>6, <3>1, <3>2 DEF Heard
    <3>3. CASE c = Cell /\ pc = "identify"
      <4>1. plan # <<>>
        BY <3>3 DEF PlanInv, Open
      <4>2. InSession(Cell, Batch.index) = {}
        BY <3>3, <4>1, NothingAsked
      <4> QED BY <1>3, <2>1, <2>6, <3>3, <4>2 DEF Heard
    <3>4. CASE c = Cell /\ pc = "session"
      <4>1. {j \in InSession(c, Batch.index) : pc = "judge" => j # Len(Rows)} = InSession(c, Batch.index)
        BY <3>4
      <4>2. {j \in InSession(c, Batch.index)' : pc' = "judge" => j # Len(Rows')} = InSession(c, Batch.index)
        BY <1>3, <2>1, <2>6
      <4> QED BY <1>3, <2>1, <2>6, <3>4, <4>1, <4>2 DEF Heard
    <3> QED BY <3>1, <3>2, <3>3, <3>4
  <2> QED BY <1>7, <2>2, <2>3, <2>4, <2>5, <2>6 DEF Stays
<1> QED BY <1>2, <1>4, <1>5, <1>6, <1>7 DEF Moves

LEMMA CountersInit == Init => CountersInv
BY DEF Init, CountersInv

LEMMA CountersStep ==
  ASSUME IInv, PlanInv, AskedInv, CountersInv, [Next]_vars
  PROVE  CountersInv'
<1>0. FileInv /\ JudgeInv /\ BreakerInv /\ breakers \in [Cells -> SessionBreakers]
  BY DEF IInv, BreakerInv
<1>1. CASE StartFresh \/ StartResumed
  <2>1. PICK skip : Start(skip)
    BY <1>1 DEF StartFresh, StartResumed
  <2>2. pc' = "head" /\ breakers' = [c \in Cells |-> NewSessionBreaker]
    BY <2>1 DEF Start
  <2>3. \A c \in Cells : Heard(c)' = {}
    BY <2>2 DEF Heard
  <2>4. Counts(NewSessionBreaker, {})
    BY DEF Counts, NewSessionBreaker
  <2> QED BY <2>2, <2>3, <2>4 DEF CountersInv
<1>2. CASE Next /\ ~StartFresh /\ ~StartResumed
  <2>0. pc # "idle"
    BY <1>0, <1>2, EveryStepWrites
  <2>1. pc' = "judge" => Rows'[Len(Rows')].batch = Batch'.index
    <3> SUFFICES ASSUME pc' = "judge"
                 PROVE  Rows'[Len(Rows')].batch = Batch'.index
      OBVIOUS
    <3>1. (\E o \in Sees : Fetch(o)) \/ (pc = "judge" /\ Rows' = Rows /\ Batch' = Batch)
      BY <1>2
      DEF Next, RunnerStep, Finish, SkipTripped, StopAtHead, StopRaisesAtHead, TakeBatch,
       SkipIdentity, Launch, EngineUnavailable, WentDirect, WentDirectCloseRaises, SessionDies,
       JudgeTransport, JudgeStop, JudgeStopRaises, JudgeRecord, BatchDone, CloseSession,
       Unwound, CloseRaises, CtrlC, Killed, RequestStop, Over, NextBatch, Rows, Batch
    <3>2. CASE \E o \in Sees : Fetch(o)
      <4>1. PICK o \in Sees : Fetch(o)
        BY <3>2
      <4> DEFINE row == Attempt(o)
                 one == <<row>>
      <4>2. disk' = Written(row) /\ Batch' = Batch /\ row.batch = Batch.index
        BY <4>1 DEF Fetch, Attempt, Batch
      <4> HIDE DEF row
      <4>3. IsSeq(one) /\ Grown(disk, disk', one) /\ DOMAIN one = {1} /\ one[1] = row /\ Len(one) = 1
        BY <1>0, <2>0, <4>2, BegunHasFile, OneGrown, Singleton
      <4> HIDE DEF one
      <4>4. Len(Rows') = Len(Rows) + 1 /\ Rows'[Len(Rows) + 1] = row
        BY <1>0, <2>0, <4>3, RowsOfGrown
      <4> QED BY <4>2, <4>4
    <3>3. CASE pc = "judge" /\ Rows' = Rows /\ Batch' = Batch
      BY <3>3 DEF CountersInv
    <3> QED BY <3>1, <3>2, <3>3
  <2>2. ASSUME pc' # "over", ~swallowed', NEW c \in Cells, ~(pc' = "unwinding" /\ c = Cell')
        PROVE  Counts(breakers'[c], Heard(c)')
    <3>1. ~swallowed
      BY <1>2, <2>2, SwallowedStays, SMTT(60)
    <3>2. pc # "over"
      BY <1>2 DEF Next, RunnerStep, Finish, SkipTripped, StopAtHead, StopRaisesAtHead, TakeBatch,
       SkipIdentity, Launch, EngineUnavailable, WentDirect, WentDirectCloseRaises, SessionDies, Fetch,
       JudgeTransport, JudgeStop, JudgeStopRaises, JudgeRecord, BatchDone, CloseSession, Unwound,
       CloseRaises, CtrlC, Killed, RequestStop
    <3>3. CASE c # Cell \/ (~JudgeRecord /\ ~CloseSession)
      <4>1. Heard(c)' = Heard(c) /\ ~(pc = "unwinding" /\ c = Cell)
        BY <1>2, <2>2, <3>3, HeardStays
      <4>2. Counts(breakers[c], Heard(c))
        BY <2>0, <3>1, <3>2, <4>1 DEF CountersInv
      <4>3. SameCounts(c)
        BY <1>0, <1>2, <3>3, CountsStay
      <4> QED BY <4>1, <4>2, <4>3, CountsOfSame
    <3>4. CASE c = Cell /\ CloseSession
      <4>1. breakers'[c] = EndSession(breakers[c])
        BY <1>0, <3>4, CloseSessionBreakers
      <4>2. Heard(c)' = {}
        BY <3>4 DEF CloseSession, NextBatch, Heard
      <4>3. LET e == EndSession(breakers[c])
            IN  e.session_attempts = 0 /\ e.session_ok = 0 /\ e.session_arrived = 0
        BY <1>0, EndSessionFields
      <4> QED BY <4>1, <4>2, <4>3 DEF Counts
    <3>5. CASE c = Cell /\ JudgeRecord
      <4>1. /\ pc = "judge" /\ pc' = "session" /\ breakers'[c] = Record(breakers[c], Outcome)
            /\ Rows' = Rows /\ Cell' = Cell /\ Batch' = Batch
        <5>1. Rows' = Rows
          BY <1>0, <3>5, UnwrittenRows DEF Unwritten
        <5> QED BY <1>0, <3>5, <5>1 DEF JudgeRecord, Cell, Batch
      <4> DEFINE n == Len(Rows)
                 at == InSession(c, Batch.index)
      <4>2. n \in at /\ Rows[n].outcome = Outcome /\ Outcome \in Outcomes
        <5>1. Rows # <<>> /\ Rows[n].kind = "attempt" /\ Rows[n].cell = Cell /\ Rows[n].outcome \in Outcomes
          BY <1>0, <4>1 DEF JudgeInv
        <5>2. Rows[n].batch = Batch.index
          BY <4>1 DEF CountersInv
        <5>3. n \in DOMAIN Rows
          BY <1>0, <2>0, <5>1, BegunHasFile, EmptySeq, LenProperties DEF IsSeq
        <5> QED BY <3>5, <5>1, <5>2, <5>3 DEF InSession, AttemptRows, Outcome, Last
      <4>3. Heard(c) = {Rows[i].outcome : i \in at \ {n}}
        BY <3>5, <4>1 DEF Heard
      <4>4. Heard(c)' = {Rows[i].outcome : i \in at}
        BY <3>5, <4>1 DEF Heard, InSession
      <4> HIDE DEF at, n
      <4>5. Heard(c)' = Heard(c) \cup {Outcome}
        BY <4>2, <4>3, <4>4
      <4>6. Counts(breakers[c], Heard(c))
        BY <2>0, <3>1, <3>2, <4>1 DEF CountersInv
      <4>7. breakers[c] \in SessionBreakers
        BY <1>0
      <4> QED BY <4>1, <4>2, <4>5, <4>6, <4>7, RecordCounts
    <3> QED BY <3>3, <3>4, <3>5
  <2> QED BY <2>1, <2>2 DEF CountersInv
<1>3. CASE UNCHANGED vars
  <2>1. /\ disk' = disk /\ pc' = pc /\ breakers' = breakers /\ swallowed' = swallowed
        /\ Cell' = Cell /\ Batch' = Batch /\ Rows' = Rows
    BY <1>3 DEF vars, Rows, Cell, Batch
  <2>2. \A c \in Cells : Heard(c)' = Heard(c)
    BY <2>1 DEF Heard, InSession
  <2> QED BY <2>1, <2>2 DEF CountersInv
<1> QED BY <1>1, <1>2, <1>3

\* The rows of the closed sessions, the last one too, name what they were.
ClassInv ==
  disk # <<>> /\ ~swallowed =>
    \A i \in DOMAIN Rows :
      Rows[i].kind = "session_closed" => Rows[i].class = ClassOfRows(Rows, i)

Above(rows, i) == {k \in AttemptRows(rows) :
                     /\ k < i /\ rows[k].cell = rows[i].cell /\ rows[k].batch = rows[i].batch}
LEMMA ClassOfRowsIs ==
  ASSUME NEW rows, NEW i
  PROVE  ClassOfRows(rows, i) = ClassOfOutcomes({rows[j].outcome : j \in Above(rows, i)})
BY DEF ClassOfRows, ClassOfOutcomes, Above

LEMMA ClassStep ==
  ASSUME IInv, PlanInv, CountersInv, ClassInv, [Next]_vars
  PROVE  ClassInv'
<1>0. FileInv /\ JudgeInv /\ BreakerInv /\ breakers \in [Cells -> SessionBreakers]
  BY DEF IInv, BreakerInv
<1>1. CASE StartFresh \/ StartResumed
  <2>1. PICK skip : Start(skip)
    BY <1>1 DEF StartFresh, StartResumed
  <2>2. Rows' = <<>> /\ DOMAIN <<>> = {}
    BY <1>0, <2>1, StartRows
  <2> QED BY <2>2 DEF ClassInv
<1>2. CASE Next /\ ~StartFresh /\ ~StartResumed
  <2>1. PICK more : IsSeq(more) /\ Writes(more) /\ Grown(disk, disk', more)
    BY <1>0, <1>2, EveryStepWrites
  <2>2. pc # "idle" /\ disk # <<>>
    BY <1>0, <1>2, EveryStepWrites DEF IsFiles
  <2>3. /\ Len(Rows) \in Nat /\ DOMAIN Rows = 1..Len(Rows)
        /\ \A i \in DOMAIN Rows : i \in DOMAIN Rows' /\ Rows'[i] = Rows[i]
        /\ \A k \in DOMAIN more : Len(Rows) + k \in DOMAIN Rows' /\ Rows'[Len(Rows) + k] = more[k]
        /\ \A i \in DOMAIN Rows' : i \in DOMAIN Rows \/ \E k \in DOMAIN more : i = Len(Rows) + k
        /\ DOMAIN more \subseteq Nat \ {0}
    BY <1>0, <2>1, <2>2, RowsOfGrown
  <2> SUFFICES ASSUME ~swallowed', NEW i \in DOMAIN Rows', Rows'[i].kind = "session_closed"
               PROVE  Rows'[i].class = ClassOfRows(Rows', i)
    BY DEF ClassInv
  <2>4. ~swallowed
    BY <1>2, SwallowedStays
  <2>5. CASE i \in DOMAIN Rows
    <3>1. Rows'[i] = Rows[i] /\ Rows[i].class = ClassOfRows(Rows, i)
      BY <2>2, <2>3, <2>4, <2>5 DEF ClassInv
    <3>2. ASSUME NEW k \in AttemptRows(Rows'), k < i
          PROVE  k \in DOMAIN Rows
      <4>1. k \in DOMAIN Rows'
        BY DEF AttemptRows
      <4>2. CASE \E m \in DOMAIN more : k = Len(Rows) + m
        BY <2>3, <2>5, <3>2, <4>2
      <4> QED BY <2>3, <4>1, <4>2
    <3>3. Above(Rows', i) = Above(Rows, i)
      <4>1. ASSUME NEW k \in Above(Rows', i) PROVE k \in Above(Rows, i)
        BY <2>3, <3>1, <3>2, <4>1 DEF Above, AttemptRows
      <4>2. ASSUME NEW k \in Above(Rows, i) PROVE k \in Above(Rows', i)
        BY <2>3, <3>1, <4>2 DEF Above, AttemptRows
      <4> QED BY <4>1, <4>2
    <3>4. \A j \in Above(Rows, i) : Rows'[j].outcome = Rows[j].outcome
      BY <2>3 DEF Above, AttemptRows
    <3>5. {Rows'[j].outcome : j \in Above(Rows', i)} = {Rows[j].outcome : j \in Above(Rows, i)}
      BY <3>3, <3>4
    <3> QED BY <3>1, <3>5, ClassOfRowsIs
  <2>6. CASE i \notin DOMAIN Rows
    <3>1. PICK k \in DOMAIN more : i = Len(Rows) + k /\ Rows'[i] = more[k]
      BY <2>3, <2>6
    <3>2. CloseSession /\ (more = <<Closed>> \/ more = <<Closed, Stop>>)
      <4>1. /\ StopRow("operator").kind # "session_closed" /\ StopRow("transport").kind # "session_closed"
            /\ Skipped.kind # "session_closed" /\ Failed.kind # "session_closed"
            /\ DirectStop.kind # "session_closed" /\ Stop.kind # "session_closed"
            /\ \A o : Attempt(o).kind # "session_closed"
        BY DEF StopRow, Skipped, Failed, DirectStop, Stop, Attempt
      <4>2. \A x : x.kind # "session_closed" => \A n \in DOMAIN <<x>> : <<x>>[n].kind # "session_closed"
        OBVIOUS
      <4>3. \A x, y : x.kind # "session_closed" /\ y.kind # "session_closed" =>
              \A n \in DOMAIN <<x, y>> : <<x, y>>[n].kind # "session_closed"
        OBVIOUS
      <4>4. DOMAIN <<>> = {}
        OBVIOUS
      <4>5. more[k].kind = "session_closed"
        BY <3>1
      <4> QED BY <2>1, <4>1, <4>2, <4>3, <4>4, <4>5 DEF Writes
    <3>3. k = 1 /\ more[1] = Closed
      <4>1. \A x : DOMAIN <<x>> = {1} /\ <<x>>[1] = x
        OBVIOUS
      <4>2. \A x, y : DOMAIN <<x, y>> = {1, 2} /\ <<x, y>>[1] = x /\ <<x, y>>[2] = y
        OBVIOUS
      <4>3. Stop.kind # "session_closed" /\ more[k].kind = "session_closed"
        BY <3>1 DEF Stop
      <4> QED BY <3>2, <4>1, <4>2, <4>3
    <3> DEFINE row == Closed
    <3>4. /\ Rows'[i] = row /\ row.cell = Cell /\ row.batch = Batch.index
          /\ row.class = ClassOf(breakers[Cell])
      BY <3>1, <3>3 DEF Closed
    <3> HIDE DEF row
    <3>5. AttemptRows(Rows') = AttemptRows(Rows)
      <4>1. ~\E o \in Sees : Fetch(o)
        BY <3>2 DEF CloseSession, Fetch
      <4> QED BY <1>0, <2>1, <2>2, <4>1, AttemptsOfGrown
    <3>6. Above(Rows', i) = InSession(Cell, Batch.index)
      <4>1. \A j \in AttemptRows(Rows) : j < i /\ Rows'[j] = Rows[j]
        BY <2>3, <3>1, <3>3 DEF AttemptRows
      <4> QED BY <3>4, <3>5, <4>1 DEF Above, InSession
    <3>7. \A j \in InSession(Cell, Batch.index) : Rows'[j].outcome = Rows[j].outcome
      BY <2>3 DEF InSession, AttemptRows
    <3>8. {Rows'[j].outcome : j \in Above(Rows', i)} = {Rows[j].outcome : j \in InSession(Cell, Batch.index)}
      BY <3>6, <3>7
    <3>9. pc = "closing" /\ Cell \in Cells
      BY <3>2, InHand DEF CloseSession, PlanInv, Open
    <3>10. Heard(Cell) = {Rows[j].outcome : j \in InSession(Cell, Batch.index)}
      <4>1. {j \in InSession(Cell, Batch.index) : pc = "judge" => j # Len(Rows)} = InSession(Cell, Batch.index)
        BY <3>9
      <4> QED BY <3>9, <4>1 DEF Heard
    <3>11. Counts(breakers[Cell], Heard(Cell)) /\ breakers[Cell] \in SessionBreakers
      BY <1>0, <2>2, <2>4, <3>9 DEF CountersInv
    <3>12. ClassOf(breakers[Cell]) = ClassOfOutcomes(Heard(Cell))
      BY <3>11, ClassIs
    <3> QED BY <3>4, <3>8, <3>10, <3>12, ClassOfRowsIs
  <2> QED BY <2>5, <2>6
<1>3. CASE UNCHANGED vars
  <2>1. disk' = disk /\ swallowed' = swallowed /\ Rows' = Rows
    BY <1>3 DEF vars, Rows
  <2> QED BY <2>1 DEF ClassInv
<1> QED BY <1>1, <1>2, <1>3
----------------------------------------------------------------------------
(* A session that asked something has a row of its own where it was        *)
(* closed, after its attempts, and only one.                               *)

ClosedRows == {i \in DOMAIN Rows : Rows[i].kind = "session_closed"}
SettledInv ==
  pc # "idle" =>
    \A i \in AttemptRows(Rows) :
      \/ \E j \in ClosedRows : i < j /\ Session(j) = Session(i)
      \/ pc \in Open /\ Session(i) = <<Cell, Batch.index>>
      \/ pc = "over" /\ ending # "finished"
ClosedOnceInv ==
  pc # "idle" =>
    /\ \A i, j \in ClosedRows : Session(i) = Session(j) => i = j
    /\ \A i \in ClosedRows, k \in DOMAIN plan : Session(i) # <<plan[k].cell, plan[k].index>>

\* The summary speaks of every cell that was asked something.
PresentInv ==
  pc = "over" /\ ending = "finished" =>
    \A i \in AttemptRows(Rows) : Rows[i].cell \in Cells => printed[Rows[i].cell] # "absent"
ClosedInv == SettledInv /\ ClosedOnceInv /\ PresentInv

LEMMA ClosedInit == Init => ClosedInv
BY DEF Init, ClosedInv, SettledInv, ClosedOnceInv, PresentInv

\* Only closing a session writes its row.
LEMMA ClosedOfGrown ==
  ASSUME FileInv, pc # "idle", NEW more, IsSeq(more), Grown(disk, disk', more), Writes(more)
  PROVE  \/ ClosedRows' = ClosedRows /\ ~(pc = "closing" /\ pc' = "head")
         \/ /\ CloseSession /\ AttemptRows(Rows') = AttemptRows(Rows)
            /\ Len(Rows) + 1 \in DOMAIN Rows' /\ Rows'[Len(Rows) + 1] = Closed
            /\ ClosedRows' = ClosedRows \cup {Len(Rows) + 1}
<1>1. /\ Len(Rows) \in Nat /\ DOMAIN Rows = 1..Len(Rows)
      /\ \A i \in DOMAIN Rows : i \in DOMAIN Rows' /\ Rows'[i] = Rows[i]
      /\ \A k \in DOMAIN more : Len(Rows) + k \in DOMAIN Rows' /\ Rows'[Len(Rows) + k] = more[k]
      /\ \A i \in DOMAIN Rows' : i \in DOMAIN Rows \/ \E k \in DOMAIN more : i = Len(Rows) + k
  BY RowsOfGrown
<1>2. /\ StopRow("operator").kind # "session_closed" /\ StopRow("transport").kind # "session_closed"
      /\ Skipped.kind # "session_closed" /\ Failed.kind # "session_closed"
      /\ DirectStop.kind # "session_closed" /\ Stop.kind # "session_closed"
      /\ \A o : Attempt(o).kind # "session_closed"
      /\ Closed.kind = "session_closed" /\ DOMAIN <<>> = {}
  BY DEF StopRow, Skipped, Failed, DirectStop, Stop, Attempt, Closed
<1>3. /\ \A x : DOMAIN <<x>> = {1} /\ <<x>>[1] = x
      /\ \A x, y : DOMAIN <<x, y>> = {1, 2} /\ <<x, y>>[1] = x /\ <<x, y>>[2] = y
  OBVIOUS
<1>4. CASE CloseSession /\ (more = <<Closed>> \/ more = <<Closed, Stop>>)
  <2> DEFINE row == Closed
             n == Len(Rows) + 1
  <2>1. 1 \in DOMAIN more /\ more[1] = row
        /\ \A k \in DOMAIN more : k = 1 \/ more[k].kind # "session_closed"
    BY <1>2, <1>3, <1>4
  <2>2. row.kind = "session_closed"
    BY <1>2
  <2> HIDE DEF row
  <2>3. n \in DOMAIN Rows' /\ Rows'[n] = row
    BY <1>1, <2>1
  <2>4. ASSUME NEW i \in DOMAIN Rows', Rows'[i].kind = "session_closed"
        PROVE  i \in ClosedRows \cup {n}
    <3>1. CASE i \in DOMAIN Rows
      BY <1>1, <2>4, <3>1 DEF ClosedRows
    <3>2. CASE i \notin DOMAIN Rows
      <4>1. PICK k \in DOMAIN more : i = Len(Rows) + k
        BY <1>1, <3>2
      <4>2. k = 1
        BY <1>1, <2>1, <2>4, <4>1
      <4> QED BY <4>1, <4>2
    <3> QED BY <3>1, <3>2
  <2>5. \A i \in ClosedRows : i \in DOMAIN Rows' /\ Rows'[i].kind = "session_closed"
    BY <1>1 DEF ClosedRows
  <2>6. ClosedRows' = ClosedRows \cup {n}
    BY <2>2, <2>3, <2>4, <2>5 DEF ClosedRows
  <2>7. AttemptRows(Rows') = AttemptRows(Rows)
    <3>1. ~\E o \in Sees : Fetch(o)
      BY <1>4 DEF CloseSession, Fetch
    <3> QED BY <3>1, AttemptsOfGrown
  <2> QED BY <1>4, <2>3, <2>6, <2>7 DEF row
<1>5. CASE (\A k \in DOMAIN more : more[k].kind # "session_closed") /\ ~(pc = "closing" /\ pc' = "head")
  <2>1. ASSUME NEW i \in DOMAIN Rows', Rows'[i].kind = "session_closed" PROVE i \in DOMAIN Rows
    BY <1>1, <1>5, <2>1
  <2>2. \A i \in DOMAIN Rows : i \in DOMAIN Rows' /\ Rows'[i].kind = Rows[i].kind
    BY <1>1
  <2> QED BY <1>5, <2>1, <2>2 DEF ClosedRows
<1>6. \/ CloseSession /\ (more = <<Closed>> \/ more = <<Closed, Stop>>)
      \/ (\A k \in DOMAIN more : more[k].kind # "session_closed") /\ ~(pc = "closing" /\ pc' = "head")
  <2>1. \A x : x.kind # "session_closed" => \A k \in DOMAIN <<x>> : <<x>>[k].kind # "session_closed"
    OBVIOUS
  <2>2. \A x, y : x.kind # "session_closed" /\ y.kind # "session_closed" =>
          \A k \in DOMAIN <<x, y>> : <<x, y>>[k].kind # "session_closed"
    OBVIOUS
  <2>3. CASE CloseSession /\ (more = <<Closed>> \/ more = <<Closed, Stop>>)
    BY <2>3
  <2>4. CASE ~(CloseSession /\ (more = <<Closed>> \/ more = <<Closed, Stop>>))
    <3>1. \A k \in DOMAIN more : more[k].kind # "session_closed"
      BY <1>2, <2>1, <2>2, <2>4 DEF Writes
    <3>2. ~(pc = "closing" /\ pc' = "head")
      <4>1. Unwritten => ~(pc = "closing" /\ pc' = "head")
        BY DEF Unwritten, Finish, SkipTripped, StopRaisesAtHead, TakeBatch, Launch,
           EngineUnavailable, JudgeStop, JudgeRecord, BatchDone, Unwound, CtrlC, Killed, RequestStop, Over
      <4>2. StopAtHead \/ Unwound \/ SkipIdentity \/ SessionDies \/ JudgeStopRaises \/ CloseRaises
            \/ JudgeTransport \/ WentDirect \/ WentDirectCloseRaises \/ (\E o \in Sees : Fetch(o))
            => ~(pc = "closing" /\ pc' = "head")
        BY DEF StopAtHead, Unwound, SkipIdentity, SessionDies, JudgeStopRaises, CloseRaises,
           JudgeTransport, WentDirect, WentDirectCloseRaises, Fetch, Over
      <4> QED BY <2>4, <4>1, <4>2 DEF Writes
    <3> QED BY <3>1, <3>2
  <2> QED BY <2>3, <2>4
<1> QED BY <1>4, <1>5, <1>6

LEMMA SettledStep ==
  ASSUME FileInv, VerdictInv, PlanInv, AskedInv, SettledInv, [Next]_vars
  PROVE  SettledInv'
<1>1. CASE StartFresh \/ StartResumed
  <2>1. PICK skip : Start(skip)
    BY <1>1 DEF StartFresh, StartResumed
  <2>2. Rows' = <<>>
    BY <2>1, StartRows
  <2>3. AttemptRows(Rows') = {}
    BY <2>2 DEF AttemptRows
  <2> QED BY <2>3 DEF SettledInv
<1>2. CASE Next /\ ~StartFresh /\ ~StartResumed
  <2>1. PICK more : IsSeq(more) /\ Writes(more) /\ Grown(disk, disk', more)
    BY <1>2, EveryStepWrites
  <2>2. pc # "idle" /\ Moves
    BY <1>2, EveryStepWrites, EveryStepMoves
  <2>3. /\ DOMAIN Rows = 1..Len(Rows) /\ Len(Rows) \in Nat
        /\ \A i \in DOMAIN Rows : i \in DOMAIN Rows' /\ Rows'[i] = Rows[i]
    BY <2>1, <2>2, RowsOfGrown
  <2>4. \A i \in DOMAIN Rows : Session(i)' = Session(i)
    BY <2>3 DEF Session
  <2>5. \/ ClosedRows' = ClosedRows /\ ~(pc = "closing" /\ pc' = "head")
        \/ /\ CloseSession /\ AttemptRows(Rows') = AttemptRows(Rows)
           /\ Len(Rows) + 1 \in DOMAIN Rows' /\ Rows'[Len(Rows) + 1] = Closed
           /\ ClosedRows' = ClosedRows \cup {Len(Rows) + 1}
    BY <2>1, <2>2, ClosedOfGrown
  <2>6. ASSUME NEW i \in AttemptRows(Rows)
        PROVE  \/ \E j \in ClosedRows' : i < j /\ Session(j)' = Session(i)'
               \/ pc' \in Open /\ Session(i)' = <<Cell', Batch'.index>>
               \/ pc' = "over" /\ ending' # "finished"
    <3>0. i \in DOMAIN Rows /\ Session(i)' = Session(i)
      BY <2>4 DEF AttemptRows
    <3>1. CASE \E j \in ClosedRows : i < j /\ Session(j) = Session(i)
      <4>1. PICK j \in ClosedRows : i < j /\ Session(j) = Session(i)
        BY <3>1
      <4>2. j \in ClosedRows' /\ Session(j)' = Session(j)
        BY <2>4, <2>5 DEF ClosedRows
      <4> QED BY <3>0, <4>1, <4>2
    <3>2. CASE pc \in Open /\ Session(i) = <<Cell, Batch.index>>
      <4>1. plan # <<>>
        BY <3>2 DEF PlanInv
      <4>2. Batch = plan[1] /\ Cell = plan[1].cell /\ 1 \in DOMAIN plan
        BY <4>1, InHand, HeadOfPlan DEF PlanInv
      <4>3. CASE CloseSession /\ Len(Rows) + 1 \in DOMAIN Rows' /\ Rows'[Len(Rows) + 1] = Closed
                 /\ ClosedRows' = ClosedRows \cup {Len(Rows) + 1}
        <5>0. PICK n : n = Len(Rows) + 1
          OBVIOUS
        <5>1. Session(n)' = <<Cell, Batch.index>>
          BY <4>3, <5>0 DEF Session, Closed
        <5>2. i < n /\ n \in ClosedRows'
          BY <2>3, <3>0, <4>3, <5>0
        <5> QED BY <3>0, <3>2, <5>1, <5>2
      <4>4. CASE ~(pc = "closing" /\ pc' = "head")
        <5>1. CASE Passes
          <6>1. pc \in {"head", "identify"}
            BY <4>4, <5>1 DEF Passes
          <6>2. Session(i) # <<plan[1].cell, plan[1].index>>
            BY <2>2, <4>2, <6>1 DEF AskedInv
          <6> QED BY <3>2, <4>2, <6>2
        <5>2. CASE Takes
          BY <3>2, <5>2 DEF Takes, Open
        <5>3. CASE Asks
          BY <3>0, <3>2, <5>3 DEF Asks, Open, Cell, Batch
        <5>4. CASE Stays
          BY <3>0, <3>2, <5>4 DEF Stays, Open, Cell, Batch
        <5> QED BY <2>2, <5>1, <5>2, <5>3, <5>4 DEF Moves
      <4> QED BY <2>5, <4>3, <4>4
    <3>3. CASE pc = "over" /\ ending # "finished"
      BY <2>2, <3>3 DEF Moves, Passes, Takes, Asks, Stays, Open
    <3> QED BY <2>2, <3>1, <3>2, <3>3 DEF SettledInv
  <2>7. CASE AttemptRows(Rows') = AttemptRows(Rows)
    BY <2>6, <2>7 DEF SettledInv
  <2>8. ASSUME NEW o \in Sees, Fetch(o), Rows'[Len(Rows')] = Attempt(o),
               AttemptRows(Rows') = AttemptRows(Rows) \cup {Len(Rows')}
        PROVE  SettledInv'
    <3>0. PICK n : n = Len(Rows')
      OBVIOUS
    <3>1. plan' = plan /\ pc' = "judge"
      BY <2>8 DEF Fetch
    <3>2. Session(n)' = <<Cell', Batch'.index>>
      BY <2>8, <3>0, <3>1 DEF Session, Attempt, Cell, Batch
    <3>3. \A i \in AttemptRows(Rows') : i \in AttemptRows(Rows) \/ i = n
      BY <2>8, <3>0
    <3> QED BY <2>6, <3>1, <3>2, <3>3 DEF SettledInv, Open
  <2> QED BY <2>1, <2>2, <2>7, <2>8, AttemptsOfGrown
<1>3. CASE UNCHANGED vars
  BY <1>3 DEF SettledInv, ClosedRows, vars, Rows, Session, Cell, Batch
<1> QED BY <1>1, <1>2, <1>3

LEMMA ClosedOnceStep ==
  ASSUME FileInv, VerdictInv, PlanInv, ClosedOnceInv, [Next]_vars
  PROVE  ClosedOnceInv'
<1>1. CASE StartFresh \/ StartResumed
  <2>1. PICK skip : Start(skip)
    BY <1>1 DEF StartFresh, StartResumed
  <2>2. Rows' = <<>>
    BY <2>1, StartRows
  <2>3. ClosedRows' = {}
    BY <2>2 DEF ClosedRows
  <2> QED BY <2>3 DEF ClosedOnceInv
<1>2. CASE Next /\ ~StartFresh /\ ~StartResumed
  <2>1. PICK more : IsSeq(more) /\ Writes(more) /\ Grown(disk, disk', more)
    BY <1>2, EveryStepWrites
  <2>2. pc # "idle" /\ Moves
    BY <1>2, EveryStepWrites, EveryStepMoves
  <2>3. /\ DOMAIN Rows = 1..Len(Rows) /\ Len(Rows) \in Nat
        /\ \A i \in DOMAIN Rows : i \in DOMAIN Rows' /\ Rows'[i] = Rows[i]
    BY <2>1, <2>2, RowsOfGrown
  <2>4. \A i \in ClosedRows : i \in DOMAIN Rows /\ Session(i)' = Session(i)
    BY <2>3 DEF Session, ClosedRows
  <2>5. \/ ClosedRows' = ClosedRows
        \/ /\ CloseSession /\ Rows'[Len(Rows) + 1] = Closed
           /\ ClosedRows' = ClosedRows \cup {Len(Rows) + 1}
    BY <2>1, <2>2, ClosedOfGrown
  <2>6. /\ \A i, j \in ClosedRows : Session(i) = Session(j) => i = j
        /\ \A i \in ClosedRows, k \in DOMAIN plan : Session(i) # <<plan[k].cell, plan[k].index>>
    BY <2>2 DEF ClosedOnceInv
  <2>7. plan \in Seq(Batches) /\ InOrder(plan)
    BY DEF PlanInv
  <2>8. ASSUME NEW k \in DOMAIN plan'
        PROVE  \/ k \in DOMAIN plan /\ plan'[k] = plan[k]
               \/ k + 1 \in DOMAIN plan /\ k + 1 # 1 /\ plan'[k] = plan[k + 1]
    <3>1. CASE Passes
      <4>1. /\ DOMAIN plan' = 1..(Len(plan) - 1) /\ Len(plan) \in Nat /\ DOMAIN plan = 1..Len(plan)
            /\ \A j \in 1..(Len(plan) - 1) : plan'[j] = plan[j + 1] /\ j + 1 \in 1..Len(plan)
        BY <2>7, <3>1, HeadOfPlan DEF Passes
      <4> QED BY <2>8, <4>1
    <3>2. CASE Takes \/ Asks \/ Stays
      BY <2>8, <3>2 DEF Takes, Asks, Stays
    <3> QED BY <2>2, <3>1, <3>2 DEF Moves
  <2>9. \A i \in ClosedRows, k \in DOMAIN plan' : Session(i)' # <<plan'[k].cell, plan'[k].index>>
    BY <2>4, <2>6, <2>8
  <2>10. CASE ClosedRows' = ClosedRows
    BY <2>4, <2>6, <2>9, <2>10 DEF ClosedOnceInv
  <2>11. CASE CloseSession /\ Rows'[Len(Rows) + 1] = Closed
              /\ ClosedRows' = ClosedRows \cup {Len(Rows) + 1}
    <3>0. PICK n : n = Len(Rows) + 1
      OBVIOUS
    <3>1. plan # <<>> /\ plan' = Tail(plan)
      BY <2>11 DEF CloseSession, NextBatch, PlanInv, Open
    <3>2. /\ Cell = plan[1].cell /\ Batch = plan[1] /\ 1 \in DOMAIN plan
      BY <2>7, <3>1, InHand, HeadOfPlan
    <3>3. Session(n)' = <<plan[1].cell, plan[1].index>>
      BY <2>11, <3>0, <3>2 DEF Session, Closed
    <3>4. \A i \in ClosedRows : Session(i)' # Session(n)'
      BY <2>4, <2>6, <3>2, <3>3
    <3>5. ASSUME NEW k \in DOMAIN plan' PROVE Session(n)' # <<plan'[k].cell, plan'[k].index>>
      <4>1. /\ DOMAIN plan' = 1..(Len(plan) - 1) /\ Len(plan) \in Nat /\ DOMAIN plan = 1..Len(plan)
            /\ \A j \in 1..(Len(plan) - 1) : plan'[j] = plan[j + 1] /\ j + 1 \in 1..Len(plan)
        BY <2>7, <3>1, HeadOfPlan
      <4>2. plan'[k] = plan[k + 1] /\ k + 1 \in 1..Len(plan) /\ 1 < k + 1 /\ 1 \in 1..Len(plan)
        BY <3>2, <3>5, <4>1
      <4>3. plan[1].cell = plan[k + 1].cell => plan[1].index # plan[k + 1].index
        BY <2>7, <4>2 DEF InOrder
      <4> QED BY <3>3, <4>2, <4>3
    <3>6. ClosedRows' = ClosedRows \cup {n}
      BY <2>11, <3>0
    <3>7. \A i, j \in ClosedRows' : Session(i)' = Session(j)' => i = j
      BY <2>4, <2>6, <3>4, <3>6
    <3>8. \A i \in ClosedRows', k \in DOMAIN plan' : Session(i)' # <<plan'[k].cell, plan'[k].index>>
      BY <2>9, <3>5, <3>6
    <3> QED BY <3>7, <3>8 DEF ClosedOnceInv
  <2> QED BY <2>5, <2>10, <2>11
<1>3. CASE UNCHANGED vars
  BY <1>3 DEF ClosedOnceInv, ClosedRows, vars, Rows, Session
<1> QED BY <1>1, <1>2, <1>3

LEMMA PresentStep ==
  ASSUME FileInv, VerdictInv, PresentInv, [Next]_vars
  PROVE  PresentInv'
<1>1. CASE Finish
  <2>1. printed' = Summary /\ disk' = disk
    BY <1>1 DEF Finish, Over
  <2>2. Rows' = Rows
    BY <2>1 DEF Rows
  <2>3. \A i \in AttemptRows(Rows) : Rows[i].cell \in Cells => Summary[Rows[i].cell] # "absent"
    BY DEF Summary
  <2> QED BY <2>1, <2>2, <2>3 DEF PresentInv
<1>2. CASE UNCHANGED vars
  BY <1>2 DEF vars, PresentInv, Rows
<1>3. CASE pc' # "over" \/ ending' # "finished"
  BY <1>3 DEF PresentInv
<1>4. CASE StartFresh \/ StartResumed
  BY <1>3, <1>4 DEF StartFresh, StartResumed, Start
<1>5. CASE StopAtHead \/ StopRaisesAtHead \/ Unwound \/ CtrlC \/ Killed
  <2>1. pc' = "unwinding" \/ ending' \in {"operator", "crashed", "ctrl_c", "killed", raised}
    BY <1>5 DEF StopAtHead, StopRaisesAtHead, Unwound, CtrlC, Killed, Over
  <2> QED BY <1>3, <2>1 DEF VerdictInv
<1>6. CASE SkipTripped \/ TakeBatch \/ SkipIdentity \/ Launch \/ EngineUnavailable \/ WentDirect
  BY <1>3, <1>6 DEF SkipTripped, TakeBatch, SkipIdentity, Launch, EngineUnavailable, WentDirect,
                    NextBatch
<1>7. CASE WentDirectCloseRaises \/ SessionDies \/ JudgeTransport \/ JudgeStop \/ JudgeStopRaises
  BY <1>3, <1>7 DEF WentDirectCloseRaises, SessionDies, JudgeTransport, JudgeStop, JudgeStopRaises
<1>8. CASE JudgeRecord \/ BatchDone \/ CloseSession \/ CloseRaises \/ (\E o \in Sees : Fetch(o))
  BY <1>3, <1>8 DEF JudgeRecord, BatchDone, CloseSession, NextBatch, CloseRaises, Fetch
<1>9. CASE \E answer \in Answerable \cup Raising : RequestStop(answer)
  BY <1>3, <1>9 DEF RequestStop
<1> QED
  BY <1>1, <1>2, <1>4, <1>5, <1>6, <1>7, <1>8, <1>9 DEF Next, RunnerStep

LEMMA ClosedStep ==
  ASSUME FileInv, VerdictInv, PlanInv, AskedInv, ClosedInv, [Next]_vars
  PROVE  ClosedInv'
BY SettledStep, ClosedOnceStep, PresentStep DEF ClosedInv
----------------------------------------------------------------------------
(* The throughput an attempt carries is its session's, and no more         *)
(* sessions have one than the budget allows.                               *)

Timed == {i \in AttemptRows(Rows) : Rows[i].timed}
Measuring == IF pc \in Open /\ speed.reading # NotMeasured THEN {<<Cell, Batch.index>>} ELSE {}
Read == {Session(i) : i \in Timed} \cup Measuring

BudgetInv ==
  /\ DOMAIN speed.budget = {"limit", "spent"}
  /\ speed.budget.limit = LimitOf(Downloads) /\ speed.budget.spent \in Nat
  /\ LimitOf(Downloads) # NoCap => speed.budget.spent <= LimitOf(Downloads)
  /\ pc \in Open /\ speed.reading = NotMeasured => ~MayTake(speed.budget)
\* A session without a reading is of a spent budget, and so is all after it.
RowsReadInv ==
  pc # "idle" =>
    /\ \A i \in AttemptRows(Rows) : ~Rows[i].timed =>
         /\ ~MayTake(speed.budget)
         /\ pc \in Open => speed.reading = NotMeasured
    /\ \A i, j \in AttemptRows(Rows) : /\ Session(i) = Session(j) => Rows[i].timed = Rows[j].timed
                                       /\ j \in Timed /\ i < j => i \in Timed
    /\ pc \in Open => \A i \in AttemptRows(Rows) : Session(i) = <<Cell, Batch.index>> =>
                        Rows[i].timed = (speed.reading # NotMeasured)
ReadCountInv ==
  pc # "idle" /\ LimitOf(Downloads) # NoCap => Cardinality(Read) <= speed.budget.spent
ReadingInv == BudgetInv /\ RowsReadInv /\ ReadCountInv

LEMMA LimitIs == LimitOf(Downloads) \in Nat \cup {NoCap}
<1>1. Downloads.word \in OFF \cup ALL \cup {"number"} /\ Downloads.count \in Nat
  BY RunAssumption
<1> QED BY <1>1 DEF LimitOf, OFF, ALL

LEMMA ReadingsMeasure == \A reading \in Readings(1) : reading # NotMeasured
<1> SUFFICES ASSUME NEW arrived \in 0..1, NEW dies \in BOOLEAN
             PROVE  Measured(1, arrived, dies) # NotMeasured
  BY DEF Readings
<1>1. NotMeasured.bytes = -1 /\ NotMeasured.error = FALSE
  BY DEF NotMeasured
<1>2. CASE dies
  <2>1. Measured(1, arrived, dies).error = TRUE
    BY <1>2 DEF Measured
  <2> QED BY <1>1, <2>1
<1>3. CASE ~dies
  <2>1. Measured(1, arrived, dies).bytes = arrived
    BY <1>3 DEF Measured
  <2> QED BY <1>1, <2>1
<1> QED BY <1>2, <1>3

\* A budget that grants a session has one less to grant.
LEMMA TakeIs ==
  ASSUME NEW b, b.limit = LimitOf(Downloads), b.spent \in Nat,
         DOMAIN b = {"limit", "spent"}
  PROVE  /\ MayTake(b) => /\ Take(b).limit = b.limit /\ Take(b).spent = b.spent + 1
                          /\ b.limit # NoCap => b.spent + 1 <= b.limit
         /\ ~MayTake(b) => Take(b) = b /\ b.limit # NoCap
         /\ DOMAIN Take(b) = {"limit", "spent"}
<1>1. LimitOf(Downloads) \in Nat \cup {NoCap}
  BY LimitIs
<1> QED BY <1>1 DEF MayTake, Take, NoCap

LEMMA SpeedMoves ==
  ASSUME Next, ~StartFresh, ~StartResumed
  PROVE  TakeBatch \/ speed' = speed
<1>1. CASE Finish \/ StopAtHead \/ Unwound \/ CtrlC
  BY <1>1 DEF Finish, StopAtHead, Unwound, CtrlC
<1>2. CASE SkipTripped \/ StopRaisesAtHead \/ SkipIdentity \/ Launch \/ EngineUnavailable
  BY <1>2 DEF SkipTripped, StopRaisesAtHead, SkipIdentity, Launch, EngineUnavailable
<1>3. CASE WentDirect \/ WentDirectCloseRaises \/ SessionDies \/ BatchDone \/ CloseSession
  BY <1>3 DEF WentDirect, WentDirectCloseRaises, SessionDies, BatchDone, CloseSession
<1>4. CASE JudgeTransport \/ JudgeStop \/ JudgeStopRaises \/ JudgeRecord
  BY <1>4 DEF JudgeTransport, JudgeStop, JudgeStopRaises, JudgeRecord
<1>5. CASE CloseRaises \/ Killed \/ \E o \in Sees : Fetch(o)
  BY <1>5 DEF CloseRaises, Killed, Fetch
<1>6. CASE \E answer \in Answerable \cup Raising : RequestStop(answer)
  BY <1>6 DEF RequestStop
<1> QED
  BY <1>1, <1>2, <1>3, <1>4, <1>5, <1>6 DEF Next, RunnerStep

LEMMA ReadFinite ==
  ASSUME FileInv, pc # "idle"
  PROVE  IsFiniteSet(Read)
<1>1. IsFiniteSet(DOMAIN Rows)
  <2>1. IsSeq(Rows) /\ Len(Rows) \in Nat
    BY BegunHasFile
  <2>2. DOMAIN Rows = 1..Len(Rows)
    BY <2>1, LenProperties DEF IsSeq
  <2> QED BY <2>1, <2>2, FS_Interval
<1>2. IsFiniteSet(Timed)
  <2>1. Timed \subseteq DOMAIN Rows
    BY DEF Timed, AttemptRows
  <2> QED BY <1>1, <2>1, FS_Subset
<1>3. IsFiniteSet({Session(i) : i \in Timed})
  <2> DEFINE f == [i \in Timed |-> Session(i)]
             T == {Session(i) : i \in Timed}
  <2>1. f \in Surjection(Timed, T)
    BY DEF Surjection
  <2> QED BY <1>2, <2>1, FS_Surjection
<1> DEFINE T == {Session(i) : i \in Timed}
<1>4. IsFiniteSet(T \cup {<<Cell, Batch.index>>})
  BY <1>3, FS_AddElement
<1>5. Measuring = {} \/ Measuring = {<<Cell, Batch.index>>}
  BY DEF Measuring
<1> HIDE DEF T
<1>6. IsFiniteSet(T \cup Measuring)
  BY <1>4, <1>5, <1>3 DEF T
<1> QED BY <1>6 DEF Read, T

LEMMA ReadingInit == Init => ReadingInv
<1> SUFFICES ASSUME Init PROVE ReadingInv
  OBVIOUS
<1>1. pc = "idle" /\ speed.budget = NewBudget(LimitOf(Downloads))
  BY DEF Init, NoSpeed
<1>2. LimitOf(Downloads) \in Nat \cup {NoCap}
  BY LimitIs
<1> QED BY <1>1, <1>2 DEF ReadingInv, BudgetInv, RowsReadInv, ReadCountInv, NewBudget, Open, NoCap

\* A run starts with its budget unspent and no row.
LEMMA ReadingStart ==
  ASSUME FileInv, StartFresh \/ StartResumed
  PROVE  ReadingInv'
<1>1. PICK skip : Start(skip)
  BY DEF StartFresh, StartResumed
<1>2. pc' = "head" /\ speed' = NoSpeed /\ Rows' = <<>>
  BY <1>1, StartRows DEF Start
<1>3. AttemptRows(Rows') = {}
  BY <1>2 DEF AttemptRows
<1>4. speed'.budget = [limit |-> LimitOf(Downloads), spent |-> 0]
  BY <1>2 DEF NoSpeed, NewBudget
<1>5. LimitOf(Downloads) \in Nat \cup {NoCap}
  BY LimitIs
<1>6. BudgetInv'
  BY <1>2, <1>4, <1>5 DEF BudgetInv, Open, NoCap
<1>7. RowsReadInv'
  BY <1>3 DEF RowsReadInv, Timed
<1>8. Read' = {}
  BY <1>2, <1>3 DEF Read, Timed, Measuring, Open
<1>9. ReadCountInv'
  <2>1. Cardinality({}) = 0
    BY FS_EmptySet
  <2> QED BY <1>4, <1>5, <1>8, <2>1 DEF ReadCountInv, NoCap
<1> QED BY <1>6, <1>7, <1>9 DEF ReadingInv

\* Nothing is asked and no reading taken.
Unread ==
  /\ speed' = speed /\ pc # "idle"
  /\ AttemptRows(Rows') = AttemptRows(Rows)
  /\ \A i \in AttemptRows(Rows) : Rows'[i] = Rows[i]
  /\ pc' \in Open => pc \in Open /\ Cell' = Cell /\ Batch' = Batch

LEMMA UnreadStep ==
  ASSUME FileInv, ReadingInv, Unread
  PROVE  ReadingInv'
<1>0. /\ speed' = speed /\ pc # "idle"
      /\ AttemptRows(Rows') = AttemptRows(Rows)
      /\ \A i \in AttemptRows(Rows) : Rows'[i] = Rows[i]
      /\ pc' \in Open => pc \in Open /\ Cell' = Cell /\ Batch' = Batch
  BY DEF Unread
<1>1. BudgetInv'
  BY <1>0 DEF ReadingInv, BudgetInv
<1>2. Timed' = Timed /\ \A i \in AttemptRows(Rows) : Session(i)' = Session(i)
  BY <1>0 DEF Timed, Session
<1>3. RowsReadInv'
  <2> SUFFICES /\ \A i \in AttemptRows(Rows) : ~Rows'[i].timed =>
                    /\ ~MayTake(speed.budget)
                    /\ pc' \in Open => speed.reading = NotMeasured
               /\ \A i, j \in AttemptRows(Rows) :
                    /\ Session(i)' = Session(j)' => Rows'[i].timed = Rows'[j].timed
                    /\ j \in Timed /\ i < j => i \in Timed
               /\ pc' \in Open => \A i \in AttemptRows(Rows) :
                    Session(i)' = <<Cell', Batch'.index>> =>
                      Rows'[i].timed = (speed.reading # NotMeasured)
    BY <1>0, <1>2 DEF RowsReadInv
  <2> QED BY <1>0, <1>2 DEF ReadingInv, RowsReadInv
<1>4. Read' \subseteq Read
  <2>1. {Session(i)' : i \in Timed'} = {Session(i) : i \in Timed}
    BY <1>2 DEF Timed
  <2>2. Measuring' \subseteq Measuring
    BY <1>0 DEF Measuring
  <2> QED BY <2>1, <2>2 DEF Read
<1>5. ReadCountInv'
  <2>1. IsFiniteSet(Read)
    BY <1>0, ReadFinite
  <2>2. IsFiniteSet(Read') /\ Cardinality(Read') <= Cardinality(Read)
    BY <1>4, <2>1, FS_Subset
  <2>3. Cardinality(Read) \in Nat /\ Cardinality(Read') \in Nat
    BY <2>1, <2>2, FS_CardinalityType
  <2> QED BY <1>0, <2>2, <2>3 DEF ReadCountInv, ReadingInv, BudgetInv
<1> QED BY <1>1, <1>3, <1>5 DEF ReadingInv

\* A session is granted a download or not; none of its rows is there yet.
LEMMA TakeBatchStep ==
  ASSUME IInv, PlanInv, AskedInv, ReadingInv, TakeBatch
  PROVE  ReadingInv'
<1>0. FileInv /\ pc = "head" /\ pc # "idle" /\ pc' = "identify" /\ pc' \in Open /\ plan # <<>> /\ plan' = plan
  BY DEF IInv, TakeBatch, Open
<1>1. Rows' = Rows /\ AttemptRows(Rows') = AttemptRows(Rows) /\ Cell' = Cell /\ Batch' = Batch
  <2>1. Rows' = Rows
    BY <1>0, UnwrittenRows DEF Unwritten
  <2> QED BY <1>0, <2>1 DEF Cell, Batch
<1>2. InSession(Cell, Batch.index) = {}
  BY <1>0, NothingAsked
<1>3. \A i \in AttemptRows(Rows) : Session(i)' = Session(i) /\ Session(i) # <<Cell, Batch.index>>
  BY <1>1, <1>2 DEF InSession, Session
<1>4. PICK reading \in IF MayTake(speed.budget) THEN Readings(1) ELSE {NotMeasured} :
        speed' = [budget |-> Take(speed.budget), reading |-> reading]
  BY DEF TakeBatch
<1> DEFINE b == speed.budget
           taken == Take(b)
<1>5. /\ DOMAIN b = {"limit", "spent"} /\ b.limit = LimitOf(Downloads) /\ b.spent \in Nat
      /\ LimitOf(Downloads) # NoCap => b.spent <= LimitOf(Downloads)
  BY DEF ReadingInv, BudgetInv
<1>6. LimitOf(Downloads) \in Nat \cup {NoCap} /\ NoCap = -1
  BY LimitIs DEF NoCap
<1>7. speed'.budget = taken /\ speed'.reading = reading
  BY <1>4
<1>8. /\ MayTake(b) => taken.limit = b.limit /\ taken.spent = b.spent + 1
                       /\ (b.limit # NoCap => b.spent + 1 <= b.limit)
      /\ ~MayTake(b) => taken = b /\ b.limit # NoCap
      /\ DOMAIN taken = {"limit", "spent"}
  BY <1>5, TakeIs
<1>9. /\ MayTake(b) => reading # NotMeasured
      /\ ~MayTake(b) => reading = NotMeasured
  BY <1>4, ReadingsMeasure
<1> HIDE DEF b, taken
<1>10. BudgetInv'
  <2>1. CASE MayTake(b)
    BY <1>5, <1>6, <1>7, <1>8, <1>9, <2>1 DEF BudgetInv
  <2>2. CASE ~MayTake(b)
    BY <1>5, <1>6, <1>7, <1>8, <1>9, <2>2 DEF BudgetInv
  <2> QED BY <2>1, <2>2
<1>11. Timed' = Timed
  BY <1>1 DEF Timed
<1>12. RowsReadInv'
  <2>1. ASSUME NEW i \in AttemptRows(Rows), ~Rows[i].timed
        PROVE  ~MayTake(taken) /\ reading = NotMeasured
    <3>1. ~MayTake(b)
      BY <1>0, <2>1 DEF ReadingInv, RowsReadInv, b
    <3> QED BY <1>8, <1>9, <3>1
  <2>2. \A i, j \in AttemptRows(Rows) :
          /\ Session(i) = Session(j) => Rows[i].timed = Rows[j].timed
          /\ j \in Timed /\ i < j => i \in Timed
    BY <1>0 DEF ReadingInv, RowsReadInv
  <2> QED BY <1>1, <1>3, <1>7, <1>11, <2>1, <2>2 DEF RowsReadInv
<1>13. ReadCountInv'
  <2>1. IsFiniteSet(Read)
    BY <1>0, ReadFinite
  <2>2. {Session(i)' : i \in Timed'} = {Session(i) : i \in Timed}
    BY <1>3, <1>11 DEF Timed
  <2>3. Measuring = {}
    BY <1>0 DEF Measuring, Open
  <2>4. CASE MayTake(b)
    <3>1. Measuring' = {<<Cell, Batch.index>>}
      BY <1>0, <1>1, <1>7, <1>9, <2>4 DEF Measuring
    <3>2. Read' = Read \cup {<<Cell, Batch.index>>}
      BY <2>2, <2>3, <3>1 DEF Read
    <3>3. Cardinality(Read') <= Cardinality(Read) + 1
      <4>1. Cardinality(Read) \in Nat
        BY <2>1, FS_CardinalityType
      <4> DEFINE new == <<Cell, Batch.index>>
      <4>2. Cardinality(Read \cup {new}) = IF new \in Read THEN Cardinality(Read) ELSE Cardinality(Read) + 1
        BY <2>1, FS_AddElement
      <4> HIDE DEF new
      <4>3. Cardinality(Read \cup {new}) <= Cardinality(Read) + 1
        BY <4>1, <4>2
      <4> QED BY <3>2, <4>3 DEF new
    <3>4. IsFiniteSet(Read')
      BY <2>1, <3>2, FS_AddElement
    <3>5. Cardinality(Read) \in Nat /\ Cardinality(Read') \in Nat
      BY <2>1, <3>4, FS_CardinalityType
    <3>6. LimitOf(Downloads) # NoCap => Cardinality(Read) <= b.spent
      BY <1>0 DEF ReadingInv, ReadCountInv, b
    <3> QED BY <1>5, <1>7, <1>8, <2>4, <3>3, <3>5, <3>6 DEF ReadCountInv
  <2>5. CASE ~MayTake(b)
    <3>1. Measuring' = {}
      BY <1>7, <1>9, <2>5 DEF Measuring
    <3>2. Read' = Read
      BY <2>2, <2>3, <3>1 DEF Read
    <3>3. speed'.budget = speed.budget
      BY <1>7, <1>8, <2>5 DEF b
    <3> QED BY <1>0, <3>2, <3>3 DEF ReadingInv, ReadCountInv
  <2> QED BY <2>4, <2>5
<1> QED BY <1>10, <1>12, <1>13 DEF ReadingInv

\* The row of an attempt carries what its session's download said.
LEMMA FetchReads ==
  ASSUME IInv, PlanInv, ReadingInv, NEW o \in Sees, Fetch(o),
         Len(Rows') = Len(Rows) + 1, Rows'[Len(Rows')] = Attempt(o),
         AttemptRows(Rows') = AttemptRows(Rows) \cup {Len(Rows')},
         \A i \in AttemptRows(Rows) : Rows'[i] = Rows[i] /\ i \in 1..Len(Rows),
         Len(Rows) \in Nat
  PROVE  ReadingInv'
<1> DEFINE measured == speed.reading # NotMeasured
<1>last. PICK n : n = Len(Rows')
  OBVIOUS
<1>0. /\ pc = "session" /\ pc' = "judge" /\ pc \in Open /\ pc' \in Open /\ pc # "idle" /\ speed' = speed
      /\ plan' = plan /\ Cell' = Cell /\ Batch' = Batch
  BY DEF Fetch, Open, Cell, Batch
<1>1. Rows'[n].timed = measured /\ Session(n)' = <<Cell, Batch.index>>
  <2>1. Rows'[n].cell = Cell /\ Rows'[n].batch = Batch.index
    BY <1>last, AttemptIs
  <2>2. Attempt(o).timed = measured
    BY DEF Attempt
  <2> QED BY <1>last, <2>1, <2>2 DEF Session
<1>2. \A i \in AttemptRows(Rows) : Session(i)' = Session(i) /\ Rows'[i] = Rows[i] /\ i < n
  BY <1>last DEF Session
<1>3. AttemptRows(Rows') = AttemptRows(Rows) \cup {n}
  BY <1>last
<1> HIDE DEF measured
<1>4. /\ \A i \in AttemptRows(Rows) : ~Rows[i].timed => ~MayTake(speed.budget) /\ ~measured
      /\ \A i, j \in AttemptRows(Rows) : /\ Session(i) = Session(j) => Rows[i].timed = Rows[j].timed
                                         /\ j \in Timed /\ i < j => i \in Timed
      /\ \A i \in AttemptRows(Rows) : Session(i) = <<Cell, Batch.index>> => Rows[i].timed = measured
  BY <1>0 DEF ReadingInv, RowsReadInv, measured
<1>5. ~measured => ~MayTake(speed.budget)
  BY <1>0 DEF ReadingInv, BudgetInv, measured
<1>6. BudgetInv'
  BY <1>0 DEF ReadingInv, BudgetInv
<1>7. Timed' = Timed \cup (IF measured THEN {n} ELSE {})
  BY <1>1, <1>2, <1>3 DEF Timed
<1>8. RowsReadInv'
  <2>1. ASSUME NEW i \in AttemptRows(Rows'), ~Rows'[i].timed
        PROVE  ~MayTake(speed.budget) /\ ~measured
    BY <1>1, <1>2, <1>3, <1>4, <1>5, <2>1
  <2>2. ASSUME NEW i \in AttemptRows(Rows'), Session(i)' = <<Cell, Batch.index>>
        PROVE  Rows'[i].timed = measured
    BY <1>1, <1>2, <1>3, <1>4, <2>2
  <2>3. ASSUME NEW i \in AttemptRows(Rows'), NEW j \in AttemptRows(Rows'), Session(i)' = Session(j)'
        PROVE  Rows'[i].timed = Rows'[j].timed
    <3>0. Session(i)' = <<Cell, Batch.index>> <=> Session(j)' = <<Cell, Batch.index>>
      BY <2>3
    <3>1. CASE i = n \/ j = n
      <4>1. Session(i)' = <<Cell, Batch.index>> /\ Session(j)' = <<Cell, Batch.index>>
        BY <1>1, <3>0, <3>1
      <4> QED BY <2>2, <4>1
    <3>2. CASE i # n /\ j # n
      BY <1>2, <1>3, <1>4, <2>3, <3>2
    <3> QED BY <3>1, <3>2
  <2>4. ASSUME NEW i \in AttemptRows(Rows'), NEW j \in AttemptRows(Rows'), j \in Timed', i < j
        PROVE  i \in Timed'
    <3>0. i # n /\ i \in AttemptRows(Rows)
      <4>1. n \in Nat /\ \A k \in AttemptRows(Rows) : k \in Nat
        BY <1>last
      <4> QED BY <1>2, <1>3, <2>4, <4>1
    <3>1. CASE j = n
      <4>1. measured
        <5>1. n \notin Timed
          <6>1. n \notin AttemptRows(Rows)
            BY <1>last
          <6> QED BY <6>1 DEF Timed
        <5> QED BY <1>7, <2>4, <3>1, <5>1
      <4>2. Rows[i].timed
        BY <1>4, <3>0, <4>1
      <4> QED BY <1>7, <3>0, <4>2 DEF Timed
    <3>2. CASE j # n
      <4>1. j \in AttemptRows(Rows) /\ j \in Timed
        BY <1>3, <1>7, <2>4, <3>2
      <4> QED BY <1>4, <1>7, <2>4, <3>0, <4>1
    <3> QED BY <3>1, <3>2
  <2> QED BY <1>0, <2>1, <2>2, <2>3, <2>4 DEF RowsReadInv, measured
<1>9. Read' = Read
  <2>1. {Session(i)' : i \in Timed} = {Session(i) : i \in Timed}
    BY <1>2 DEF Timed
  <2>2. Measuring' = Measuring
    BY <1>0 DEF Measuring
  <2>3. CASE measured
    <3>1. Measuring = {<<Cell, Batch.index>>}
      BY <1>0, <2>3 DEF Measuring, measured
    <3>2. {Session(i)' : i \in Timed'} = {Session(i) : i \in Timed} \cup {<<Cell, Batch.index>>}
      <4>1. Timed' = Timed \cup {n}
        BY <1>7, <2>3
      <4>2. {Session(i)' : i \in Timed \cup {n}} = {Session(i)' : i \in Timed} \cup {Session(n)'}
        BY DEF Session
      <4> QED BY <1>1, <2>1, <4>1, <4>2
    <3> QED BY <2>2, <3>1, <3>2 DEF Read
  <2>4. CASE ~measured
    <3>1. {Session(i)' : i \in Timed'} = {Session(i) : i \in Timed}
      BY <1>7, <2>1, <2>4
    <3> QED BY <2>2, <3>1 DEF Read
  <2> QED BY <2>3, <2>4
<1>10. ReadCountInv'
  BY <1>0, <1>9 DEF ReadingInv, ReadCountInv
<1> QED BY <1>6, <1>8, <1>10 DEF ReadingInv

LEMMA ReadingStep ==
  ASSUME IInv, PlanInv, AskedInv, ReadingInv, [Next]_vars
  PROVE  ReadingInv'
<1>0. FileInv /\ VerdictInv
  BY DEF IInv
<1>1. CASE StartFresh \/ StartResumed
  BY <1>0, <1>1, ReadingStart
<1>2. CASE Next /\ ~StartFresh /\ ~StartResumed
  <2>1. PICK more : IsSeq(more) /\ Writes(more) /\ Grown(disk, disk', more)
    BY <1>0, <1>2, EveryStepWrites
  <2>2. pc # "idle" /\ Moves
    BY <1>0, <1>2, EveryStepWrites, EveryStepMoves
  <2>3. /\ Len(Rows) \in Nat /\ DOMAIN Rows = 1..Len(Rows)
        /\ \A i \in DOMAIN Rows : i \in DOMAIN Rows' /\ Rows'[i] = Rows[i]
    BY <1>0, <2>1, <2>2, RowsOfGrown
  <2>4. \A i \in AttemptRows(Rows) : Rows'[i] = Rows[i] /\ i \in 1..Len(Rows)
    BY <2>3 DEF AttemptRows
  <2>5. CASE TakeBatch
    BY <2>5, TakeBatchStep
  <2>6. CASE ~TakeBatch /\ AttemptRows(Rows') = AttemptRows(Rows)
    <3>1. speed' = speed
      BY <1>2, <2>6, SpeedMoves
    <3>2. pc' \in Open => pc \in Open /\ plan' = plan
      <4>1. ~Takes
        BY <1>2, <2>6 DEF Takes, Next, RunnerStep, Finish, SkipTripped, StopAtHead, StopRaisesAtHead,
         SkipIdentity, Launch, EngineUnavailable, WentDirect, WentDirectCloseRaises, SessionDies,
         JudgeTransport, JudgeStop, JudgeStopRaises, JudgeRecord, BatchDone, CloseSession,
         Unwound, CloseRaises, CtrlC, Killed, RequestStop, Over, NextBatch, Fetch
      <4> QED BY <2>2, <4>1, SMTT(60) DEF Moves, Passes, Asks, Stays, Open
    <3>3. pc' \in Open => pc \in Open /\ Cell' = Cell /\ Batch' = Batch
      BY <3>2 DEF Cell, Batch
    <3>4. Unread
      BY <2>2, <2>4, <2>6, <3>1, <3>3 DEF Unread
    <3> QED BY <1>0, <3>4, UnreadStep
  <2>7. ASSUME NEW o \in Sees, Fetch(o), Len(Rows') = Len(Rows) + 1, Rows'[Len(Rows')] = Attempt(o),
               AttemptRows(Rows') = AttemptRows(Rows) \cup {Len(Rows')}
        PROVE  ReadingInv'
    BY <2>3, <2>4, <2>7, FetchReads
  <2> QED BY <1>0, <2>1, <2>2, <2>5, <2>6, <2>7, AttemptsOfGrown
<1>3. CASE UNCHANGED vars
  <2>1. /\ disk' = disk /\ speed' = speed /\ pc' = pc /\ Cell' = Cell /\ Batch' = Batch /\ Rows' = Rows
    BY <1>3 DEF vars, Cell, Batch, Rows
  <2>2. CASE pc = "idle"
    BY <2>1, <2>2 DEF ReadingInv, BudgetInv, RowsReadInv, ReadCountInv
  <2>3. CASE pc # "idle"
    <3>1. Unread
      BY <2>1, <2>3 DEF Unread
    <3> QED BY <1>0, <3>1, UnreadStep
  <2> QED BY <2>2, <2>3
<1> QED BY <1>1, <1>2, <1>3
----------------------------------------------------------------------------
(* The two parts of the invariant together.                                *)

IdleInv == pc = "idle" => disk = <<>>

FullInv ==
  /\ IInv
  /\ IdleInv
  /\ FilesInv
  /\ PlanInv
  /\ AskedInv
  /\ MissingInv
  /\ TypesInv
  /\ WatchInv
  /\ WatchStopIsEvidence
  /\ CountersInv
  /\ ClassInv
  /\ ClosedInv
  /\ ReadingInv

LEMMA IdleStep ==
  ASSUME IdleInv, [Next]_vars
  PROVE  IdleInv'
<1>1. CASE UNCHANGED vars
  BY <1>1 DEF vars, IdleInv
<1>2. CASE StartFresh \/ StartResumed
  BY <1>2 DEF StartFresh, StartResumed, Start, IdleInv
<1>3. CASE RunnerStep \/ CtrlC \/ Killed
  BY <1>3 DEF IdleInv, RunnerStep, Finish, SkipTripped, StopAtHead, StopRaisesAtHead, TakeBatch,
     SkipIdentity, Launch, EngineUnavailable, WentDirect, WentDirectCloseRaises, SessionDies, Fetch,
     JudgeTransport, JudgeStop, JudgeStopRaises, JudgeRecord, BatchDone, CloseSession, Unwound,
     CloseRaises, CtrlC, Killed, Over, NextBatch
<1>4. CASE \E answer \in Answerable \cup Raising : RequestStop(answer)
  BY <1>4 DEF IdleInv, RequestStop
<1> QED BY <1>1, <1>2, <1>3, <1>4 DEF Next

LEMMA FullInit == Init => FullInv
<1> SUFFICES ASSUME Init PROVE FullInv
  OBVIOUS
<1>1. disk = <<>> /\ pc = "idle" /\ DOMAIN <<>> = {} /\ Len(<<>>) = 0
  BY DEF Init
<1>2. FilesInv
  BY <1>1, RunAssumption DEF FilesInv
<1>3. IdleInv /\ AskedInv /\ MissingInv /\ WatchStopIsEvidence /\ ClassInv
  BY <1>1 DEF IdleInv, AskedInv, MissingInv, WatchStopIsEvidence, ClassInv
<1> QED BY <1>2, <1>3, InitInvariant, PlanInit, TypesInit, WatchInit, CountersInit, ClosedInit,
           ReadingInit DEF FullInv

LEMMA FullStep == FullInv /\ [Next]_vars => FullInv'
<1> SUFFICES ASSUME FullInv, [Next]_vars PROVE FullInv'
  OBVIOUS
<1>1. /\ IInv /\ IdleInv /\ FilesInv /\ PlanInv /\ AskedInv /\ MissingInv /\ TypesInv
      /\ WatchInv /\ WatchStopIsEvidence /\ CountersInv /\ ClassInv /\ ClosedInv /\ ReadingInv
  BY DEF FullInv
<1>2. FileInv /\ JudgeInv /\ VerdictInv
  BY <1>1 DEF IInv
<1>3. IInv' /\ IdleInv' /\ FilesInv'
  <2>1. IInv'
    BY <1>1, StepInvariant
  <2>2. IdleInv'
    BY <1>1, IdleStep
  <2>3. FilesInv'
    BY <1>1, <1>2, FilesStep
  <2> QED BY <2>1, <2>2, <2>3
<1>4. PlanInv' /\ AskedInv' /\ MissingInv'
  BY <1>1, <1>2, PlanStep, AskedStep, MissingStep
<1>5. TypesInv' /\ WatchInv' /\ WatchStopIsEvidence'
  BY <1>1, <1>2, TypesStep, WatchStep, EvidenceStep
<1>6. CountersInv' /\ ClassInv' /\ ClosedInv' /\ ReadingInv'
  BY <1>1, <1>2, CountersStep, ClassStep, ClosedStep, ReadingStep
<1> QED BY <1>3, <1>4, <1>5, <1>6 DEF FullInv
----------------------------------------------------------------------------
(* What the report makes of the rows of a run.                             *)

\* What is selected is a list of the places W, as many as there are.
IsList(kept, list, W) ==
  /\ kept \in Seq(Range(list)) /\ DOMAIN kept = 1..Len(kept) /\ Len(kept) \in Nat
  /\ IsFiniteSet(W) /\ Len(kept) = Cardinality(W)
  /\ \E at \in Bijection(1..Len(kept), W) : \A i \in 1..Len(kept) : kept[i] = list[at[i]]

LEMMA KeptIsList ==
  ASSUME NEW list, IsSeq(list), NEW W \in SUBSET DOMAIN list, NEW T,
         \A i \in DOMAIN list : list[i] \in T <=> i \in W
  PROVE  IsList(Kept(list, T), list, W)
<1> DEFINE kept == Kept(list, T)
<1>1. /\ kept \in Seq(Range(list)) /\ Picks(kept, list, T, Len(list))
      /\ Len(list) \in Nat /\ DOMAIN list = 1..Len(list)
  BY KeptPicks, LenProperties DEF IsSeq
<1> HIDE DEF kept
<1>2. Len(kept) \in Nat /\ DOMAIN kept = 1..Len(kept)
  BY <1>1, LenProperties
<1>3. PICK at : PicksAt(kept, list, T, Len(list), at)
  BY <1>1 DEF Picks
<1>4. /\ at \in [1..Len(kept) -> 1..Len(list)]
      /\ \A i \in 1..Len(kept) : kept[i] = list[at[i]] /\ kept[i] \in T
      /\ \A i, j \in 1..Len(kept) : i < j => at[i] < at[j]
      /\ \A m \in 1..Len(list) : list[m] \in T => \E i \in 1..Len(kept) : at[i] = m
  BY <1>1, <1>3 DEF PicksAt, Picks
<1>5. \A i \in 1..Len(kept) : at[i] \in W
  BY <1>1, <1>4
<1>6. \A i, j \in 1..Len(kept) : at[i] = at[j] => i = j
  <2> TAKE i, j \in 1..Len(kept)
  <2>1. at[i] \in Nat /\ at[j] \in Nat
    BY <1>1, <1>4
  <2>2. i < j \/ j < i \/ i = j
    BY <1>2
  <2> QED BY <1>4, <2>1, <2>2
<1>7. at \in Bijection(1..Len(kept), W)
  BY <1>1, <1>4, <1>5, <1>6 DEF Bijection, Injection, Surjection, IsInjective
<1>8. IsFiniteSet(W) /\ Cardinality(W) = Len(kept)
  <2>1. IsFiniteSet(1..Len(kept)) /\ Cardinality(1..Len(kept)) = Len(kept)
    <3>1. Cardinality(1..Len(kept)) = IF 1 > Len(kept) THEN 0 ELSE Len(kept) - 1 + 1
      BY <1>2, FS_Interval
    <3>2. IsFiniteSet(1..Len(kept))
      BY <1>2, FS_Interval
    <3> QED BY <1>2, <3>1, <3>2
  <2>2. ExistsBijection(1..Len(kept), W)
    BY <1>7 DEF ExistsBijection
  <2> QED BY <2>1, <2>2, FS_Bijection
<1> QED BY <1>1, <1>2, <1>4, <1>7, <1>8 DEF IsList, kept

\* A list of places, element by element, and the sets read off it.
LEMMA OfList ==
  ASSUME NEW kept, NEW list, NEW W, IsList(kept, list, W)
  PROVE  /\ \A i \in DOMAIN kept : \E w \in W : kept[i] = list[w]
         /\ \A w \in W : \E i \in DOMAIN kept : kept[i] = list[w]
         /\ W # {} => kept # <<>> /\ 1 \in DOMAIN kept /\ Head(kept) = kept[1]
         /\ IsSeq(kept)
<1>1. PICK at \in Bijection(1..Len(kept), W) : \A i \in 1..Len(kept) : kept[i] = list[at[i]]
  BY DEF IsList
<1>2. /\ at \in [1..Len(kept) -> W] /\ \A w \in W : \E i \in 1..Len(kept) : at[i] = w
      /\ DOMAIN kept = 1..Len(kept) /\ Len(kept) \in Nat /\ kept \in Seq(Range(list))
  BY <1>1 DEF Bijection, Injection, Surjection, IsList
<1>3. W # {} => 1 \in 1..Len(kept)
  BY <1>2
<1>4. Len(<<>>) = 0
  OBVIOUS
<1> QED BY <1>1, <1>2, <1>3, <1>4, SeqOfRange DEF IsSeq

\* As many elements of it are in a set as there are places where one is.
LEMMA CountOfList ==
  ASSUME NEW kept, NEW list, NEW W, IsList(kept, list, W), NEW I \in SUBSET DOMAIN kept,
         NEW U \in SUBSET W, \A i \in DOMAIN kept, w \in W : kept[i] = list[w] => (i \in I <=> w \in U)
  PROVE  IsFiniteSet(I) /\ IsFiniteSet(U) /\ Cardinality(I) = Cardinality(U)
<1>1. PICK at \in Bijection(1..Len(kept), W) : \A i \in 1..Len(kept) : kept[i] = list[at[i]]
  BY DEF IsList
<1>2. /\ at \in [1..Len(kept) -> W] /\ \A w \in W : \E i \in 1..Len(kept) : at[i] = w
      /\ DOMAIN kept = 1..Len(kept) /\ Len(kept) \in Nat
      /\ \A i, j \in 1..Len(kept) : at[i] = at[j] => i = j
  BY <1>1 DEF Bijection, Injection, Surjection, IsInjective, IsList
<1> DEFINE f == [i \in I |-> at[i]]
<1>3. \A i \in DOMAIN kept : i \in I <=> at[i] \in U
  BY <1>1, <1>2
<1>4. f \in [I -> U] /\ \A i, j \in I : f[i] = f[j] => i = j
  BY <1>2, <1>3
<1>5. ASSUME NEW u \in U PROVE \E i \in I : f[i] = u
  <2>1. PICK i \in 1..Len(kept) : at[i] = u
    BY <1>2
  <2> QED BY <1>2, <1>3, <2>1
<1>6. f \in Bijection(I, U)
  BY <1>4, <1>5 DEF Bijection, Injection, Surjection, IsInjective
<1>7. IsFiniteSet(I)
  <2>1. IsFiniteSet(DOMAIN kept)
    BY <1>2, FS_Interval
  <2> QED BY <2>1, FS_Subset
<1>8. ExistsBijection(I, U)
  BY <1>6 DEF ExistsBijection
<1> QED BY <1>7, <1>8, FS_Bijection

\* The rows as the report reads them: the places of the file, and what an
\* attempt says of itself.
Says(row, i) ==
  /\ row.kind = "attempt" /\ row.cell = Rows[i].cell /\ row.batch = Rows[i].batch
  /\ row.country = Rows[i].cell /\ row.provider = "nodemaven" /\ row.engine = "camoufox"
  /\ row.headful = FALSE /\ row.geo = "off" /\ row.direct = FALSE /\ row.target = "google_serp"
  /\ row.verdict = "ok" <=> Rows[i].outcome = "ok"
  /\ Rows[i].outcome = "ok" => row.status = "200" /\ row.landed = "asked"
LEMMA ReportedRows ==
  ASSUME FileInv, FilesInv, pc # "idle"
  PROVE  /\ IsSeq(AsReported(Rows)) /\ DOMAIN AsReported(Rows) = DOMAIN Rows
         /\ IsFiniteSet(DOMAIN Rows)
         /\ \A i \in DOMAIN Rows : Rows[i].kind # "attempt" => AsReported(Rows)[i] = Rows[i]
         /\ \A i \in AttemptRows(Rows) :
              Says(AsReported(Rows)[i], i) /\ Rows[i].cell \in Cells /\ Rows[i].cell # ""
<1> DEFINE f == AsReported(Rows)
<1>1. /\ Len(Rows) \in Nat /\ DOMAIN Rows = 1..Len(Rows) /\ IsSeq(disk) /\ disk # <<>>
      /\ IsFiniteSet(DOMAIN Rows)
  <2>1. IsSeq(Rows)
    BY DEF FileInv
  <2>2. Len(Rows) \in Nat /\ DOMAIN Rows = 1..Len(Rows)
    BY <2>1, LenProperties DEF IsSeq
  <2> QED BY <2>2, FS_Interval DEF FileInv
<1>2. f \in [1..Len(Rows) -> Range(f)]
  BY <1>1 DEF AsReported, Range
<1>3. f \in Seq(Range(f))
  BY <1>1, <1>2
<1>4. ASSUME NEW i \in AttemptRows(Rows)
      PROVE  /\ i \in DOMAIN Rows /\ Rows[i].kind = "attempt"
             /\ Rows[i].outcome \in Outcomes /\ Rows[i].cell \in Cells
  <2>1. Len(disk) \in DOMAIN disk
    BY <1>1, EmptySeq, LenProperties DEF IsSeq
  <2>2. i \in DOMAIN Rows /\ Rows[i].kind = "attempt"
    BY DEF AttemptRows
  <2>3. RowOK(Rows[i])
    BY <2>1, <2>2 DEF FilesInv, FileOK, Rows, Last
  <2> QED BY <2>2, <2>3 DEF RowOK
<1>5. \A i \in AttemptRows(Rows) : Says(f[i], i)
  <2> TAKE i \in AttemptRows(Rows)
  <2> DEFINE outcome == Rows[i].outcome
             verdict == CASE IsError(outcome) -> "error"
                          [] outcome = "ok" -> "ok"
                          [] outcome = "refused" -> "captcha"
             status == IF IsError(outcome) THEN "none" ELSE "200"
             landed == IF outcome = "ok" THEN "asked" ELSE "elsewhere"
             untold == ""
  <2>1. f[i] = [kind |-> "attempt", cell |-> Rows[i].cell, batch |-> Rows[i].batch,
                verdict |-> verdict, status |-> status, landed |-> landed,
                engine |-> "camoufox", target |-> "google_serp", direct |-> FALSE,
                headful |-> FALSE, geo |-> "off", provider |-> "nodemaven",
                country |-> Rows[i].cell, wire |-> untold]
    BY <1>4 DEF AsReported
  <2>2. verdict = "ok" <=> outcome = "ok"
    <3>1. outcome \in Outcomes
      BY <1>4
    <3> QED BY <3>1 DEF Outcomes, IsError
  <2>3. outcome = "ok" => status = "200" /\ landed = "asked"
    BY DEF IsError
  <2> HIDE DEF verdict, status, landed, untold, f
  <2> QED BY <2>1, <2>2, <2>3 DEF Says
<1>6. \A i \in DOMAIN Rows : Rows[i].kind # "attempt" => f[i] = Rows[i]
  BY DEF AsReported
<1>7. DOMAIN f = DOMAIN Rows
  BY DEF AsReported
<1>8. IsSeq(f)
  BY <1>3 DEF IsSeq
<1> QED BY <1>1, <1>4, <1>5, <1>6, <1>7, <1>8, CellAssumption

LEMMA ListsOfRows ==
  ASSUME FileInv, FilesInv, pc # "idle"
  PROVE  /\ IsList(Attempts(AsReported(Rows)), AsReported(Rows), AttemptRows(Rows))
         /\ IsList(SessionsClosed(AsReported(Rows)), AsReported(Rows), ClosedRows)
         /\ \A i \in ClosedRows : AsReported(Rows)[i] = Rows[i]
<1> DEFINE rows == AsReported(Rows)
           A == {i \in DOMAIN rows : rows[i].kind = "attempt"}
           C == {i \in DOMAIN rows : rows[i].kind = "session_closed"}
<1>1. /\ IsSeq(rows) /\ DOMAIN rows = DOMAIN Rows
      /\ \A i \in DOMAIN Rows : Rows[i].kind # "attempt" => rows[i] = Rows[i]
      /\ \A i \in AttemptRows(Rows) : rows[i].kind = "attempt"
  BY ReportedRows DEF Says
<1>2. Attempts(rows) = Kept(rows, {rows[i] : i \in A})
      /\ SessionsClosed(rows) = Kept(rows, {rows[i] : i \in C})
  BY DEF Attempts, SessionsClosed, Selected, Where
<1> HIDE DEF rows
<1>3. A = AttemptRows(Rows) /\ C = ClosedRows /\ \A i \in ClosedRows : rows[i] = Rows[i]
  BY <1>1 DEF AttemptRows, ClosedRows
<1>4. IsList(Kept(rows, {rows[i] : i \in A}), rows, A)
  BY <1>1, KeptIsList
<1>5. IsList(Kept(rows, {rows[i] : i \in C}), rows, C)
  BY <1>1, KeptIsList
<1> QED BY <1>2, <1>3, <1>4, <1>5 DEF rows

\* What a run that closed its sessions has in its file: of every attempt the
\* row of its session, of every session the row that names what it was.
Ended == FullInv /\ pc = "over" /\ ending = "finished" /\ ~swallowed
LEMMA EndedRows ==
  ASSUME Ended
  PROVE  /\ FileInv /\ FilesInv /\ pc # "idle"
         /\ \A i \in AttemptRows(Rows) : \E j \in ClosedRows : i \in Above(Rows, j)
         /\ \A i, j \in ClosedRows : Session(i) = Session(j) => i = j
         /\ \A j \in ClosedRows :
              /\ Rows[j].class \in {"alive", "dead", "unreachable", "abandoned"}
              /\ Rows[j].class = "abandoned" <=> Above(Rows, j) = {}
              /\ Rows[j].class \in {"alive", "dead"} <=>
                   \E k \in Above(Rows, j) : ~IsTransportFailure(Rows[k].outcome)
         /\ SummaryAgrees
         /\ \A i \in AttemptRows(Rows) : Rows[i].cell \in Cells => printed[Rows[i].cell] # "absent"
<1>1. /\ FileInv /\ FilesInv /\ pc # "idle" /\ ClassInv /\ ClosedInv /\ PrintedInv /\ ~swallowed
      /\ disk # <<>> /\ pc = "over" /\ ending = "finished"
  BY DEF Ended, FullInv, IInv, FileInv
<1>2. ASSUME NEW i \in AttemptRows(Rows) PROVE \E j \in ClosedRows : i \in Above(Rows, j)
  <2>1. PICK j \in ClosedRows : i < j /\ Session(j) = Session(i)
    BY <1>1 DEF ClosedInv, SettledInv, Open
  <2> QED BY <2>1 DEF Above, Session
<1>3. ASSUME NEW j \in ClosedRows
      PROVE  /\ Rows[j].class \in {"alive", "dead", "unreachable", "abandoned"}
             /\ Rows[j].class = "abandoned" <=> Above(Rows, j) = {}
             /\ Rows[j].class \in {"alive", "dead"} <=>
                  \E k \in Above(Rows, j) : ~IsTransportFailure(Rows[k].outcome)
  <2> DEFINE of == {Rows[k].outcome : k \in Above(Rows, j)}
  <2>1. Rows[j].class = ClassOfOutcomes(of)
    BY <1>1, ClassOfRowsIs DEF ClassInv, ClosedRows
  <2>2. of = {} <=> Above(Rows, j) = {}
    OBVIOUS
  <2>3. of \subseteq {"transport"} <=> ~\E k \in Above(Rows, j) : ~IsTransportFailure(Rows[k].outcome)
    BY DEF IsTransportFailure
  <2> HIDE DEF of
  <2>4. of \subseteq {"transport"} <=> of = {} \/ of = {"transport"}
    OBVIOUS
  <2>5. CASE of = {}
    BY <2>1, <2>2, <2>3, <2>5 DEF ClassOfOutcomes
  <2>6. CASE of = {"transport"}
    <3>1. ClassOfOutcomes(of) = "unreachable"
      BY <2>6 DEF ClassOfOutcomes
    <3> QED BY <2>1, <2>2, <2>3, <2>6, <3>1
  <2>7. CASE of # {} /\ of # {"transport"}
    <3>1. ClassOfOutcomes(of) \in {"alive", "dead"}
      BY <2>7 DEF ClassOfOutcomes
    <3> QED BY <2>1, <2>2, <2>3, <2>4, <2>7, <3>1
  <2> QED BY <2>5, <2>6, <2>7
<1> QED BY <1>1, <1>2, <1>3 DEF ClosedInv, ClosedOnceInv, PresentInv, PrintedInv

\* The sessions that ran are those whose attempts are there.
LEMMA SessionsThatRan ==
  ASSUME Ended
  PROVE  ExitYield(AsReported(Rows)).ran = SessionsSeen(Attempts(AsReported(Rows)))
<1> DEFINE rows == AsReported(Rows)
           closed == SessionsClosed(rows)
           asked == Attempts(rows)
           Of(class) == {i \in DOMAIN closed : closed[i].class = class}
           Were(class) == {k \in ClosedRows : Rows[k].class = class}
           S == {Session(k) : k \in AttemptRows(Rows)}
<1>0. FileInv /\ FilesInv /\ pc # "idle"
  BY EndedRows
<1>1. /\ IsList(asked, rows, AttemptRows(Rows)) /\ IsList(closed, rows, ClosedRows)
      /\ \A i \in ClosedRows : rows[i] = Rows[i]
      /\ \A i \in AttemptRows(Rows) : rows[i].cell = Rows[i].cell /\ rows[i].batch = Rows[i].batch
  BY <1>0, ListsOfRows, ReportedRows DEF Says
<1>2. ExitYield(rows).ran = Cardinality(Of("alive")) + Cardinality(Of("dead"))
                              + Cardinality(Of("unreachable"))
  BY DEF ExitYield, CountOf, Where
<1>3. SessionsSeen(asked) = Cardinality({<<asked[i].cell, asked[i].batch>> : i \in DOMAIN asked})
  BY DEF SessionsSeen, ColumnOf
<1> HIDE DEF rows, closed, asked
<1>4. ASSUME NEW class
      PROVE  IsFiniteSet(Were(class)) /\ Cardinality(Of(class)) = Cardinality(Were(class))
  <2>1. \A i \in DOMAIN closed, w \in ClosedRows : closed[i] = rows[w] => (i \in Of(class) <=> w \in Were(class))
    BY <1>1
  <2>2. Of(class) \in SUBSET DOMAIN closed /\ Were(class) \in SUBSET ClosedRows
    OBVIOUS
  <2> HIDE DEF Of, Were
  <2> QED BY <1>1, <2>1, <2>2, CountOfList
<1>5. {<<asked[i].cell, asked[i].batch>> : i \in DOMAIN asked} = S
  <2>1. \A i \in DOMAIN asked : \E w \in AttemptRows(Rows) : asked[i] = rows[w]
    BY <1>1, OfList
  <2>2. \A w \in AttemptRows(Rows) : \E i \in DOMAIN asked : asked[i] = rows[w]
    BY <1>1, OfList
  <2>3. \A w \in AttemptRows(Rows) : <<rows[w].cell, rows[w].batch>> = Session(w)
    BY <1>1 DEF Session
  <2> QED BY <2>1, <2>2, <2>3
<1> DEFINE U == Were("alive") \cup Were("dead")
           V == U \cup Were("unreachable")
<1>6. IsFiniteSet(V) /\ Cardinality(V) = ExitYield(rows).ran
  <2>1. Were("alive") \cap Were("dead") = {} /\ U \cap Were("unreachable") = {}
    OBVIOUS
  <2>2. IsFiniteSet(Were("alive")) /\ IsFiniteSet(Were("dead")) /\ IsFiniteSet(Were("unreachable"))
    BY <1>4
  <2>3. /\ Cardinality(Of("alive")) = Cardinality(Were("alive"))
        /\ Cardinality(Of("dead")) = Cardinality(Were("dead"))
        /\ Cardinality(Of("unreachable")) = Cardinality(Were("unreachable"))
    BY <1>4
  <2> HIDE DEF Were, Of
  <2>4. IsFiniteSet(U) /\ Cardinality(U) = Cardinality(Were("alive")) + Cardinality(Were("dead")) - Cardinality({})
    BY <2>1, <2>2, FS_Union
  <2>5. IsFiniteSet(V) /\ Cardinality(V) = Cardinality(U) + Cardinality(Were("unreachable")) - Cardinality({})
    <3> HIDE DEF U
    <3> QED BY <2>1, <2>2, <2>4, FS_Union
  <2>6. /\ Cardinality(Were("alive")) \in Nat /\ Cardinality(Were("dead")) \in Nat
        /\ Cardinality(Were("unreachable")) \in Nat /\ Cardinality({}) = 0
    BY <2>2, FS_CardinalityType, FS_EmptySet
  <2> HIDE DEF V, U
  <2> QED BY <1>2, <2>3, <2>4, <2>5, <2>6
<1>7. \A k \in V : k \in ClosedRows /\ \E i \in AttemptRows(Rows) : i \in Above(Rows, k)
  BY EndedRows DEF Above
<1>8. \A k \in ClosedRows : Above(Rows, k) # {} => k \in V
  BY EndedRows
<1> HIDE DEF V
<1> DEFINE f == [k \in V |-> Session(k)]
<1>9. f \in Injection(V, S)
  <2>1. \A k \in V : Session(k) \in S
    BY <1>7 DEF Above, Session
  <2>2. \A k, l \in V : Session(k) = Session(l) => k = l
    BY <1>7, EndedRows
  <2> QED BY <2>1, <2>2 DEF Injection, IsInjective
<1>10. f \in Surjection(V, S)
  <2>1. ASSUME NEW i \in AttemptRows(Rows) PROVE \E k \in V : Session(k) = Session(i)
    <3>1. PICK k \in ClosedRows : i \in Above(Rows, k)
      BY EndedRows
    <3> QED BY <1>8, <3>1 DEF Above, Session
  <2>2. f \in [V -> S]
    BY <1>9 DEF Injection
  <2> QED BY <2>1, <2>2 DEF Surjection
<1>11. ExistsBijection(V, S)
  BY <1>9, <1>10 DEF ExistsBijection, Bijection
<1>12. Cardinality(S) = Cardinality(V)
  BY <1>6, <1>11, FS_Bijection
<1> QED BY <1>3, <1>5, <1>6, <1>12 DEF rows, asked

\* The label of a line tells the cells apart where more than one was asked,
\* so that a line is the attempts of one cell.
AskedCells == {Rows[k].cell : k \in AttemptRows(Rows)}
LEMMA LinesAreCells ==
  ASSUME FileInv, FilesInv, pc # "idle", NEW asked, asked = Attempts(AsReported(Rows)),
         NEW i \in DOMAIN asked
  PROVE  IsList(GroupOf(asked, LabelIn(asked[i], asked), asked[i].target), asked,
                {j \in DOMAIN asked : asked[j].cell = asked[i].cell})
<1> DEFINE rows == AsReported(Rows)
           D == {j \in DOMAIN asked : ~asked[j].direct}
           through == Selected(asked, LAMBDA r : ~r.direct)
           label == LabelIn(asked[i], asked)
           W == {j \in DOMAIN asked : LabelIn(asked[j], asked) = label /\ asked[j].target = asked[i].target}
           T == {asked[j] : j \in W}
<1>1. IsList(asked, rows, AttemptRows(Rows)) /\ IsFiniteSet(AttemptRows(Rows))
  BY ListsOfRows DEF IsList
<1>2. IsSeq(asked) /\ \A j \in DOMAIN asked : \E k \in AttemptRows(Rows) : asked[j] = rows[k]
  BY <1>1, OfList
<1>3. \A j \in DOMAIN asked : \E k \in AttemptRows(Rows) : Says(asked[j], k)
  BY <1>2, ReportedRows
<1>4. D = DOMAIN asked
  BY <1>3 DEF Says
<1>5. IsList(through, asked, D)
  <2>1. through = Kept(asked, {asked[j] : j \in D})
    BY DEF Selected, Where
  <2>2. \A j \in DOMAIN asked : asked[j] \in {asked[l] : l \in D} <=> j \in D
    OBVIOUS
  <2>3. IsList(Kept(asked, {asked[j] : j \in D}), asked, D)
    BY <1>2, <2>2, KeptIsList
  <2> QED BY <2>1, <2>3
<1>6. CountriesOf(asked) = AskedCells
  <2>1. CountriesOf(asked) = {AskedCountry(through[l]) : l \in DOMAIN through} \ {""}
    BY DEF CountriesOf, ColumnOf
  <2> HIDE DEF through
  <2>2. ASSUME NEW l \in DOMAIN through
        PROVE  AskedCountry(through[l]) \in AskedCells /\ AskedCountry(through[l]) # ""
    <3>1. PICK j \in DOMAIN asked : through[l] = asked[j]
      BY <1>4, <1>5, OfList
    <3>2. PICK k \in AttemptRows(Rows) : Says(asked[j], k)
      BY <1>3
    <3>3. Rows[k].cell # ""
      BY ReportedRows
    <3> QED BY <3>1, <3>2, <3>3 DEF AskedCountry, AskedCells, Says
  <2>3. ASSUME NEW k \in AttemptRows(Rows)
        PROVE  \E l \in DOMAIN through : AskedCountry(through[l]) = Rows[k].cell
    <3>1. PICK j \in DOMAIN asked : asked[j] = rows[k]
      BY <1>1, OfList
    <3>2. PICK l \in DOMAIN through : through[l] = asked[j]
      BY <1>4, <1>5, OfList
    <3>3. Says(rows[k], k) /\ Rows[k].cell # ""
      BY ReportedRows
    <3> QED BY <3>1, <3>2, <3>3 DEF AskedCountry, Says
  <2> QED BY <2>1, <2>2, <2>3 DEF AskedCells
<1>7. IsFiniteSet(AskedCells)
  <2> DEFINE f == [k \in AttemptRows(Rows) |-> Rows[k].cell]
  <2>1. f \in Surjection(AttemptRows(Rows), AskedCells)
    BY DEF Surjection, AskedCells
  <2> QED BY <1>1, <2>1, FS_Surjection
<1>8. ASSUME NEW j \in DOMAIN asked
      PROVE  asked[j].cell \in AskedCells /\ asked[j].country = asked[j].cell /\ asked[j].cell # ""
  <2>1. PICK k \in AttemptRows(Rows) : Says(asked[j], k)
    BY <1>3, <1>8
  <2>2. Rows[k].cell # ""
    BY ReportedRows
  <2> QED BY <2>1, <2>2 DEF Says, AskedCells
<1>9. ASSUME NEW j \in DOMAIN asked
      PROVE  LabelIn(asked[j], asked) = label <=> asked[j].cell = asked[i].cell
  <2> DEFINE many == Cardinality(AskedCells) > 1
             gateways == GatewaysOf(asked)
  <2>1. \A l \in DOMAIN asked :
          LabelIn(asked[l], asked) =
            [engine |-> "camoufox", direct |-> FALSE, headful |-> FALSE, align |-> FALSE,
             gateway |-> IF Cardinality(gateways) > 1 THEN "nodemaven" ELSE "",
             country |-> IF many THEN asked[l].cell ELSE ""]
    <3> TAKE l \in DOMAIN asked
    <3>1. asked[l].country = asked[l].cell /\ asked[l].cell # ""
      BY <1>8
    <3>2. AskedCountry(asked[l]) = asked[l].cell
      BY <3>1 DEF AskedCountry
    <3>3. /\ asked[l].engine = "camoufox" /\ asked[l].direct = FALSE /\ asked[l].headful = FALSE
          /\ asked[l].geo = "off" /\ asked[l].provider = "nodemaven"
      BY <1>3 DEF Says
    <3> HIDE DEF gateways
    <3> QED BY <1>6, <3>2, <3>3 DEF LabelIn, EngineLabel, gateways
  <2> DEFINE gateway == IF Cardinality(gateways) > 1 THEN "nodemaven" ELSE ""
  <2> HIDE DEF gateways, gateway, many
  <2>2. CASE many
    <3>1. \A l \in DOMAIN asked :
            LabelIn(asked[l], asked) =
              [engine |-> "camoufox", direct |-> FALSE, headful |-> FALSE, align |-> FALSE,
               gateway |-> gateway, country |-> asked[l].cell]
      BY <2>1, <2>2 DEF gateway
    <3>2. LabelIn(asked[j], asked).country = asked[j].cell /\ label.country = asked[i].cell
      BY <3>1
    <3> QED BY <3>1, <3>2
  <2>3. CASE ~many
    <3>1. asked[j].cell = asked[i].cell
      <4>1. SUFFICES ASSUME asked[j].cell # asked[i].cell PROVE FALSE
        OBVIOUS
      <4>2. {asked[i].cell} \in SUBSET AskedCells /\ asked[j].cell \in AskedCells
        BY <1>8
      <4>3. Cardinality({asked[i].cell}) = 1 /\ {asked[i].cell} # AskedCells
        BY <4>1, <4>2, FS_Singleton
      <4>4. Cardinality({asked[i].cell}) <= Cardinality(AskedCells)
            /\ (Cardinality(AskedCells) = Cardinality({asked[i].cell}) => AskedCells = {asked[i].cell})
        BY <1>7, <4>2, FS_Subset
      <4>5. Cardinality(AskedCells) \in Nat
        BY <1>7, FS_CardinalityType
      <4> QED BY <2>3, <4>3, <4>4, <4>5 DEF many
    <3> QED BY <2>1, <2>3, <3>1
  <2> QED BY <2>2, <2>3
<1>10. W = {j \in DOMAIN asked : asked[j].cell = asked[i].cell}
  <2>1. \A j \in DOMAIN asked : asked[j].target = asked[i].target
    BY <1>3 DEF Says
  <2> HIDE DEF label
  <2> QED BY <1>9, <2>1
<1>11. GroupOf(asked, label, asked[i].target) = Kept(asked, T)
  BY DEF GroupOf, Selected, Where
<1>12. \A j \in DOMAIN asked : asked[j] \in T <=> j \in W
  <2> HIDE DEF label
  <2> QED OBVIOUS
<1>13. IsList(Kept(asked, T), asked, W)
  <2>1. W \in SUBSET DOMAIN asked
    OBVIOUS
  <2> HIDE DEF W, T
  <2> QED BY <1>2, <1>12, <2>1, KeptIsList
<1> QED BY <1>10, <1>11, <1>13

\* The session rows know a cell for silent exactly when nothing of it arrived.
LEMMA SilentIsUnanswered ==
  ASSUME Ended, NEW c \in AskedCells
  PROVE  c \in SilentCells(AsReported(Rows)) <=> Unanswered(c)
<1> DEFINE rows == AsReported(Rows)
           closed == SessionsClosed(rows)
           V == {i \in DOMAIN closed : closed[i].class \in {"alive", "dead"}}
           served == Selected(closed, LAMBDA r : r.class \in {"alive", "dead"})
<1>0. FileInv /\ FilesInv /\ pc # "idle"
  BY EndedRows
<1>1. IsList(closed, rows, ClosedRows) /\ \A i \in ClosedRows : rows[i] = Rows[i]
  BY <1>0, ListsOfRows
<1>2. SilentCells(rows) = {closed[i].cell : i \in DOMAIN closed} \ AnsweredCells(rows)
      /\ AnsweredCells(rows) = {served[i].cell : i \in DOMAIN served}
  BY DEF SilentCells, AnsweredCells, ColumnOf
<1>3. served = Kept(closed, {closed[i] : i \in V})
  BY DEF Selected, Where
<1> HIDE DEF rows, closed, served
<1>4. IsSeq(closed)
  BY <1>1, OfList
<1>5. IsList(served, closed, V)
  <2>1. \A i \in DOMAIN closed : closed[i] \in {closed[j] : j \in V} <=> i \in V
    OBVIOUS
  <2>2. V \in SUBSET DOMAIN closed
    OBVIOUS
  <2> HIDE DEF V
  <2> QED BY <1>3, <1>4, <2>1, <2>2, KeptIsList
<1>6. {closed[i].cell : i \in DOMAIN closed} = {Rows[k].cell : k \in ClosedRows}
  BY <1>1, OfList
<1>7. AnsweredCells(rows) = {Rows[k].cell : k \in {l \in ClosedRows : Rows[l].class \in {"alive", "dead"}}}
  <2>1. \A i \in DOMAIN served : \E k \in ClosedRows :
          served[i].cell = Rows[k].cell /\ Rows[k].class \in {"alive", "dead"}
    <3> TAKE i \in DOMAIN served
    <3>1. PICK j \in V : served[i] = closed[j]
      BY <1>5, OfList
    <3>2. PICK k \in ClosedRows : closed[j] = rows[k]
      BY <1>1, OfList
    <3> QED BY <1>1, <3>1, <3>2
  <2>2. ASSUME NEW k \in ClosedRows, Rows[k].class \in {"alive", "dead"}
        PROVE  \E i \in DOMAIN served : served[i].cell = Rows[k].cell
    <3>1. PICK j \in DOMAIN closed : closed[j] = rows[k]
      BY <1>1, OfList
    <3>2. j \in V
      BY <1>1, <2>2, <3>1
    <3>3. PICK i \in DOMAIN served : served[i] = closed[j]
      BY <1>5, <3>2, OfList
    <3> QED BY <1>1, <3>1, <3>3
  <2> QED BY <1>2, <2>1, <2>2
<1>8. PICK a \in AttemptRows(Rows) : Rows[a].cell = c
  BY DEF AskedCells
<1>9. c \in {Rows[k].cell : k \in ClosedRows}
  <2>1. PICK k \in ClosedRows : a \in Above(Rows, k)
    BY EndedRows
  <2> QED BY <1>8, <2>1 DEF Above
<1>10. Unanswered(c) <=> \A i \in AttemptRows(Rows) : Rows[i].cell = c => IsTransportFailure(Rows[i].outcome)
  BY DEF Unanswered, OfCell, AttemptRows
<1>11. ASSUME Unanswered(c), NEW k \in ClosedRows, Rows[k].class \in {"alive", "dead"}
       PROVE  Rows[k].cell # c
  <2>1. PICK i \in Above(Rows, k) : ~IsTransportFailure(Rows[i].outcome)
    BY <1>11, EndedRows
  <2> QED BY <1>10, <1>11, <2>1 DEF Above
<1>12. ASSUME ~Unanswered(c)
       PROVE  \E k \in ClosedRows : Rows[k].cell = c /\ Rows[k].class \in {"alive", "dead"}
  <2>1. PICK i \in AttemptRows(Rows) : Rows[i].cell = c /\ ~IsTransportFailure(Rows[i].outcome)
    BY <1>10, <1>12
  <2>2. PICK k \in ClosedRows : i \in Above(Rows, k)
    BY EndedRows
  <2>3. Rows[k].class \in {"alive", "dead"}
    BY <2>1, <2>2, EndedRows
  <2> QED BY <2>1, <2>2, <2>3 DEF Above
<1> QED BY <1>2, <1>6, <1>7, <1>9, <1>11, <1>12 DEF rows

\* A line prints no rate, and is not marked as stopped, exactly when its cell
\* is one the summary calls unmeasured; and what prints no rate has no pass.
LEMMA ReportOfEnded ==
  ASSUME Ended
  PROVE  ReportAgrees
<1> DEFINE rows == AsReported(Rows)
           asked == Attempts(rows)
<1>0. FileInv /\ FilesInv /\ pc # "idle"
  BY EndedRows
<1>1. IsList(asked, rows, AttemptRows(Rows))
  BY <1>0, ListsOfRows
<1>2. ASSUME NEW i \in DOMAIN asked
      PROVE  LET line == PassCell(rows, GroupOf(asked, LabelIn(asked[i], asked), asked[i].target))
             IN  /\ printed[asked[i].cell] = "unmeasured" <=>
                      line.what = "unmeasured" /\ ~line.marked
                 /\ line.what = "unmeasured" => line.ok = 0
  <2> DEFINE group == GroupOf(asked, LabelIn(asked[i], asked), asked[i].target)
             W == {j \in DOMAIN asked : asked[j].cell = asked[i].cell}
             c == asked[i].cell
             line == PassCell(rows, group)
  <2>1. IsList(group, asked, W)
    BY <1>0, LinesAreCells
  <2> HIDE DEF group
  <2>2. PICK k \in AttemptRows(Rows) : asked[i] = rows[k]
    BY <1>1, OfList
  <2>3. Says(rows[k], k) /\ Rows[k].cell \in Cells
    BY <1>0, ReportedRows
  <2>4. c = Rows[k].cell /\ c \in AskedCells /\ c \in Cells /\ printed[c] # "absent"
    BY <2>2, <2>3, EndedRows DEF Says, AskedCells
  <2>5. printed[c] = "unmeasured" <=> Unanswered(c)
    BY <2>4, EndedRows DEF SummaryAgrees
  <2>6. c \in SilentCells(rows) <=> Unanswered(c)
    BY <2>4, SilentIsUnanswered
  <2>7. group # <<>> /\ CellOfGroup(group) = c
    <3>1. i \in W
      BY <1>2
    <3>2. group # <<>> /\ 1 \in DOMAIN group /\ Head(group) = group[1]
      BY <2>1, <3>1, OfList
    <3>3. PICK j \in W : group[1] = asked[j]
      BY <2>1, <3>2, OfList
    <3> QED BY <3>2, <3>3 DEF CellOfGroup
  <2>8. ASSUME NEW j \in DOMAIN group
        PROVE  \E a \in AttemptRows(Rows) : Rows[a].cell = c /\ Says(group[j], a)
    <3>1. PICK l \in W : group[j] = asked[l]
      BY <2>1, OfList
    <3>2. PICK a \in AttemptRows(Rows) : asked[l] = rows[a]
      BY <1>1, <3>1, OfList
    <3>3. Says(rows[a], a)
      BY <1>0, ReportedRows
    <3> QED BY <3>1, <3>2, <3>3 DEF Says
  <2> DEFINE passed == {j \in DOMAIN group : group[j].verdict = "ok"}
             live == {j \in DOMAIN group : WasServed(group[j])}
  <2>9. passed \subseteq live /\ IsFiniteSet(live) /\ IsFiniteSet(passed)
    <3>1. \A j \in passed : WasServed(group[j])
      BY <2>8 DEF Says, WasServed
    <3>2. IsFiniteSet(DOMAIN group)
      <4>1. DOMAIN group = 1..Len(group) /\ Len(group) \in Nat
        BY <2>1 DEF IsList
      <4> QED BY <4>1, FS_Interval
    <3> QED BY <3>1, <3>2, FS_Subset
  <2>10. Tally(group).ok = Cardinality(passed) /\ LiveResponses(group) = Cardinality(live)
    BY DEF Tally, LiveResponses, CountOf, Where
  <2>11. CASE c \in SilentCells(rows)
    <3>1. line = [what |-> "unmeasured", marked |-> FALSE, ok |-> Tally(group).ok,
                  judged |-> Tally(group).judged]
      BY <2>7, <2>11 DEF PassCell
    <3>2. passed = {}
      <4>1. ASSUME NEW j \in passed PROVE FALSE
        <5>1. PICK a \in AttemptRows(Rows) : Rows[a].cell = c /\ Says(group[j], a)
          BY <2>8
        <5>2. Rows[a].outcome = "ok"
          BY <5>1 DEF Says
        <5>3. IsTransportFailure(Rows[a].outcome)
          BY <2>6, <2>11, <5>1 DEF Unanswered, OfCell, AttemptRows
        <5> QED BY <5>2, <5>3 DEF IsTransportFailure
      <4> QED BY <4>1
    <3>3. Tally(group).ok = 0
      BY <2>10, <3>2, FS_EmptySet
    <3> HIDE DEF line
    <3> QED BY <2>5, <2>6, <2>11, <3>1, <3>3 DEF line, group
  <2>12. CASE c \notin SilentCells(rows)
    <3> DEFINE stopped == IsStopped(rows, group)
    <3>1. line = [what |-> IF stopped /\ LiveResponses(group) = 0 THEN "unmeasured" ELSE "rate",
                  marked |-> stopped, ok |-> Tally(group).ok, judged |-> Tally(group).judged]
      BY <2>7, <2>12 DEF PassCell
    <3>2. LiveResponses(group) = 0 => Tally(group).ok = 0
      <4>1. Cardinality(live) = 0 => passed = {}
        BY <2>9, FS_EmptySet
      <4> QED BY <2>10, <4>1, FS_EmptySet
    <3> HIDE DEF line, stopped
    <3>3. line.what = "unmeasured" => line.marked /\ line.ok = 0
      <4>1. stopped \in BOOLEAN
        BY DEF stopped, IsStopped
      <4> QED BY <3>1, <3>2, <4>1
    <3> QED BY <2>5, <2>6, <2>12, <3>3 DEF line, group
  <2> QED BY <2>11, <2>12
<1> QED BY <1>2, SessionsThatRan DEF ReportAgrees
----------------------------------------------------------------------------
(* The theorems.                                                           *)

\* The inductive invariant holds of every run, restarts included, of
\* scripts/benchmark.py's main().
THEOREM Invariance == Spec => []IInv
<1>1. Init => IInv
  BY InitInvariant
<1>2. IInv /\ [Next]_vars => IInv'
  BY StepInvariant
<1> QED BY <1>1, <1>2, PTL DEF Spec

\* Whatever fails, at most the attempt in hand is sent after the stop file
\* has appeared.  The check at the batch head and the one after each row.
THEOREM StopPrompt == Spec => []StopIsPrompt
<1>1. IInv => StopIsPrompt
  BY DEF IInv, PromptInv, StopIsPrompt
<1> QED BY <1>1, Invariance, PTL

\* A cell is stopped exactly when its file says so, and nothing is asked of
\* it afterwards, by whichever of the three paths it was stopped.
THEOREM CellStopRecorded == Spec => []CellStopIsRecorded
<1>1. IInv => CellStopIsRecorded
  <2>1. SUFFICES ASSUME IInv, pc = "head", NEW c \in Cells
                 PROVE  /\ Stops(c) # {} <=> Tripped(breakers[c])
                        /\ \A s \in Stops(c), i \in Sent(c) : i < s
    BY DEF CellStopIsRecorded, Stops, Sent
  <2> QED BY <2>1 DEF IInv, StopsInv
<1> QED BY <1>1, Invariance, PTL

\* A run that closed its sessions prints no rate for exactly the cells no
\* attempt of which reached the target: the breakers' counters say of a cell
\* what its rows say.
THEOREM RatesAreTrue ==
  Spec => [](pc = "over" /\ ending = "finished" /\ ~swallowed => SummaryAgrees)
<1>1. IInv => (pc = "over" /\ ending = "finished" /\ ~swallowed => SummaryAgrees)
  BY DEF IInv, PrintedInv
<1> QED BY <1>1, Invariance, PTL

\* The whole invariant holds of every run, restarts included.
THEOREM FullInvariance == Spec => []FullInv
<1>1. Init => FullInv
  BY FullInit
<1>2. FullInv /\ [Next]_vars => FullInv'
  BY FullStep
<1> QED BY <1>1, <1>2, PTL DEF Spec

\* The variables of the runner stay in their types: the batches of the plan
\* are of its cells and never larger than --batch, the rows of known kinds.
THEOREM TypeCorrect == Spec => []TypeOK
<1>1. FullInv => TypeOK
  <2> SUFFICES ASSUME FullInv PROVE TypeOK
    OBVIOUS
  <2>1. FilesInv /\ PlanInv /\ TypesInv /\ WatchInv /\ PromptInv /\ BreakerInv /\ VerdictInv
    BY DEF FullInv, IInv
  <2>2. /\ Len(disk) <= MaxRuns
        /\ \A f \in DOMAIN disk : /\ disk[f].place \in {"runs", "stopped", "gone"}
                                  /\ \A i \in DOMAIN disk[f].rows : disk[f].rows[i].kind \in Kinds
    BY <2>1 DEF FilesInv, FileOK, RowOK
  <2>3. /\ done \subseteq Cells \X Queries /\ pos \in 0..BatchSize
        /\ plan \in Seq(Batches) /\ Filled(plan, done)
    BY <2>1 DEF PlanInv
  <2>4. \A i \in DOMAIN plan : plan[i].cell \in Cells /\ Len(plan[i].queries) \in 1..BatchSize
    <3>1. DOMAIN plan = 1..Len(plan)
      BY <2>3, LenProperties
    <3>2. \A i \in DOMAIN plan : plan[i] \in Batches
      BY <2>3, <3>1, ElementOfSeq
    <3> QED BY <2>3, <3>1, <3>2 DEF Filled, Batches
  <2>5. \A c \in Cells : breakers[c].reason \in SessionReasons
    BY <2>1 DEF BreakerInv, SessionBreakers
  <2>6. /\ Len(watch.recent) <= Window /\ late \in Nat
        /\ raised \in {"nothing", "transport", "operator", "ctrl_c"}
    BY <2>1 DEF WatchInv, PromptInv, VerdictInv
  <2> QED BY <2>1, <2>2, <2>3, <2>4, <2>5, <2>6 DEF TypeOK, TypesInv
<1> QED BY <1>1, FullInvariance, PTL

\* A resumed run leaves out what one earlier file answers, all of it and
\* nothing else, and asks none of it again.
THEOREM ResumeExact == Spec => []ResumeIsExact
<1>1. FullInv => ResumeIsExact
  BY DEF FullInv, IdleInv, PlanInv, AskedInv, ResumeIsExact
<1> QED BY <1>1, FullInvariance, PTL

\* No cell is asked from its next batch while another is still to be asked
\* from the one before, whatever is skipped or cut short.
THEOREM Interleaved == Spec => []CellsInterleave
<1>1. FullInv => CellsInterleave
  BY DEF FullInv, IdleInv, AskedInv, CellsInterleave
<1> QED BY <1>1, FullInvariance, PTL

\* A run that came to its end leaves no question without an answer, a row of
\* its own, or a row that says why its cell has none.
THEOREM NothingMissing == Spec => []NothingSilentlyMissing
<1>1. FullInv => NothingSilentlyMissing
  <2> SUFFICES ASSUME FullInv, pc = "over", ending = "finished",
                      NEW c \in Cells, NEW q \in Queries
               PROVE  \/ \E f \in Earlier : <<c, q>> \in Answered(f)
                      \/ \E i \in OfCell(Rows, "attempt", c) : Rows[i].query = q
                      \/ \E kind \in {"cell_stopped", "session_failed", "identity_skipped"} :
                           OfCell(Rows, kind, c) # {}
    BY DEF NothingSilentlyMissing
  <2>1. PlanInv /\ MissingInv
    BY DEF FullInv
  <2>2. plan = <<>> /\ done \in {{}} \cup {Answered(f) : f \in Earlier}
    BY <2>1 DEF PlanInv
  <2>3. ~Left(c, q)
    <3>1. 1..Len(plan) = {}
      BY <2>2
    <3> QED BY <3>1 DEF Left
  <2>4. <<c, q>> \in done => \E f \in Earlier : <<c, q>> \in Answered(f)
    BY <2>2
  <2>5. \/ <<c, q>> \in done \/ (\E i \in Sent(c) : Rows[i].query = q) \/ Explained(c)
    BY <2>1, <2>3 DEF MissingInv
  <2> QED BY <2>4, <2>5 DEF Sent, Explained
<1> QED BY <1>1, FullInvariance, PTL

\* The watch stops a run only on a window of attempts that its file holds,
\* with the share of errors and the spread over cells it promises.
THEOREM StopIsEvidence == Spec => []WatchStopIsEvidence
<1>1. FullInv => WatchStopIsEvidence
  BY DEF FullInv
<1> QED BY <1>1, FullInvariance, PTL

\* No session is timed that the budget has not paid for, and none after one
\* that went without.
LEMMA ReadingsFollow ==
  ASSUME FileInv, ReadingInv, pc = "over"
  PROVE  ReadingsAreTheSessions
<1> DEFINE limit == LimitOf(Downloads)
           Sessions == {Session(i) : i \in Timed}
<1>1. /\ \A i, j \in AttemptRows(Rows) : /\ Session(i) = Session(j) => Rows[i].timed = Rows[j].timed
                                         /\ j \in Timed /\ i < j => i \in Timed
      /\ \A i \in AttemptRows(Rows) : ~Rows[i].timed => ~MayTake(speed.budget)
  BY DEF ReadingInv, RowsReadInv
<1>2. /\ speed.budget.limit = limit /\ speed.budget.spent \in Nat
      /\ limit # NoCap => speed.budget.spent <= limit
  BY DEF ReadingInv, BudgetInv
<1>3. limit = NoCap => Timed = AttemptRows(Rows)
  BY <1>1, <1>2 DEF MayTake, Timed
<1>4. limit # NoCap => Cardinality(Read) <= speed.budget.spent
  BY DEF ReadingInv, ReadCountInv
<1>5. Read = Sessions
  BY DEF Read, Measuring, Open
<1>6. ReadingsAreTheSessions <=>
        /\ \A i, j \in AttemptRows(Rows) :
             /\ Session(i) = Session(j) => Rows[i].timed = Rows[j].timed
             /\ j \in Timed /\ i < j => i \in Timed
        /\ limit = NoCap => Timed = AttemptRows(Rows)
        /\ limit # NoCap => Cardinality(Sessions) <= limit
  BY DEF ReadingsAreTheSessions, Session, Timed
<1>7. limit # NoCap => Cardinality(Sessions) <= limit
  <2>1. Cardinality(Sessions) \in Nat
    BY <1>5, ReadFinite, FS_CardinalityType
  <2>2. limit \in Nat \cup {NoCap}
    BY LimitIs
  <2> QED BY <1>2, <1>4, <1>5, <2>1, <2>2
<1> HIDE DEF limit, Sessions
<1> QED BY <1>1, <1>3, <1>6, <1>7

\* The class a session row carries is that of its attempts in the file, and
\* the throughput an attempt carries is its session's.
THEOREM SessionRowsTrue == Spec => []SessionRowsAgree
<1>1. FullInv => SessionRowsAgree
  BY ReadingsFollow DEF FullInv, IInv, ClassInv, SessionRowsAgree
<1> QED BY <1>1, FullInvariance, PTL

\* A run that closed every session prints no rate for exactly the cells no
\* attempt of which reached the target, and the report of its file, which has
\* the session rows to go by, says so of the same cells and counts as many
\* sessions that ran as have attempts in it.
THEOREM UnmeasuredTrue == Spec => []UnmeasuredMeansUnanswered
<1>1. FullInv => UnmeasuredMeansUnanswered
  <2> SUFFICES ASSUME Ended PROVE SummaryAgrees /\ ReportAgrees
    BY DEF Ended, UnmeasuredMeansUnanswered
  <2> QED BY EndedRows, ReportOfEnded
<1> QED BY <1>1, FullInvariance, PTL
====
