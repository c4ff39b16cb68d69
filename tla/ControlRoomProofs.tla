--------------------------- MODULE ControlRoomProofs ---------------------------
(***************************************************************************)
(* Theorems about the control room, for every number of matches, schedules *)
(* and requests and for every interleaving, crashes included.              *)
(***************************************************************************)
EXTENDS ControlRoomProperties, FiniteSetTheorems, TLAPS

-----------------------------------------------------------------------------
(***************************************************************************)
(* What holds of a match row whoever plays: every edit of a row gives rows *)
(* again, only those who are in a match stand at its places, and a match   *)
(* stays completed unless its result is taken back.                        *)
(***************************************************************************)

(***************************************************************************)
(* The places of a result are numbers: a committed match of a finite set   *)
(* of players has a result of the type of the column (writeStanding).      *)
(***************************************************************************)
LEMMA PlacingsType ==
  ASSUME NEW players \in SUBSET Player
  PROVE  Placings(players) \subseteq Result
<1>1. Cardinality(players) \in Nat
  BY PlayerAssumption, FS_Subset, FS_CardinalityType
<1>2. 0..Cardinality(players) \subseteq Nat
  BY <1>1, SMT
<1> QED BY <1>2 DEF Placings, Result

LEMMA UncommittedStatesType ==
  ASSUME NEW row \in Row
  PROVE  UncommittedStates(row) \subseteq MatchState \ {"completed"}
BY DEF UncommittedStates, MatchState

LEMMA RejudgedType ==
  ASSUME NEW row \in Row
  PROVE  Rejudged(row) \subseteq Row
BY UncommittedStatesType DEF Rejudged, Row

LEMMA ScoredType ==
  ASSUME NEW row \in Row
  PROVE  Scored(row) \subseteq Row
<1>1. {st \in MatchState : [row EXCEPT !.state = st] \in Row} = MatchState
  BY DEF Row
<1>2. "completed" \in MatchState
  BY DEF MatchState
<1> QED BY <1>1, <1>2, UncommittedStatesType DEF Scored

LEMMA PlacedType ==
  ASSUME NEW row \in Row, NEW p \in Player
  PROVE  Placed(row, p) \subseteq Row
<1>1. [row EXCEPT !.players = @ \cup {p}] \in Row
  BY DEF Row
<1> QED BY <1>1, RejudgedType DEF Placed

LEMMA ReleasedType ==
  ASSUME NEW row \in Row, NEW p \in Player
  PROVE  Released(row, p) \subseteq Row
<1>1. [row EXCEPT !.players = @ \ {p}] \in Row
  BY DEF Row
<1> QED BY <1>1, RejudgedType DEF Released

(***************************************************************************)
(* Every command edits a row into a row.                                   *)
(***************************************************************************)
LEMMA EffectType ==
  ASSUME NEW cmd \in MatchCommand, NEW row \in Row
  PROVE  Effect(cmd, row) \subseteq Row
<1> USE DEF MatchCommand, ManualCommand, ScoreCommand, FieldCommand, RoundCommand, ResultCommand
<1>1. CASE cmd \in {"activate", "deactivate"}
  BY <1>1 DEF Effect, Row
<1>2. CASE cmd \in {"score", "applyCompletedSong"}
  BY <1>2, ScoredType DEF Effect
<1>3. CASE cmd = "removeStanding"
  BY <1>3, UncommittedStatesType DEF Effect, Row
<1>4. CASE cmd = "addEntrant"
  BY <1>4, PlacedType DEF Effect
<1>5. CASE cmd = "removeEntrant"
  <2>1. row.players \subseteq Player
    BY DEF Row
  <2> QED BY <1>5, <2>1, ReleasedType DEF Effect
<1>6. CASE cmd = "replaceEntrants"
  <2>1. \A ps \in SUBSET Player : [row EXCEPT !.players = ps] \in Row
    BY DEF Row
  <2>2. \A ps \in SUBSET Player : Rejudged([row EXCEPT !.players = ps]) \subseteq Row
    BY <2>1, RejudgedType
  <2> QED BY <1>6, <2>2 DEF Effect
<1>7. CASE cmd = "changeScoringSystem"
  BY <1>7, RejudgedType DEF Effect
<1>8. CASE cmd = "addRound"
  BY <1>8 DEF Effect, Row, MatchState
<1>9. CASE cmd = "removeRound"
  <2>1. [row EXCEPT !.rounds = FALSE, !.state = "open"] \in Row
    BY DEF Row, MatchState
  <2> QED BY <1>9, <2>1, RejudgedType DEF Effect
<1>10. CASE cmd = "commit"
  <2>1. row.players \in SUBSET Player
    BY DEF Row
  <2>2. \A places \in Result :
          [row EXCEPT !.state = "completed", !.active = FALSE, !.result = places] \in Row
    BY DEF Row, MatchState
  <2> QED BY <1>10, <2>1, <2>2, PlacingsType DEF Effect
<1>11. CASE cmd = "reopen"
  <2>1. \A st \in MatchState :
          [row EXCEPT !.active = FALSE, !.result = NoResult, !.state = st] \in Row
    BY DEF Row, Result, NoResult
  <2>2. UncommittedStates(row) \subseteq MatchState /\ row.state \in MatchState
    BY UncommittedStatesType DEF Row
  <2> QED BY <1>11, <2>1, <2>2 DEF Effect
<1> QED BY <1>1, <1>2, <1>3, <1>4, <1>5, <1>6, <1>7, <1>8, <1>9, <1>10, <1>11

(***************************************************************************)
(* Only entrants stand at a place of a match (entrantsByPlacement).        *)
(***************************************************************************)
LEMMA PlacedAtEntrants ==
  ASSUME NEW row \in Row, NEW k
  PROVE  PlacedAt(row, k) \subseteq row.players
BY DEF PlacedAt

(***************************************************************************)
(* A command that is let through leaves a completed match completed,       *)
(* unless it is the reopening (assertEditable).                            *)
(***************************************************************************)
LEMMA CompletedStays ==
  ASSUME NEW cmd \in MatchCommand \ {"reopen"}, NEW row \in Row, Completed(row),
         Editable(cmd, row), NEW edited \in Effect(cmd, row)
  PROVE  Completed(edited)
<1>1. cmd \in {"deactivate", "applyCompletedSong", "commit"}
  BY DEF Editable
<1>2. CASE cmd = "deactivate"
  BY <1>2 DEF Effect, Completed, Row
<1>3. CASE cmd = "applyCompletedSong"
  BY <1>3 DEF Effect, Completed, Scored, Row
<1>4. CASE cmd = "commit"
  BY <1>4 DEF Effect, Completed, Row
<1> QED BY <1>1, <1>2, <1>3, <1>4

-----------------------------------------------------------------------------
(***************************************************************************)
(* What the operators of the model return.                                 *)
(***************************************************************************)

\* The writes of ScheduleAggregate keep the type of the row.
LEMMA ScheduleRowType ==
  ASSUME NEW row \in ScheduleRow, NEW edited \in ScheduleRow, NEW dirty,
         NEW m \in Match \cup {None}, NEW why \in StaleCode \cup {None},
         NEW code \in InterruptionCode \cup {None}
  PROVE  /\ Started(row, m) \in ScheduleRow
         /\ Stopped(row, code) \in ScheduleRow
         /\ Interrupted(row, m) \in ScheduleRow
         /\ WaitingAt(row, m, why) \in ScheduleRow
         /\ Finished(row) \in ScheduleRow
         /\ Updated(row, edited, dirty) \in ScheduleRow
<1>1. Started(row, m) \in ScheduleRow
  BY DEF Started, ScheduleRow
<1>2. Stopped(row, code) \in ScheduleRow
  BY DEF Stopped, ScheduleRow
<1>3. Interrupted(row, m) \in ScheduleRow
  BY DEF Interrupted, ScheduleRow, InterruptionCode
<1>4. WaitingAt(row, m, why) \in ScheduleRow
  BY DEF WaitingAt, ScheduleRow
<1>5. Finished(row) \in ScheduleRow
  BY DEF Finished, ScheduleRow
<1>6. Updated(row, edited, dirty) \in ScheduleRow
  BY DEF Updated, ScheduleRow
<1> QED BY <1>1, <1>2, <1>3, <1>4, <1>5, <1>6

LEMMA NewScheduleType == NewSchedule \in ScheduleRow
BY DEF NewSchedule, ScheduleRow

LEMMA EmptyRowType == EmptyRow \in Row
BY DEF EmptyRow, Row, MatchState, Result, NoResult

LEMMA ReasonToWaitType ==
  ASSUME NEW s, NEW m, NEW off
  PROVE  ReasonToWait(s, m, off) \in StaleCode \cup {None}
BY DEF ReasonToWait, StaleCode

\* An entry of a schedule is a match, and no other entry is the same match.
LEMMA EntryType ==
  ASSUME NEW s \in Schedule
  PROVE  /\ DOMAIN Entries[s] = 1..Len(Entries[s]) /\ Len(Entries[s]) \in Nat
         /\ \A i \in DOMAIN Entries[s] : Entries[s][i] \in Match
         /\ MatchesOf(s) \subseteq Match
         /\ \A i \in DOMAIN Entries[s] : Pos(s, Entries[s][i]) = i
<1>1. Entries[s] \in Seq(Match)
  BY EntriesAssumption
<1>2. DOMAIN Entries[s] = 1..Len(Entries[s]) /\ Len(Entries[s]) \in Nat
  BY <1>1
<1>3. \A i \in DOMAIN Entries[s] : Entries[s][i] \in Match
  BY <1>1
<1>4. \A i \in DOMAIN Entries[s] : Pos(s, Entries[s][i]) = i
  BY EntriesAssumption DEF Pos
<1> QED BY <1>2, <1>3, <1>4 DEF MatchesOf

LEMMA SwitchedType ==
  ASSUME match \in [Match -> Row], NEW on, NEW off
  PROVE  Switched(on, off) \in [Match -> Row]
BY DEF Switched, Row

\* A walk begins at an entry, and what it passes are entries.
LEMMA WalkType ==
  ASSUME NEW s \in Schedule, sched[s].current \in Standing(s), NEW n \in 1..Len(Entries[s]) + 1
  PROVE  /\ WalkFrom(s) \in Nat \ {0}
         /\ \A i \in WalkFrom(s)..n - 1 : i \in DOMAIN Entries[s]
         /\ WalkedPast(s, n) \subseteq MatchesOf(s)
<1>1. WalkFrom(s) \in Nat \ {0}
  <2>1. CASE sched[s].current = None
    BY <2>1 DEF WalkFrom
  <2>2. CASE sched[s].current # None
    <3>1. PICK i \in DOMAIN Entries[s] : sched[s].current = Entries[s][i]
      BY <2>2 DEF Standing, MatchesOf
    <3>2. WalkFrom(s) = i
      BY <2>2, <3>1, EntryType DEF WalkFrom
    <3> QED BY <3>2, EntryType
  <2> QED BY <2>1, <2>2
<1>2. \A i \in WalkFrom(s)..n - 1 : i \in DOMAIN Entries[s]
  BY <1>1, EntryType
<1> QED BY <1>1, <1>2 DEF WalkedPast, MatchesOf

LEMMA VerdictType ==
  ASSUME match \in [Match -> Row], sched \in [Schedule -> ScheduleRow],
         NEW s \in Schedule, sched[s].current \in Standing(s), NEW n \in 1..Len(Entries[s]) + 1
  PROVE  /\ Verdict(s, n).srow \in ScheduleRow
         /\ Verdict(s, n).srow.current \in Standing(s)
         /\ Verdict(s, n).on \subseteq Match
         /\ Verdict(s, n).off \subseteq Match
<1> DEFINE off == Active(WalkedPast(s, n))
           m == Entries[s][n]
<1>1. sched[s] \in ScheduleRow
  OBVIOUS
<1>2. off \subseteq Match
  BY WalkType, EntryType DEF Active
<1>3. CASE n > Len(Entries[s])
  <2>1. Finished(sched[s]) \in ScheduleRow /\ Finished(sched[s]).current = None
    BY <1>1, ScheduleRowType DEF Finished, ScheduleRow
  <2> QED BY <1>2, <1>3, <2>1 DEF Verdict, Standing
<1>4. CASE ~(n > Len(Entries[s]))
  <2> DEFINE why == ReasonToWait(s, m, off)
             row == WaitingAt(sched[s], m, why)
  <2>1. m \in MatchesOf(s) /\ m \in Match
    BY <1>4, EntryType DEF MatchesOf
  <2>2. row \in ScheduleRow /\ row.current = m
    BY <1>1, <2>1, ReasonToWaitType, ScheduleRowType DEF WaitingAt, ScheduleRow
  <2>3. Verdict(s, n) = [srow |-> row, on |-> IF why = None THEN {m} \ Active(Match) ELSE {}, off |-> off]
    BY <1>4 DEF Verdict
  <2> HIDE DEF row, why
  <2> QED BY <1>2, <2>1, <2>2, <2>3 DEF Standing
<1> QED BY <1>3, <1>4

-----------------------------------------------------------------------------
(***************************************************************************)
(* Tasks.                                                                  *)
(***************************************************************************)

LEMMA IdleType == Idle \in Handler
BY EmptyRowType, NewScheduleType
   DEF Idle, Handler, WellFormed, Task, PC, Return, WithMatch, WithSchedule

LEMMA BecomeType ==
  ASSUME task \in [Worker -> Handler], NEW w \in Worker, NEW t \in Handler, Become(w, t)
  PROVE  task' \in [Worker -> Handler]
BY DEF Become

LEMMA AnswerType ==
  ASSUME task \in [Worker -> Handler], NEW w \in Worker, Answer(w)
  PROVE  task' \in [Worker -> Handler]
BY IdleType, BecomeType DEF Answer

LEMMA ResumedType ==
  ASSUME NEW t \in Task,
         t.then \in WithMatch => t.match \in Match /\ t.cmd \in MatchCommand
  PROVE  Resumed(t) \in Handler
<1>1. CASE t.then = "idle"
  BY <1>1, IdleType DEF Resumed
<1>2. CASE t.then # "idle"
  <2> DEFINE r == [t EXCEPT !.pc = t.then, !.then = "idle", !.schedule = None, !.srow = NewSchedule,
                            !.on = {}, !.off = {}, !.target = None, !.draft = EmptyRow]
  <2>1. r \in Task
    BY EmptyRowType, NewScheduleType DEF Task, PC, Return
  <2>2. WellFormed(r)
    BY <1>2 DEF WellFormed, Task, Return, WithMatch, WithSchedule
  <2> QED BY <1>2, <2>1, <2>2 DEF Resumed, Handler
<1> QED BY <1>1, <1>2

LEMMA ForScheduleType ==
  ASSUME NEW t \in Task, NEW m \in Match, NEW pc \in {"stop", "interrupt", "recalculate"},
         NEW then \in Return, pc = "interrupt" => m = t.match,
         then \in WithMatch => t.match \in Match /\ t.cmd \in MatchCommand
  PROVE  ForSchedule(t, m, pc, then) \in Handler
<1>1. CASE \E s \in Schedule : m \in MatchesOf(s)
  <2> DEFINE s == CHOOSE s \in Schedule : m \in MatchesOf(s)
             f == [t EXCEPT !.pc = pc, !.then = then, !.schedule = s]
  <2>1. s \in Schedule /\ m \in MatchesOf(s)
    BY <1>1
  <2>2. ForSchedule(t, m, pc, then) = f
    BY <1>1 DEF ForSchedule
  <2> HIDE DEF s
  <2>3. f \in Task
    BY <2>1 DEF Task, PC
  <2>4. WellFormed(f)
    BY <2>1 DEF WellFormed, Task, WithMatch, WithSchedule
  <2> QED BY <2>2, <2>3, <2>4 DEF Handler
<1>2. CASE ~\E s \in Schedule : m \in MatchesOf(s)
  <2> DEFINE f == [t EXCEPT !.then = then]
  <2>1. f \in Task /\ f.then = then /\ f.match = t.match /\ f.cmd = t.cmd
    BY DEF Task
  <2>2. ForSchedule(t, m, pc, then) = Resumed(f)
    BY <1>2 DEF ForSchedule
  <2> HIDE DEF f
  <2> QED BY <2>1, <2>2, ResumedType
<1> QED BY <1>1, <1>2

\* A handler with a match in hand, and one with a schedule.
LEMMA HandlesMatch ==
  ASSUME NEW t \in Task, t.pc \in WithMatch, t.match \in Match, t.cmd \in MatchCommand,
         t.pc = "manual" => t.cmd \in ManualCommand,
         t.pc = "target" => t.target \in Match
  PROVE  t \in Handler
BY DEF Handler, WellFormed, WithMatch, WithSchedule

LEMMA HandlesSchedule ==
  ASSUME NEW t \in Task, t.pc \in WithSchedule, t.schedule \in Schedule,
         t.then \in WithMatch => t.match \in Match /\ t.cmd \in MatchCommand,
         t.pc = "interrupt" => t.match \in MatchesOf(t.schedule),
         t.pc \in {"diff", "update", "settle"} => t.srow.current \in Standing(t.schedule)
  PROVE  t \in Handler
BY DEF Handler, WellFormed, WithMatch, WithSchedule

\* Loading and editing a match gives the handler a row to go on with.
LEMMA LoadAndEditType ==
  ASSUME match \in [Match -> Row], task \in [Worker -> Handler], NEW w \in Worker,
         NEW t \in Task, t.match \in Match, t.cmd \in MatchCommand, LoadAndEdit(w, t)
  PROVE  task' \in [Worker -> Handler]
<1> DEFINE row == match[t.match]
           loaded == [t EXCEPT !.row = row, !.schedule = None, !.then = "idle"]
<1>1. row \in Row
  OBVIOUS
<1> HIDE DEF row
<1>2. /\ loaded \in Task /\ loaded.then = "idle"
      /\ loaded.match = t.match /\ loaded.cmd = t.cmd
  BY <1>1 DEF Task, Return
<1> HIDE DEF loaded
<1>3. CASE Answer(w)
  BY <1>3, AnswerType
<1>4. CASE t.cmd \in ManualCommand /\ Become(w, [loaded EXCEPT !.pc = "manual"])
  <2> DEFINE edit == [loaded EXCEPT !.pc = "manual"]
  <2>1. /\ edit \in Task /\ edit.pc = "manual"
        /\ edit.match = t.match /\ edit.cmd = t.cmd
    BY <1>2 DEF Task, PC
  <2>2. Become(w, edit)
    BY <1>4
  <2> HIDE DEF edit
  <2>3. edit \in Handler
    BY <1>4, <2>1, HandlesMatch DEF WithMatch
  <2> QED BY <2>2, <2>3, BecomeType
<1>5. CASE Become(w, [loaded EXCEPT !.pc = "reverting", !.rules = RulesFrom(t.match)])
  <2>1. RulesFrom(t.match) \in SUBSET Rules
    BY DEF RulesFrom
  <2> DEFINE edit == [loaded EXCEPT !.pc = "reverting", !.rules = RulesFrom(t.match)]
  <2>2. edit \in Task
    BY <1>2, <2>1 DEF Task, PC
  <2>3. edit.pc = "reverting" /\ edit.then = "idle" /\ edit.match = t.match /\ edit.cmd = t.cmd
    BY <1>2 DEF Task
  <2>4. Become(w, edit)
    BY <1>5
  <2> HIDE DEF edit
  <2>5. edit \in Handler
    BY <1>2, <2>2, <2>3, HandlesMatch DEF WithMatch
  <2> QED BY <2>4, <2>5, BecomeType
<1>6. CASE \E edited \in Effect(t.cmd, row) :
             Become(w, [loaded EXCEPT !.pc = "save", !.row = edited,
                                      !.moved = OwesRecalculation(t.cmd, row, edited)])
  <2>1. PICK edited \in Effect(t.cmd, row) :
             Become(w, [loaded EXCEPT !.pc = "save", !.row = edited,
                                      !.moved = OwesRecalculation(t.cmd, row, edited)])
    BY <1>6
  <2>2. edited \in Row
    BY <1>1, EffectType
  <2>3. OwesRecalculation(t.cmd, row, edited) \in BOOLEAN
    BY DEF OwesRecalculation
  <2> DEFINE edit == [loaded EXCEPT !.pc = "save", !.row = edited,
                                    !.moved = OwesRecalculation(t.cmd, row, edited)]
  <2>4. edit \in Task
    BY <1>2, <2>2, <2>3 DEF Task, PC
  <2>5. edit.pc = "save" /\ edit.then = "idle" /\ edit.match = t.match /\ edit.cmd = t.cmd
    BY <1>2 DEF Task
  <2>6. Become(w, edit)
    BY <2>1
  <2> HIDE DEF edit
  <2>7. edit \in Handler
    BY <1>2, <2>4, <2>5, HandlesMatch DEF WithMatch
  <2> QED BY <2>6, <2>7, BecomeType
<1> QED BY <1>3, <1>4, <1>5, <1>6 DEF LoadAndEdit, row, loaded

-----------------------------------------------------------------------------
(***************************************************************************)
(* Type correctness: one lemma per action.                                 *)
(***************************************************************************)

LEMMA InitType == Init => TypeOK
<1> SUFFICES ASSUME Init PROVE TypeOK
  OBVIOUS
<1>1. match \in [Match -> Row]
  <2>1. \A m \in Match : InitialRows[m] \subseteq Row
    BY NamesAssumption
  <2> QED BY <2>1 DEF Init
<1>2. sched \in [Schedule -> ScheduleRow] /\ \A s \in Schedule : sched[s].current \in Standing(s)
  BY NewScheduleType DEF Init, NewSchedule, Standing
<1>3. task \in [Worker -> Handler]
  BY IdleType DEF Init
<1>4. crashes \in 0..MaxCrashes
  BY NamesAssumption DEF Init
<1> QED BY <1>1, <1>2, <1>3, <1>4 DEF Init, TypeOK

\* A step that moves nothing but the memory of one handler.
LEMMA OnlyTaskType ==
  ASSUME TypeOK, task' \in [Worker -> Handler], UNCHANGED <<tournament, match, sched, up, crashes>>
  PROVE  TypeOK'
BY DEF TypeOK

LEMMA BeginCommandType ==
  ASSUME TypeOK, NEW r \in Request, NEW m \in Match, NEW cmd \in Commands, BeginCommand(r, m, cmd)
  PROVE  TypeOK'
<1> DEFINE t == [Idle EXCEPT !.cmd = cmd, !.match = m]
<1>1. r \in Worker /\ cmd \in MatchCommand
  BY NamesAssumption DEF Worker
<1>2. Idle \in Task
  BY IdleType DEF Handler
<1>3. t \in Task /\ t.match = m /\ t.cmd = cmd
  BY <1>1, <1>2 DEF Task
<1>4. \/ \E pc \in {"load", "guard"} : Become(r, [t EXCEPT !.pc = pc])
      \/ LoadAndEdit(r, t)
  BY DEF BeginCommand
<1> HIDE DEF t
<1>5. ASSUME NEW pc \in {"load", "guard"}, Become(r, [t EXCEPT !.pc = pc])
      PROVE  task' \in [Worker -> Handler]
  <2> DEFINE e == [t EXCEPT !.pc = pc]
  <2>1. e \in Task /\ e.pc = pc /\ e.match = m /\ e.cmd = cmd
    BY <1>3 DEF Task, PC
  <2>2. Become(r, e)
    BY <1>5
  <2> HIDE DEF e
  <2>3. e \in Handler
    BY <1>1, <2>1, HandlesMatch DEF WithMatch
  <2> QED BY <1>1, <2>2, <2>3, BecomeType DEF TypeOK
<1>6. task' \in [Worker -> Handler]
  BY <1>1, <1>3, <1>4, <1>5, LoadAndEditType DEF TypeOK
<1> QED BY <1>6, OnlyTaskType DEF BeginCommand

LEMMA GuardScheduleType ==
  ASSUME TypeOK, NEW w \in Worker, GuardSchedule(w)
  PROVE  TypeOK'
<1> DEFINE t == task[w]
<1>1. t \in Task /\ t.match \in Match /\ t.cmd \in MatchCommand
  BY DEF TypeOK, GuardSchedule, At, Handler, WellFormed, WithMatch
<1>2. \/ Answer(w)
      \/ \E pc \in {"interrupt", "stop"} : Become(w, ForSchedule(t, t.match, pc, "load"))
      \/ Become(w, [t EXCEPT !.pc = "load"])
  BY DEF GuardSchedule
<1> HIDE DEF t
<1>3. ASSUME NEW pc \in {"interrupt", "stop"}, Become(w, ForSchedule(t, t.match, pc, "load"))
      PROVE  task' \in [Worker -> Handler]
  <2>1. ForSchedule(t, t.match, pc, "load") \in Handler
    BY <1>1, ForScheduleType DEF Return
  <2> QED BY <1>3, <2>1, BecomeType DEF TypeOK
<1>4. ASSUME Become(w, [t EXCEPT !.pc = "load"])
      PROVE  task' \in [Worker -> Handler]
  <2> DEFINE e == [t EXCEPT !.pc = "load"]
  <2>1. e \in Task /\ e.pc = "load" /\ e.match = t.match /\ e.cmd = t.cmd
    BY <1>1 DEF Task, PC
  <2>2. Become(w, e)
    BY <1>4
  <2> HIDE DEF e
  <2>3. e \in Handler
    BY <1>1, <2>1, HandlesMatch DEF WithMatch
  <2> QED BY <2>2, <2>3, BecomeType DEF TypeOK
<1>5. task' \in [Worker -> Handler]
  BY <1>2, <1>3, <1>4, AnswerType DEF TypeOK
<1> QED BY <1>5, OnlyTaskType DEF GuardSchedule

LEMMA LoadType ==
  ASSUME TypeOK, NEW w \in Worker, Load(w)
  PROVE  TypeOK'
<1>1. task[w] \in Task /\ task[w].match \in Match /\ task[w].cmd \in MatchCommand
  BY DEF TypeOK, Load, At, Handler, WellFormed, WithMatch
<1>2. task' \in [Worker -> Handler]
  BY <1>1, LoadAndEditType DEF Load, TypeOK
<1> QED BY <1>2, OnlyTaskType DEF Load

LEMMA ManualActivationType ==
  ASSUME TypeOK, NEW w \in Worker, ManualActivation(w)
  PROVE  TypeOK'
<1> DEFINE t == task[w]
<1>1. t \in Task /\ t.match \in Match /\ t.cmd \in MatchCommand
  BY DEF TypeOK, ManualActivation, At, Handler, WellFormed, WithMatch
<1>2. \/ Answer(w)
      \/ \E edited \in Effect(t.cmd, t.row) : Become(w, [t EXCEPT !.pc = "save", !.row = edited])
  BY DEF ManualActivation
<1> HIDE DEF t
<1>3. ASSUME NEW edited \in Effect(t.cmd, t.row), Become(w, [t EXCEPT !.pc = "save", !.row = edited])
      PROVE  task' \in [Worker -> Handler]
  <2> DEFINE e == [t EXCEPT !.pc = "save", !.row = edited]
  <2>1. t.row \in Row
    BY <1>1 DEF Task
  <2>2. edited \in Row
    BY <1>1, <2>1, EffectType
  <2>3. e \in Task /\ e.pc = "save" /\ e.match = t.match /\ e.cmd = t.cmd
    BY <1>1, <2>2 DEF Task, PC
  <2>4. Become(w, e)
    BY <1>3
  <2> HIDE DEF e
  <2>5. e \in Handler
    BY <1>1, <2>3, HandlesMatch DEF WithMatch
  <2> QED BY <2>4, <2>5, BecomeType DEF TypeOK
<1>4. task' \in [Worker -> Handler]
  BY <1>2, <1>3, AnswerType DEF TypeOK
<1> QED BY <1>4, OnlyTaskType DEF ManualActivation

LEMMA ApplyRuleType ==
  ASSUME TypeOK, NEW w \in Worker, ApplyRule(w)
  PROVE  TypeOK'
<1> DEFINE t == task[w]
           rest(rule) == [t EXCEPT !.rules = @ \ {rule}]
           wrote(rule, draft) == [rest(rule) EXCEPT !.pc = "target", !.then = t.pc,
                                                    !.target = rule.target, !.draft = draft]
<1>1. /\ t \in Task /\ t.match \in Match /\ t.cmd \in MatchCommand
      /\ t.pc \in {"reverting", "advancing"}
  BY DEF TypeOK, ApplyRule, Handler, WellFormed, WithMatch
<1>2. PICK rule \in t.rules :
        \/ Become(w, rest(rule))
        \/ \E p \in PlacedAt(t.row, rule.placement) :
             \E draft \in Placed(match[rule.target], p) \cup Released(match[rule.target], p) :
               Become(w, wrote(rule, draft))
  BY DEF ApplyRule
<1>3. rule.target \in Match
  BY <1>1, RulesAssumption DEF Task
<1>4. \A p \in PlacedAt(t.row, rule.placement) : p \in Player
  BY <1>1, PlacedAtEntrants DEF Task, Row
<1> HIDE DEF t
<1>5. /\ rest(rule) \in Task /\ rest(rule).pc = t.pc
      /\ rest(rule).match = t.match /\ rest(rule).cmd = t.cmd
  BY <1>1 DEF Task
<1>6. ASSUME Become(w, rest(rule))
      PROVE  task' \in [Worker -> Handler]
  <2>1. rest(rule) \in Handler
    BY <1>1, <1>5, HandlesMatch DEF WithMatch
  <2> QED BY <1>6, <2>1, BecomeType DEF TypeOK
<1>7. ASSUME NEW p \in PlacedAt(t.row, rule.placement),
             NEW draft \in Placed(match[rule.target], p) \cup Released(match[rule.target], p),
             Become(w, wrote(rule, draft))
      PROVE  task' \in [Worker -> Handler]
  <2>1. draft \in Row
    <3>1. match[rule.target] \in Row /\ p \in Player
      BY <1>3, <1>4 DEF TypeOK
    <3> QED BY <3>1, PlacedType, ReleasedType
  <2>2. /\ wrote(rule, draft) \in Task /\ wrote(rule, draft).pc = "target"
        /\ wrote(rule, draft).match = t.match /\ wrote(rule, draft).cmd = t.cmd
        /\ wrote(rule, draft).target = rule.target
    <3> DEFINE r == rest(rule)
               back == t.pc
               into == rule.target
    <3>1. back \in Return /\ "target" \in PC /\ into \in Match
      BY <1>1, <1>3 DEF Return, PC
    <3>2. r \in Task /\ r.match = t.match /\ r.cmd = t.cmd
      BY <1>5
    <3>3. wrote(rule, draft) = [r EXCEPT !.pc = "target", !.then = back, !.target = into, !.draft = draft]
      OBVIOUS
    <3> HIDE DEF r, back, into, wrote
    <3>4. wrote(rule, draft) \in Task
      BY <2>1, <3>1, <3>2, <3>3 DEF Task
    <3>5. /\ wrote(rule, draft).pc = "target" /\ wrote(rule, draft).match = r.match
          /\ wrote(rule, draft).cmd = r.cmd /\ wrote(rule, draft).target = into
      BY <3>2, <3>3 DEF Task
    <3> QED BY <3>2, <3>4, <3>5 DEF into
  <2>3. wrote(rule, draft) \in Handler
    <3> HIDE DEF wrote
    <3> QED BY <1>1, <1>3, <2>2, HandlesMatch DEF WithMatch
  <2> QED BY <1>7, <2>3, BecomeType DEF TypeOK
<1>8. task' \in [Worker -> Handler]
  BY <1>2, <1>6, <1>7
<1> QED BY <1>8, OnlyTaskType DEF ApplyRule

LEMMA SaveTargetType ==
  ASSUME TypeOK, NEW w \in Worker, SaveTarget(w)
  PROVE  TypeOK'
<1> DEFINE t == task[w]
<1>1. t \in Task /\ t.match \in Match /\ t.cmd \in MatchCommand
  BY DEF TypeOK, SaveTarget, At, Handler, WellFormed, WithMatch
<1>2. match' \in [Match -> Row]
  BY <1>1 DEF SaveTarget, TypeOK, Task
<1>3. ForSchedule(t, t.target, "recalculate", t.then) \in Handler
  <2>1. t.target \in Match /\ t.then \in Return
    BY DEF TypeOK, SaveTarget, At, Handler, WellFormed, Task
  <2> QED BY <1>1, <2>1, ForScheduleType
<1>4. task' \in [Worker -> Handler]
  BY <1>3, BecomeType DEF SaveTarget, TypeOK
<1> QED BY <1>2, <1>4 DEF SaveTarget, TypeOK

LEMMA RevertedType ==
  ASSUME TypeOK, NEW w \in Worker, Reverted(w)
  PROVE  TypeOK'
<1> DEFINE t == task[w]
           e(edited) == [t EXCEPT !.pc = "save", !.row = edited,
                                  !.moved = OwesRecalculation(t.cmd, t.row, edited)]
<1>1. t \in Task /\ t.match \in Match /\ t.cmd \in MatchCommand
  BY DEF TypeOK, Reverted, At, Handler, WellFormed, WithMatch
<1>2. Answer(w) \/ \E edited \in Effect(t.cmd, t.row) : Become(w, e(edited))
  BY DEF Reverted
<1> HIDE DEF t
<1>3. ASSUME NEW edited \in Effect(t.cmd, t.row), Become(w, e(edited))
      PROVE  task' \in [Worker -> Handler]
  <2>1. t.row \in Row
    BY <1>1 DEF Task
  <2>2. edited \in Row /\ OwesRecalculation(t.cmd, t.row, edited) \in BOOLEAN
    BY <1>1, <2>1, EffectType DEF OwesRecalculation
  <2>3. /\ e(edited) \in Task /\ e(edited).pc = "save"
        /\ e(edited).match = t.match /\ e(edited).cmd = t.cmd
    BY <1>1, <2>2 DEF Task, PC
  <2> HIDE DEF e
  <2>4. e(edited) \in Handler
    BY <1>1, <2>3, HandlesMatch DEF WithMatch
  <2> QED BY <1>3, <2>4, BecomeType DEF TypeOK
<1>4. task' \in [Worker -> Handler]
  BY <1>2, <1>3, AnswerType DEF TypeOK
<1> QED BY <1>4, OnlyTaskType DEF Reverted

LEMMA SaveType ==
  ASSUME TypeOK, NEW w \in Worker, Save(w)
  PROVE  TypeOK'
<1> DEFINE t == task[w]
           rules == IF t.cmd = "commit" THEN RulesFrom(t.match) ELSE {}
           e == [t EXCEPT !.pc = "advancing", !.rules = rules]
<1>1. t \in Task /\ t.match \in Match /\ t.cmd \in MatchCommand
  BY DEF TypeOK, Save, At, Handler, WellFormed, WithMatch
<1>2. match' \in [Match -> Row]
  BY <1>1 DEF Save, TypeOK, Task
<1>3. Become(w, e)
  BY DEF Save
<1>4. rules \in SUBSET Rules
  BY DEF RulesFrom
<1> HIDE DEF t, rules
<1>5. e \in Task /\ e.pc = "advancing" /\ e.match = t.match /\ e.cmd = t.cmd
  BY <1>1, <1>4 DEF Task, PC
<1> HIDE DEF e
<1>6. e \in Handler
  BY <1>1, <1>5, HandlesMatch DEF WithMatch
<1>7. task' \in [Worker -> Handler]
  BY <1>3, <1>6, BecomeType DEF TypeOK
<1> QED BY <1>2, <1>7 DEF Save, TypeOK

LEMMA SavedType ==
  ASSUME TypeOK, NEW w \in Worker, Saved(w)
  PROVE  TypeOK'
<1> DEFINE t == task[w]
<1>1. t \in Task /\ t.match \in Match
  BY DEF TypeOK, Saved, At, Handler, WellFormed, WithMatch
<1>2. ForSchedule(t, t.match, "recalculate", "idle") \in Handler
  BY <1>1, ForScheduleType DEF Return, WithMatch
<1>3. task' \in [Worker -> Handler]
  BY <1>2, AnswerType, BecomeType DEF Saved, TypeOK
<1> QED BY <1>3, OnlyTaskType DEF Saved

LEMMA RecalculateType ==
  ASSUME TypeOK, NEW w \in Worker, Recalculate(w)
  PROVE  TypeOK'
<1> DEFINE t == task[w]
           s == t.schedule
           holding(v) == [t EXCEPT !.pc = "settle", !.srow = v.srow, !.on = v.on, !.off = v.off]
           closed == [srow |-> Stopped(sched[s], "TOURNAMENT_CLOSED"), on |-> {}, off |-> OffCurrent(s)]
<1>1. /\ t \in Task /\ s \in Schedule
      /\ t.then \in WithMatch => t.match \in Match /\ t.cmd \in MatchCommand
  BY DEF TypeOK, Recalculate, At, Handler, WellFormed, WithSchedule
<1>2. sched[s] \in ScheduleRow /\ sched[s].current \in Standing(s)
  BY <1>1 DEF TypeOK
<1>3. \/ Become(w, Resumed(t))
      \/ Become(w, holding(closed))
      \/ \E n \in 1..Len(Entries[s]) + 1 : Become(w, holding(Verdict(s, n)))
  BY DEF Recalculate
<1>4. /\ closed.srow \in ScheduleRow /\ closed.srow.current \in Standing(s)
      /\ closed.on \subseteq Match /\ closed.off \subseteq Match
  <2>1. OffCurrent(s) \subseteq Match
    BY <1>2 DEF OffCurrent, Active, ScheduleRow
  <2>2. /\ Stopped(sched[s], "TOURNAMENT_CLOSED") \in ScheduleRow
        /\ Stopped(sched[s], "TOURNAMENT_CLOSED").current = sched[s].current
    BY <1>2, ScheduleRowType DEF Stopped, ScheduleRow, InterruptionCode
  <2> QED BY <1>2, <2>1, <2>2
<1>5. \A n \in 1..Len(Entries[s]) + 1 :
        /\ Verdict(s, n).srow \in ScheduleRow /\ Verdict(s, n).srow.current \in Standing(s)
        /\ Verdict(s, n).on \subseteq Match /\ Verdict(s, n).off \subseteq Match
  BY <1>1, <1>2, VerdictType DEF TypeOK
<1> HIDE DEF t, s, closed
<1>6. ASSUME NEW v, v.srow \in ScheduleRow, v.srow.current \in Standing(s),
             v.on \subseteq Match, v.off \subseteq Match, Become(w, holding(v))
      PROVE  task' \in [Worker -> Handler]
  <2>1. /\ holding(v) \in Task /\ holding(v).pc = "settle" /\ holding(v).schedule = t.schedule
        /\ holding(v).srow = v.srow /\ holding(v).match = t.match
        /\ holding(v).cmd = t.cmd /\ holding(v).then = t.then
    BY <1>1, <1>6 DEF Task, PC
  <2> HIDE DEF holding
  <2>2. holding(v) \in Handler
    BY <1>1, <1>6, <2>1, HandlesSchedule DEF WithSchedule, s
  <2> QED BY <1>6, <2>2, BecomeType DEF TypeOK
<1>7. ASSUME Become(w, Resumed(t))
      PROVE  task' \in [Worker -> Handler]
  BY <1>1, <1>7, ResumedType, BecomeType DEF TypeOK
<1>8. task' \in [Worker -> Handler]
  BY <1>3, <1>4, <1>5, <1>6, <1>7
<1> QED BY <1>8, OnlyTaskType DEF Recalculate

\* Once a transaction is over the handler goes on with what it had.
LEMMA AfterTransactionType ==
  ASSUME TypeOK, NEW w \in Worker, task[w].pc \in WithSchedule, Become(w, Resumed(task[w]))
  PROVE  task' \in [Worker -> Handler]
<1>1. /\ task[w] \in Task
      /\ task[w].then \in WithMatch => task[w].match \in Match /\ task[w].cmd \in MatchCommand
  BY DEF TypeOK, Handler, WellFormed
<1> QED BY <1>1, ResumedType, BecomeType DEF TypeOK

LEMMA SettleType ==
  ASSUME TypeOK, NEW w \in Worker, Settle(w)
  PROVE  TypeOK'
<1> DEFINE t == task[w]
<1>1. /\ t.pc \in WithSchedule /\ t.schedule \in Schedule
      /\ t.srow \in ScheduleRow /\ t.srow.current \in Standing(t.schedule)
  BY DEF TypeOK, Settle, At, Handler, WellFormed, WithSchedule, Task
<1>2. match' \in [Match -> Row]
  BY SwitchedType DEF Settle, TypeOK
<1>3. sched' \in [Schedule -> ScheduleRow] /\ \A s \in Schedule : sched'[s].current \in Standing(s)
  BY <1>1 DEF Settle, TypeOK
<1>4. task' \in [Worker -> Handler]
  BY <1>1, AfterTransactionType DEF Settle
<1> QED BY <1>2, <1>3, <1>4 DEF Settle, TypeOK

LEMMA StopType ==
  ASSUME TypeOK, NEW w \in Worker, Stop(w)
  PROVE  TypeOK'
<1> DEFINE t == task[w]
           s == t.schedule
<1>1. t.pc \in WithSchedule /\ s \in Schedule
  BY DEF TypeOK, Stop, At, Handler, WellFormed, WithSchedule
<1>2. match' \in [Match -> Row]
  BY SwitchedType DEF Stop, TypeOK
<1>3. sched' \in [Schedule -> ScheduleRow] /\ \A x \in Schedule : sched'[x].current \in Standing(x)
  <2>1. CASE UNCHANGED sched
    BY <2>1 DEF TypeOK
  <2>2. CASE \E code \in InterruptionCode \cup {None} :
                sched' = [sched EXCEPT ![s] = Stopped(sched[s], code)]
    <3>1. PICK code \in InterruptionCode \cup {None} :
                sched' = [sched EXCEPT ![s] = Stopped(sched[s], code)]
      BY <2>2
    <3>2. /\ Stopped(sched[s], code) \in ScheduleRow
          /\ Stopped(sched[s], code).current = sched[s].current
      <4>1. sched[s] \in ScheduleRow
        BY <1>1 DEF TypeOK
      <4>2. Stopped(sched[s], code) \in ScheduleRow
        BY <4>1, ScheduleRowType
      <4> QED BY <4>1, <4>2 DEF Stopped, ScheduleRow
    <3> HIDE DEF s
    <3> QED BY <1>1, <3>1, <3>2 DEF TypeOK
  <2> QED BY <2>1, <2>2 DEF Stop, InterruptionCode
<1>4. task' \in [Worker -> Handler]
  BY <1>1, AnswerType, AfterTransactionType DEF Stop, TypeOK
<1> QED BY <1>2, <1>3, <1>4 DEF Stop, TypeOK

LEMMA InterruptCompletedType ==
  ASSUME TypeOK, NEW w \in Worker, InterruptCompleted(w)
  PROVE  TypeOK'
<1> DEFINE t == task[w]
           s == t.schedule
<1>1. t.pc \in WithSchedule /\ s \in Schedule /\ t.match \in MatchesOf(s) /\ t.match \in Match
  BY EntryType DEF TypeOK, InterruptCompleted, At, Handler, WellFormed, WithSchedule
<1>2. sched' \in [Schedule -> ScheduleRow] /\ \A x \in Schedule : sched'[x].current \in Standing(x)
  <2>1. CASE UNCHANGED sched
    BY <2>1 DEF TypeOK
  <2>2. CASE sched' = [sched EXCEPT ![s] = Interrupted(sched[s], t.match)]
    <3>1. /\ Interrupted(sched[s], t.match) \in ScheduleRow
          /\ Interrupted(sched[s], t.match).current = t.match
      BY <1>1, ScheduleRowType DEF TypeOK, Interrupted
    <3> HIDE DEF s, t
    <3> QED BY <1>1, <2>2, <3>1 DEF TypeOK, Standing
  <2> QED BY <2>1, <2>2 DEF InterruptCompleted
<1>3. task' \in [Worker -> Handler]
  BY <1>1, AnswerType, AfterTransactionType DEF InterruptCompleted, TypeOK
<1> QED BY <1>2, <1>3 DEF InterruptCompleted, TypeOK

LEMMA EditsType ==
  ASSUME TypeOK, NEW r \in Request, NEW s \in Schedule, NEW cmd \in ControlCommand,
         NEW srow \in ScheduleRow, srow.current \in Standing(s), Edits(r, s, cmd, srow)
  PROVE  TypeOK'
<1> DEFINE e == [Idle EXCEPT !.pc = "diff", !.cmd = cmd, !.schedule = s, !.srow = srow]
<1>1. Idle \in Task /\ Idle.then = "idle"
  BY IdleType DEF Handler, Idle
<1>2. Become(r, e)
  BY DEF Edits
<1>3. e \in Task /\ e.pc = "diff" /\ e.schedule = s /\ e.srow = srow /\ e.then = "idle"
  BY <1>1 DEF Task, PC
<1> HIDE DEF e
<1>4. e \in Handler
  BY <1>3, HandlesSchedule DEF WithSchedule, WithMatch
<1>5. task' \in [Worker -> Handler]
  BY <1>2, <1>4, BecomeType DEF TypeOK, Worker
<1> QED BY <1>5, OnlyTaskType DEF Edits

LEMMA BeginStartType ==
  ASSUME TypeOK, NEW r \in Request, NEW s \in Schedule, BeginStart(r, s)
  PROVE  TypeOK'
<1>1. PICK m \in Standing(s) : Edits(r, s, "start", Started(sched[s], m))
  BY DEF BeginStart, Standing
<1>2. sched[s] \in ScheduleRow /\ m \in Match \cup {None}
  BY EntryType DEF TypeOK, Standing
<1>3. Started(sched[s], m) \in ScheduleRow /\ Started(sched[s], m).current = m
  <2>1. Started(sched[s], m) \in ScheduleRow
    BY <1>2, ScheduleRowType
  <2> QED BY <1>2, <2>1 DEF Started, ScheduleRow
<1> QED BY <1>1, <1>3, EditsType DEF ControlCommand

LEMMA BeginArchiveType ==
  ASSUME TypeOK, NEW r \in Request, NEW s \in Schedule, BeginArchive(r, s)
  PROVE  TypeOK'
<1>1. sched[s] \in ScheduleRow /\ sched[s].current \in Standing(s)
  BY DEF TypeOK
<1>2. PICK cmd \in ControlCommand, flag \in BOOLEAN : Edits(r, s, cmd, [sched[s] EXCEPT !.archived = flag])
  BY DEF BeginArchive, ControlCommand
<1>3. /\ [sched[s] EXCEPT !.archived = flag] \in ScheduleRow
      /\ [sched[s] EXCEPT !.archived = flag].current = sched[s].current
  BY <1>1 DEF ScheduleRow
<1> QED BY <1>1, <1>2, <1>3, EditsType

LEMMA DiffScheduleType ==
  ASSUME TypeOK, NEW w \in Worker, DiffSchedule(w)
  PROVE  TypeOK'
<1> DEFINE t == task[w]
           dirty == {c \in Column : t.srow[c] # sched[t.schedule][c]}
           e == [t EXCEPT !.pc = "update", !.dirty = dirty]
<1>1. /\ t \in Task /\ t.schedule \in Schedule /\ t.srow.current \in Standing(t.schedule)
      /\ t.then \in WithMatch => t.match \in Match /\ t.cmd \in MatchCommand
  BY DEF TypeOK, DiffSchedule, At, Handler, WellFormed, WithSchedule
<1>2. Become(w, e)
  BY DEF DiffSchedule
<1>3. dirty \in SUBSET Column
  OBVIOUS
<1> HIDE DEF t, dirty
<1>4. /\ e \in Task /\ e.pc = "update" /\ e.schedule = t.schedule /\ e.srow = t.srow
      /\ e.then = t.then /\ e.match = t.match /\ e.cmd = t.cmd
  BY <1>1, <1>3 DEF Task, PC
<1> HIDE DEF e
<1>5. e \in Handler
  BY <1>1, <1>4, HandlesSchedule DEF WithSchedule
<1>6. task' \in [Worker -> Handler]
  BY <1>2, <1>5, BecomeType DEF TypeOK
<1> QED BY <1>6, OnlyTaskType DEF DiffSchedule

LEMMA UpdateScheduleType ==
  ASSUME TypeOK, NEW w \in Worker, UpdateSchedule(w)
  PROVE  TypeOK'
<1> DEFINE t == task[w]
           s == t.schedule
           row == Updated(sched[s], t.srow, t.dirty)
           e == [Idle EXCEPT !.pc = "takeBack", !.cmd = t.cmd, !.schedule = s]
<1>1. t \in Task /\ s \in Schedule /\ t.srow \in ScheduleRow /\ t.srow.current \in Standing(s)
  BY DEF TypeOK, UpdateSchedule, At, Handler, WellFormed, WithSchedule, Task
<1>2. sched[s] \in ScheduleRow /\ sched[s].current \in Standing(s)
  BY <1>1 DEF TypeOK
<1>3. row \in ScheduleRow /\ row.current \in Standing(s)
  <2>1. row \in ScheduleRow
    BY <1>1, <1>2, ScheduleRowType
  <2> QED BY <1>1, <1>2, <2>1 DEF Updated
<1>4. sched' = [sched EXCEPT ![s] = row] /\ (Answer(w) \/ Become(w, e))
  BY DEF UpdateSchedule
<1> HIDE DEF row, t, s
<1>5. sched' \in [Schedule -> ScheduleRow] /\ \A x \in Schedule : sched'[x].current \in Standing(x)
  BY <1>1, <1>3, <1>4 DEF TypeOK
<1>6. e \in Handler
  <2>1. Idle \in Task /\ Idle.then = "idle"
    BY IdleType DEF Handler, Idle
  <2>2. e \in Task /\ e.pc = "takeBack" /\ e.schedule = s /\ e.then = "idle"
    BY <1>1, <2>1 DEF Task, PC
  <2> HIDE DEF e
  <2> QED BY <1>1, <2>2, HandlesSchedule DEF WithSchedule, WithMatch
<1>7. task' \in [Worker -> Handler]
  BY <1>4, <1>6, AnswerType, BecomeType DEF TypeOK
<1> QED BY <1>5, <1>7 DEF UpdateSchedule, TypeOK

LEMMA TakeBackType ==
  ASSUME TypeOK, NEW w \in Worker, TakeBack(w)
  PROVE  TypeOK'
<1> DEFINE t == task[w]
           e == [t EXCEPT !.pc = "recalculate"]
<1>1. /\ t \in Task /\ t.schedule \in Schedule
      /\ t.then \in WithMatch => t.match \in Match /\ t.cmd \in MatchCommand
  BY DEF TypeOK, TakeBack, At, Handler, WellFormed, WithSchedule
<1>2. Become(w, e)
  BY DEF TakeBack
<1> HIDE DEF t
<1>3. /\ e \in Task /\ e.pc = "recalculate" /\ e.schedule = t.schedule
      /\ e.then = t.then /\ e.match = t.match /\ e.cmd = t.cmd
  BY <1>1 DEF Task, PC
<1> HIDE DEF e
<1>4. e \in Handler
  BY <1>1, <1>3, HandlesSchedule DEF WithSchedule
<1>5. task' \in [Worker -> Handler]
  BY <1>2, <1>4, BecomeType DEF TypeOK
<1>6. match' \in [Match -> Row]
  BY SwitchedType DEF TakeBack, TypeOK
<1> QED BY <1>5, <1>6 DEF TakeBack, TypeOK

LEMMA BeginStopType ==
  ASSUME TypeOK, NEW r \in Request, NEW s \in Schedule, BeginStop(r, s)
  PROVE  TypeOK'
<1> DEFINE e == [Idle EXCEPT !.pc = "stop", !.cmd = "stop", !.schedule = s]
<1>1. Idle \in Task /\ Idle.then = "idle"
  BY IdleType DEF Handler, Idle
<1>2. Become(r, e)
  BY DEF BeginStop
<1>3. e \in Task /\ e.pc = "stop" /\ e.schedule = s /\ e.then = "idle"
  BY <1>1 DEF Task, PC, ControlCommand
<1> HIDE DEF e
<1>4. e \in Handler
  BY <1>3, HandlesSchedule DEF WithSchedule, WithMatch
<1>5. task' \in [Worker -> Handler]
  BY <1>2, <1>4, BecomeType DEF TypeOK, Worker
<1> QED BY <1>5, OnlyTaskType DEF BeginStop

\* A handler that visits one schedule after another, between two of them.
LEMMA VisitorType ==
  ASSUME NEW t \in Task, NEW pc \in {"closing", "sweep"},
         NEW sweep \in SUBSET Schedule,
         t.then \in WithMatch => t.match \in Match /\ t.cmd \in MatchCommand
  PROVE  [t EXCEPT !.pc = pc, !.sweep = sweep] \in Handler
<1> DEFINE e == [t EXCEPT !.pc = pc, !.sweep = sweep]
<1>1. /\ e \in Task /\ e.pc = pc /\ e.then = t.then
      /\ e.match = t.match /\ e.cmd = t.cmd
  BY DEF Task, PC
<1> HIDE DEF e
<1>2. e \in Handler
  BY <1>1 DEF Handler, WellFormed, WithMatch, WithSchedule
<1> QED BY <1>2 DEF e

LEMMA CloseType ==
  ASSUME TypeOK, NEW r \in Request, Close(r)
  PROVE  TypeOK'
<1> DEFINE e == [Idle EXCEPT !.pc = "closing", !.cmd = "close"]
<1>1. Idle \in Task /\ Idle.then = "idle"
  BY IdleType DEF Handler, Idle
<1>2. Become(r, e)
  BY DEF Close
<1>3. e \in Task /\ e.pc = "closing" /\ e.then = "idle"
  BY <1>1 DEF Task, PC, ControlCommand
<1> HIDE DEF e
<1>4. e \in Handler
  BY <1>3 DEF Handler, WellFormed, WithMatch, WithSchedule
<1>5. task' \in [Worker -> Handler]
  BY <1>2, <1>4, BecomeType DEF TypeOK, Worker
<1> QED BY <1>5 DEF Close, TypeOK

LEMMA StopTournamentType ==
  ASSUME TypeOK, NEW w \in Worker, StopTournament(w)
  PROVE  TypeOK'
<1>1. /\ task[w] \in Task
      /\ task[w].then \in WithMatch => task[w].match \in Match /\ task[w].cmd \in MatchCommand
  BY DEF TypeOK, Handler, WellFormed
<1>2. [task[w] EXCEPT !.pc = "sweep", !.sweep = RunningSchedules] \in Handler
  BY <1>1, VisitorType DEF RunningSchedules
<1>3. task' \in [Worker -> Handler]
  BY <1>2, BecomeType DEF StopTournament, TypeOK
<1> QED BY <1>3, OnlyTaskType DEF StopTournament

LEMMA RestartType ==
  ASSUME TypeOK, Restart
  PROVE  TypeOK'
<1> DEFINE e == [Idle EXCEPT !.pc = "sweep", !.cmd = "boot", !.sweep = RunningSchedules]
<1>1. Idle \in Task /\ Idle.then = "idle"
  BY IdleType DEF Handler, Idle
<1>2. Become(Boot, e)
  BY DEF Restart
<1>3. e \in Task /\ e.pc = "sweep" /\ e.then = "idle"
  BY <1>1 DEF Task, PC, RunningSchedules
<1> HIDE DEF e
<1>4. e \in Handler
  BY <1>3 DEF Handler, WellFormed, WithMatch, WithSchedule
<1>5. task' \in [Worker -> Handler]
  BY <1>2, <1>4, BecomeType DEF TypeOK, Worker
<1> QED BY <1>5, OnlyTaskType DEF Restart

LEMMA SweepType ==
  ASSUME TypeOK, NEW w \in Worker, Sweep(w)
  PROVE  TypeOK'
<1> DEFINE t == task[w]
           pc == IF t.cmd = "boot" THEN "recalculate" ELSE "stop"
           e(s) == [t EXCEPT !.pc = pc, !.then = "sweep", !.schedule = s, !.sweep = @ \ {s}]
<1>1. t \in Task
  BY DEF TypeOK, Handler
<1>2. Answer(w) \/ \E s \in t.sweep : Become(w, e(s))
  BY DEF Sweep
<1>3. pc \in {"stop", "recalculate"}
  OBVIOUS
<1>4. up' \in BOOLEAN
  BY DEF Sweep, TypeOK
<1> HIDE DEF t, pc
<1>5. ASSUME NEW s \in t.sweep, Become(w, e(s))
      PROVE  task' \in [Worker -> Handler]
  <2>1. s \in Schedule
    BY <1>1 DEF Task
  <2>2. e(s) \in Task /\ e(s).pc = pc /\ e(s).schedule = s /\ e(s).then = "sweep"
    BY <1>1, <1>3, <2>1 DEF Task, PC, Return
  <2> HIDE DEF e
  <2>3. e(s) \in Handler
    BY <1>3, <2>1, <2>2, HandlesSchedule DEF WithSchedule, WithMatch
  <2> QED BY <1>5, <2>3, BecomeType DEF TypeOK
<1>6. task' \in [Worker -> Handler]
  BY <1>2, <1>5, AnswerType DEF TypeOK
<1> QED BY <1>4, <1>6 DEF Sweep, TypeOK

LEMMA CrashType ==
  ASSUME TypeOK, Crash
  PROVE  TypeOK'
<1>1. task' \in [Worker -> Handler]
  BY IdleType DEF Crash
<1>2. crashes' \in 0..MaxCrashes
  BY NamesAssumption DEF Crash, TypeOK
<1> QED BY <1>1, <1>2 DEF Crash, TypeOK

(***************************************************************************)
(* TypeOK is inductive.                                                    *)
(***************************************************************************)
LEMMA NextType ==
  ASSUME TypeOK, [Next]_vars
  PROVE  TypeOK'
<1>1. ASSUME NEW r \in Request, Begin(r) PROVE TypeOK'
  <2>1. ASSUME NEW m \in Match, NEW cmd \in Commands, BeginCommand(r, m, cmd) PROVE TypeOK'
    BY <2>1, BeginCommandType
  <2>2. ASSUME NEW s \in Schedule, BeginStart(r, s) \/ BeginArchive(r, s) \/ BeginStop(r, s)
        PROVE  TypeOK'
    BY <2>2, BeginStartType, BeginArchiveType, BeginStopType
  <2>3. CASE Close(r)
    BY <2>3, CloseType
  <2>4. CASE ReopenTournament(r)
    BY <2>4 DEF ReopenTournament, TypeOK
  <2> QED BY <1>1, <2>1, <2>2, <2>3, <2>4 DEF Begin
<1>2. ASSUME NEW w \in Worker, Proceed(w) PROVE TypeOK'
  BY <1>2, GuardScheduleType, LoadType, ManualActivationType, ApplyRuleType, SaveTargetType,
     RevertedType, SaveType, SavedType, SettleType, DiffScheduleType, TakeBackType,
     StopTournamentType, SweepType
     DEF Proceed
<1>3. ASSUME NEW w \in Worker, WithLock(w) PROVE TypeOK'
  BY <1>3, RecalculateType, StopType, InterruptCompletedType, UpdateScheduleType DEF WithLock
<1>4. CASE UNCHANGED vars
  BY <1>4 DEF vars, TypeOK
<1> QED BY <1>1, <1>2, <1>3, <1>4, RestartType, CrashType DEF Next

(***************************************************************************)
(* Every row keeps the columns of its table and stands at one of its       *)
(* entries, and every handler has what its step reads, however requests    *)
(* interleave and whenever the server goes down.                           *)
(***************************************************************************)
THEOREM TypeCorrect == Spec => []TypeOK
<1>1. Init => TypeOK
  BY InitType
<1>2. TypeOK /\ [Next]_vars => TypeOK'
  BY NextType
<1> QED BY <1>1, <1>2, PTL DEF Spec

-----------------------------------------------------------------------------
(***************************************************************************)
(* What the row lock of a schedule is worth: while a recalculation holds   *)
(* it nobody else writes the row, so a schedule that was stopped or that   *)
(* completed is not brought back and the walk never goes back.             *)
(***************************************************************************)

\* The steps LockDiscipline speaks of.
Watched == {"settle", "diff", "update"}

\* A handler goes on to none of them, or is done.
GoesElsewhere(w) == \E t : t.pc \notin Watched /\ Become(w, t)

\* Nor does a handler begin to visit one schedule after another, or come back
\* to it, unless it is on such a visit.
Visits == {"closing", "sweep"}
Apart(t, then) ==
  /\ t.pc \notin Watched
  /\ then # "sweep" => t.pc \notin Visits /\ t.then # "sweep"

GoesOn(w) == \E t : Become(w, t) /\ Apart(t, task[w].then)

\* Nobody but this handler sees the row it holds change.
SparesHolders(w) ==
  \A v \in Worker \ {w} :
    At(v, "settle") => sched'[task[v].schedule] = sched[task[v].schedule]

(***************************************************************************)
(* A handler that does not take the lock, and writes no row somebody else  *)
(* holds, keeps the discipline.                                            *)
(***************************************************************************)
LEMMA UnheldKept ==
  ASSUME TypeOK, LockDiscipline, NEW w \in Worker, NEW t, Become(w, t), t.pc # "settle",
         t.pc \in {"diff", "update"} /\ t.cmd # "start" => t.srow.status = "completed",
         SparesHolders(w)
  PROVE  LockDiscipline'
<1>1. task'[w] = t /\ \A v \in Worker \ {w} : task'[v] = task[v]
  BY DEF Become, TypeOK
<1>2. OneHolder'
  BY <1>1 DEF LockDiscipline, OneHolder, At
<1>3. HolderWalksOn'
  <2> SUFFICES ASSUME NEW v \in Worker, At(v, "settle")'
               PROVE  WalksOn(task[v].schedule, task[v].srow)'
    BY DEF HolderWalksOn
  <2>1. v # w
    BY <1>1 DEF At
  <2>2. task'[v] = task[v] /\ At(v, "settle")
    BY <1>1, <2>1 DEF At
  <2>3. sched'[task'[v].schedule] = sched[task[v].schedule]
    BY <2>1, <2>2 DEF SparesHolders
  <2> QED BY <2>2, <2>3 DEF LockDiscipline, HolderWalksOn, WalksOn, Running
<1>4. EditsCompleted'
  BY <1>1 DEF LockDiscipline, EditsCompleted
<1> QED BY <1>2, <1>3, <1>4 DEF LockDiscipline

LEMMA ElsewhereKept ==
  ASSUME TypeOK, LockDiscipline, NEW w \in Worker, GoesElsewhere(w), SparesHolders(w)
  PROVE  LockDiscipline'
BY UnheldKept DEF GoesElsewhere, Watched

-----------------------------------------------------------------------------
(***************************************************************************)
(* The handlers that go elsewhere.                                         *)
(***************************************************************************)

LEMMA GoesOnElsewhere ==
  ASSUME NEW w, GoesOn(w)
  PROVE  GoesElsewhere(w)
BY DEF GoesOn, Apart, GoesElsewhere

LEMMA AnswerGoesOn ==
  ASSUME NEW w, Answer(w)
  PROVE  GoesOn(w)
BY DEF Answer, GoesOn, Apart, Idle, Watched, Visits

LEMMA ResumedApart ==
  ASSUME NEW t \in Task
  PROVE  Apart(Resumed(t), t.then)
BY DEF Resumed, Idle, Task, Return, Apart, Watched, Visits

LEMMA ForScheduleApart ==
  ASSUME NEW t \in Task, NEW m, NEW pc \in PC \ (Watched \cup Visits), NEW then \in Return
  PROVE  Apart(ForSchedule(t, m, pc, then), then)
<1>1. CASE \E s \in Schedule : m \in MatchesOf(s)
  BY <1>1 DEF ForSchedule, Task, Apart
<1>2. CASE ~\E s \in Schedule : m \in MatchesOf(s)
  <2>1. [t EXCEPT !.then = then] \in Task /\ [t EXCEPT !.then = then].then = then
    BY DEF Task
  <2> QED BY <1>2, <2>1, ResumedApart DEF ForSchedule
<1> QED BY <1>1, <1>2

LEMMA LoadAndEditGoesOn ==
  ASSUME NEW w \in Worker, NEW t \in Task, LoadAndEdit(w, t)
  PROVE  GoesOn(w)
<1> DEFINE loaded == [t EXCEPT !.row = match[t.match], !.schedule = None, !.then = "idle"]
<1>1. DOMAIN loaded = DOMAIN Idle /\ {"pc", "then"} \subseteq DOMAIN loaded /\ loaded.then = "idle"
  BY DEF Task, Idle
<1>2. \/ Answer(w)
      \/ Become(w, [loaded EXCEPT !.pc = "manual"])
      \/ Become(w, [loaded EXCEPT !.pc = "reverting", !.rules = RulesFrom(t.match)])
      \/ \E edited : Become(w, [loaded EXCEPT !.pc = "save", !.row = edited,
                                  !.moved = OwesRecalculation(t.cmd, match[t.match], edited)])
  BY DEF LoadAndEdit
<1> HIDE DEF loaded
<1>3. CASE Become(w, [loaded EXCEPT !.pc = "manual"])
  BY <1>1, <1>3 DEF GoesOn, Apart, Watched, Visits
<1>4. CASE Become(w, [loaded EXCEPT !.pc = "reverting", !.rules = RulesFrom(t.match)])
  <2> DEFINE e == [loaded EXCEPT !.pc = "reverting", !.rules = RulesFrom(t.match)]
  <2>1. e.pc = "reverting" /\ e.then = "idle"
    BY <1>1
  <2>2. Become(w, e)
    BY <1>4
  <2> HIDE DEF e
  <2> QED BY <2>1, <2>2 DEF GoesOn, Apart, Watched, Visits
<1>5. ASSUME NEW edited, NEW moved, Become(w, [loaded EXCEPT !.pc = "save", !.row = edited, !.moved = moved])
      PROVE  GoesOn(w)
  <2> DEFINE e == [loaded EXCEPT !.pc = "save", !.row = edited, !.moved = moved]
  <2>1. e.pc = "save" /\ e.then = "idle"
    BY <1>1
  <2>2. Become(w, e)
    BY <1>5
  <2> HIDE DEF e
  <2> QED BY <2>1, <2>2 DEF GoesOn, Apart, Watched, Visits
<1> QED BY <1>2, <1>3, <1>4, <1>5, AnswerGoesOn

LEMMA BeginCommandGoesOn ==
  ASSUME NEW r \in Request, NEW m \in Match, NEW cmd \in Commands, BeginCommand(r, m, cmd)
  PROVE  GoesOn(r)
<1> DEFINE t == [Idle EXCEPT !.cmd = cmd, !.match = m]
<1>1. t \in Task /\ t.then = "idle"
  <2>1. Idle \in Task /\ Idle.then = "idle"
    BY IdleType DEF Handler, Idle
  <2> QED BY <2>1, NamesAssumption DEF Task
<1>2. \/ \E pc \in {"load", "guard"} : Become(r, [t EXCEPT !.pc = pc])
      \/ LoadAndEdit(r, t)
  BY DEF BeginCommand
<1> HIDE DEF t
<1>3. ASSUME NEW pc \in {"load", "guard"}, Become(r, [t EXCEPT !.pc = pc])
      PROVE  GoesOn(r)
  BY <1>1, <1>3 DEF Task, GoesOn, Apart, Watched, Visits
<1> QED BY <1>1, <1>2, <1>3, LoadAndEditGoesOn DEF Worker

\* The steps on a match, and the last before the walk of a start.
MatchStep(w) ==
  \/ GuardSchedule(w) \/ Load(w) \/ ManualActivation(w) \/ ApplyRule(w) \/ SaveTarget(w)
  \/ Reverted(w) \/ Save(w) \/ Saved(w) \/ TakeBack(w)

LEMMA MatchStepsGoOn ==
  ASSUME TypeOK, NEW w \in Worker, MatchStep(w)
  PROVE  GoesOn(w)
<1> DEFINE t == task[w]
<1>1. t \in Task /\ t.then \in Return
  BY DEF TypeOK, Handler, Task
<1>2. \A e : Apart(e, t.then) /\ Become(w, e) => GoesOn(w)
  BY DEF GoesOn
<1>3. CASE GuardSchedule(w)
  <2>1. \/ Answer(w)
        \/ \E pc \in {"interrupt", "stop"} : Become(w, ForSchedule(t, t.match, pc, "load"))
        \/ Become(w, [t EXCEPT !.pc = "load"])
    BY <1>3 DEF GuardSchedule
  <2>2. \A pc \in {"interrupt", "stop"} : Apart(ForSchedule(t, t.match, pc, "load"), "load")
    BY <1>1, ForScheduleApart DEF Return, PC, Watched, Visits
  <2>3. Apart([t EXCEPT !.pc = "load"], t.then)
    BY <1>1 DEF Task, Apart, Watched, Visits
  <2>4. \A e : Apart(e, "load") => Apart(e, t.then)
    BY DEF Apart
  <2> QED BY <1>2, <2>1, <2>2, <2>3, <2>4, AnswerGoesOn
<1>4. CASE Load(w)
  BY <1>1, <1>4, LoadAndEditGoesOn DEF Load
<1>5. CASE ManualActivation(w)
  <2>1. Answer(w) \/ \E edited : Become(w, [t EXCEPT !.pc = "save", !.row = edited])
    BY <1>5 DEF ManualActivation
  <2>2. \A edited : Apart([t EXCEPT !.pc = "save", !.row = edited], t.then)
    BY <1>1 DEF Task, Apart, Watched, Visits
  <2> QED BY <1>2, <2>1, <2>2, AnswerGoesOn
<1>6. CASE ApplyRule(w)
  <2> DEFINE rest(rule) == [t EXCEPT !.rules = @ \ {rule}]
             wrote(rule, draft) == [rest(rule) EXCEPT !.pc = "target", !.then = t.pc,
                                                      !.target = rule.target, !.draft = draft]
  <2>1. \/ \E rule : Become(w, rest(rule))
        \/ \E rule, draft : Become(w, wrote(rule, draft))
    BY <1>6 DEF ApplyRule
  <2>2. t.pc \in {"reverting", "advancing"}
    BY <1>6 DEF ApplyRule
  <2>3. \A rule : Apart(rest(rule), t.then)
    BY <1>1, <2>2 DEF Task, Apart, Watched, Visits
  <2>4. \A rule, draft : Apart(wrote(rule, draft), t.then)
    BY <1>1, <2>2 DEF Task, Apart, Watched, Visits
  <2> QED BY <1>2, <2>1, <2>3, <2>4
<1>7. CASE SaveTarget(w)
  <2>1. Apart(ForSchedule(t, t.target, "recalculate", t.then), t.then)
    BY <1>1, ForScheduleApart DEF PC, Watched, Visits
  <2> QED BY <1>2, <1>7, <2>1 DEF SaveTarget
<1>8. CASE Reverted(w)
  <2> DEFINE e(edited) == [t EXCEPT !.pc = "save", !.row = edited,
                                    !.moved = OwesRecalculation(t.cmd, t.row, edited)]
  <2>1. Answer(w) \/ \E edited : Become(w, e(edited))
    BY <1>8 DEF Reverted
  <2>2. \A edited : Apart(e(edited), t.then)
    BY <1>1 DEF Task, Apart, Watched, Visits
  <2> QED BY <1>2, <2>1, <2>2, AnswerGoesOn
<1>9. CASE Save(w)
  <2> DEFINE rules == IF t.cmd = "commit" THEN RulesFrom(t.match) ELSE {}
  <2>1. Apart([t EXCEPT !.pc = "advancing", !.rules = rules], t.then)
    BY <1>1 DEF Task, Apart, Watched, Visits
  <2>2. Become(w, [t EXCEPT !.pc = "advancing", !.rules = rules])
    BY <1>9 DEF Save
  <2> QED BY <1>2, <2>1, <2>2
<1>10. CASE Saved(w)
  <2>1. Apart(ForSchedule(t, t.match, "recalculate", "idle"), "idle")
    BY <1>1, ForScheduleApart DEF Return, PC, Watched, Visits
  <2>2. \A e : Apart(e, "idle") => Apart(e, t.then)
    BY DEF Apart
  <2> QED BY <1>2, <1>10, <2>1, <2>2, AnswerGoesOn DEF Saved
<1>11. CASE TakeBack(w)
  <2>1. Apart([t EXCEPT !.pc = "recalculate"], t.then)
    BY <1>1 DEF Task, Apart, Watched, Visits
  <2> QED BY <1>2, <1>11, <2>1 DEF TakeBack
<1> QED BY <1>3, <1>4, <1>5, <1>6, <1>7, <1>8, <1>9, <1>10, <1>11 DEF MatchStep

\* The steps that leave every schedule row alone.
LEMMA QuietStepsElsewhere ==
  ASSUME TypeOK, NEW w \in Worker, MatchStep(w) \/ StopTournament(w) \/ Sweep(w)
  PROVE  GoesElsewhere(w)
<1> DEFINE t == task[w]
<1>1. t \in Task
  BY DEF TypeOK, Handler
<1>2. \A e : e.pc \notin Watched /\ Become(w, e) => GoesElsewhere(w)
  BY DEF GoesElsewhere
<1>3. CASE StopTournament(w)
  <2>1. [t EXCEPT !.pc = "sweep", !.sweep = RunningSchedules].pc \notin Watched
    BY <1>1 DEF Task, Watched
  <2> QED BY <1>2, <1>3, <2>1 DEF StopTournament
<1>4. CASE Sweep(w)
  <2> DEFINE pc == IF t.cmd = "boot" THEN "recalculate" ELSE "stop"
             e(s) == [t EXCEPT !.pc = pc, !.then = "sweep", !.schedule = s, !.sweep = @ \ {s}]
  <2>1. Answer(w) \/ \E s : Become(w, e(s))
    BY <1>4 DEF Sweep
  <2>2. \A s : e(s).pc \notin Watched
    BY <1>1 DEF Task, Watched
  <2> QED BY <1>2, <2>1, <2>2, AnswerGoesOn, GoesOnElsewhere
<1> QED BY <1>3, <1>4, MatchStepsGoOn, GoesOnElsewhere

LEMMA QuietStepsKept ==
  ASSUME TypeOK, LockDiscipline, NEW w \in Worker,
         MatchStep(w) \/ StopTournament(w) \/ Sweep(w)
  PROVE  LockDiscipline' /\ UNCHANGED sched
<1>1. UNCHANGED sched
  BY DEF MatchStep, GuardSchedule, Load, ManualActivation, ApplyRule, SaveTarget, Reverted, Save, Saved,
         TakeBack, StopTournament, Sweep
<1>2. SparesHolders(w)
  BY <1>1 DEF SparesHolders
<1> QED BY <1>1, <1>2, QuietStepsElsewhere, ElsewhereKept

-----------------------------------------------------------------------------
(***************************************************************************)
(* The discipline is kept by every step.                                   *)
(***************************************************************************)

\* An edit of a schedule that begins, or that has found its dirty columns.
LEMMA EditsKept ==
  ASSUME TypeOK, LockDiscipline, NEW r \in Request, NEW s \in Schedule, NEW cmd, NEW srow,
         Edits(r, s, cmd, srow), cmd # "start" => srow.status = "completed"
  PROVE  LockDiscipline'
<1> DEFINE e == [Idle EXCEPT !.pc = "diff", !.cmd = cmd, !.schedule = s, !.srow = srow]
<1>1. Become(r, e) /\ SparesHolders(r) /\ r \in Worker
  BY DEF Edits, SparesHolders, Worker
<1>2. e.pc = "diff" /\ e.cmd = cmd /\ e.srow = srow
  BY DEF Idle
<1> HIDE DEF e
<1> QED BY <1>1, <1>2, UnheldKept

LEMMA BeginKept ==
  ASSUME TypeOK, LockDiscipline, NEW r \in Request, Begin(r)
  PROVE  LockDiscipline' /\ UNCHANGED sched
<1>1. UNCHANGED sched /\ SparesHolders(r) /\ r \in Worker
  BY DEF Begin, BeginCommand, BeginStart, BeginArchive, BeginStop, Edits, Close,
         ReopenTournament, SparesHolders, Worker
<1>2. ASSUME NEW m \in Match, NEW cmd \in Commands, BeginCommand(r, m, cmd) PROVE LockDiscipline'
  BY <1>1, <1>2, BeginCommandGoesOn, GoesOnElsewhere, ElsewhereKept
<1>3. ASSUME NEW s \in Schedule, BeginStart(r, s) PROVE LockDiscipline'
  BY <1>3, EditsKept DEF BeginStart
<1>4. ASSUME NEW s \in Schedule, BeginArchive(r, s) PROVE LockDiscipline'
  <2>1. PICK cmd \in ControlCommand, flag \in BOOLEAN : Edits(r, s, cmd, [sched[s] EXCEPT !.archived = flag])
    BY <1>4 DEF BeginArchive, ControlCommand
  <2>2. [sched[s] EXCEPT !.archived = flag].status = "completed"
    BY <1>4 DEF BeginArchive, TypeOK, ScheduleRow
  <2> QED BY <2>1, <2>2, EditsKept
<1>5. ASSUME NEW s \in Schedule, BeginStop(r, s) PROVE LockDiscipline'
  <2>1. GoesElsewhere(r)
    BY <1>5 DEF BeginStop, GoesElsewhere, Idle, Watched
  <2> QED BY <1>1, <2>1, ElsewhereKept
<1>6. CASE Close(r)
  <2>1. GoesElsewhere(r)
    BY <1>6 DEF Close, GoesElsewhere, Idle, Watched
  <2> QED BY <1>1, <2>1, ElsewhereKept
<1>7. CASE ReopenTournament(r)
  BY <1>7 DEF ReopenTournament, LockDiscipline, OneHolder, HolderWalksOn, WalksOn,
              EditsCompleted, At, Running
<1> QED BY <1>1, <1>2, <1>3, <1>4, <1>5, <1>6, <1>7 DEF Begin

LEMMA DiffScheduleKept ==
  ASSUME TypeOK, LockDiscipline, NEW w \in Worker, DiffSchedule(w)
  PROVE  LockDiscipline' /\ UNCHANGED sched
<1> DEFINE t == task[w]
           dirty == {c \in Column : t.srow[c] # sched[t.schedule][c]}
           e == [t EXCEPT !.pc = "update", !.dirty = dirty]
<1>1. Become(w, e) /\ SparesHolders(w) /\ UNCHANGED sched
  BY DEF DiffSchedule, SparesHolders
<1>2. t \in Task /\ (t.cmd # "start" => t.srow.status = "completed")
  BY DEF DiffSchedule, At, TypeOK, Handler, LockDiscipline, EditsCompleted
<1> HIDE DEF t, dirty
<1>3. e.pc = "update" /\ e.cmd = t.cmd /\ e.srow = t.srow
  BY <1>2 DEF Task
<1> HIDE DEF e
<1> QED BY <1>1, <1>2, <1>3, UnheldKept

\* A handler that writes a row found it free.
LEMMA FreeRow ==
  ASSUME TypeOK, NEW w \in Worker, NEW s, ~Locked(s),
         UNCHANGED sched \/ \E row : sched' = [sched EXCEPT ![s] = row]
  PROVE  SparesHolders(w)
<1>1. \A v \in Worker : At(v, "settle") => task[v].schedule \in Schedule \ {s}
  BY DEF TypeOK, At, Handler, WellFormed, WithSchedule, Locked
<1> QED BY <1>1 DEF TypeOK, SparesHolders

LEMMA StopKept ==
  ASSUME TypeOK, LockDiscipline, NEW w \in Worker, Stop(w)
  PROVE  LockDiscipline'
<1>1. task[w] \in Task
  BY DEF TypeOK, Handler
<1>2. SparesHolders(w)
  BY FreeRow DEF Stop
<1>3. Answer(w) \/ Become(w, Resumed(task[w]))
  BY DEF Stop
<1>4. GoesElsewhere(w)
  BY <1>1, <1>3, AnswerGoesOn, GoesOnElsewhere, ResumedApart DEF GoesElsewhere, Apart
<1> QED BY <1>2, <1>4, ElsewhereKept

LEMMA InterruptCompletedKept ==
  ASSUME TypeOK, LockDiscipline, NEW w \in Worker, InterruptCompleted(w)
  PROVE  LockDiscipline'
<1>1. task[w] \in Task
  BY DEF TypeOK, Handler
<1>2. SparesHolders(w)
  BY FreeRow DEF InterruptCompleted
<1>3. Answer(w) \/ Become(w, Resumed(task[w]))
  BY DEF InterruptCompleted
<1>4. GoesElsewhere(w)
  BY <1>1, <1>3, AnswerGoesOn, GoesOnElsewhere, ResumedApart DEF GoesElsewhere, Apart
<1> QED BY <1>2, <1>4, ElsewhereKept

LEMMA UpdateScheduleKept ==
  ASSUME TypeOK, LockDiscipline, NEW w \in Worker, UpdateSchedule(w)
  PROVE  LockDiscipline'
<1> DEFINE e == [Idle EXCEPT !.pc = "takeBack", !.cmd = task[w].cmd, !.schedule = task[w].schedule]
<1>1. SparesHolders(w)
  BY FreeRow DEF UpdateSchedule
<1>2. Answer(w) \/ Become(w, e)
  BY DEF UpdateSchedule
<1>3. e.pc \notin Watched
  BY DEF Idle, Watched
<1>4. GoesElsewhere(w)
  BY <1>2, <1>3, AnswerGoesOn, GoesOnElsewhere DEF GoesElsewhere
<1> QED BY <1>1, <1>4, ElsewhereKept

\* The writes of a recalculation: nobody else holds the row.
LEMMA SettleKept ==
  ASSUME TypeOK, LockDiscipline, NEW w \in Worker, Settle(w)
  PROVE  LockDiscipline'
<1>1. task[w] \in Task
  BY DEF TypeOK, Handler
<1>2. SparesHolders(w)
  <2>1. ASSUME NEW v \in Worker \ {w}, At(v, "settle")
        PROVE  task[v].schedule # task[w].schedule
    BY <2>1 DEF Settle, LockDiscipline, OneHolder
  <2>2. \A v \in Worker : At(v, "settle") => task[v].schedule \in Schedule
    BY DEF TypeOK, At, Handler, WellFormed, WithSchedule
  <2> QED BY <2>1, <2>2 DEF Settle, SparesHolders, TypeOK
<1>3. GoesElsewhere(w)
  BY <1>1, ResumedApart DEF Settle, GoesElsewhere, Apart
<1> QED BY <1>2, <1>3, ElsewhereKept

\* The reads of a recalculation: the verdict stops the schedule or walks on.
LEMMA VerdictWalksOn ==
  ASSUME TypeOK, NEW s \in Schedule, Running(s), NEW n \in 1..Len(Entries[s]) + 1, WalkStopsAt(s, n)
  PROVE  WalksOn(s, Verdict(s, n).srow)
<1>1. sched[s] \in ScheduleRow /\ sched[s].current \in Standing(s)
  BY DEF TypeOK
<1>2. CASE n > Len(Entries[s])
  <2>1. Verdict(s, n).srow = Finished(sched[s])
    BY <1>2 DEF Verdict
  <2>2. Finished(sched[s]).status = "completed"
    BY <1>1 DEF Finished, ScheduleRow
  <2> QED BY <2>1, <2>2 DEF WalksOn
<1>3. CASE ~(n > Len(Entries[s]))
  <2> DEFINE m == Entries[s][n]
             why == ReasonToWait(s, m, Active(WalkedPast(s, n)))
  <2>1. Verdict(s, n).srow = WaitingAt(sched[s], m, why)
    BY <1>3 DEF Verdict
  <2>2. WaitingAt(sched[s], m, why).current = m
    BY <1>1 DEF WaitingAt, ScheduleRow
  <2>3. n \in DOMAIN Entries[s] /\ Pos(s, m) = n /\ m \in Match
    BY <1>3, EntryType
  <2>4. m # None
    BY <2>3, NamesAssumption
  <2>5. sched[s].current # None => n >= Pos(s, sched[s].current)
    <3> SUFFICES ASSUME sched[s].current # None PROVE n >= Pos(s, sched[s].current)
      OBVIOUS
    <3>1. WalkFrom(s) = Pos(s, sched[s].current)
      BY DEF WalkFrom
    <3>2. WalkFrom(s) \in Nat
      BY <1>1, WalkType
    <3> QED BY <3>1, <3>2 DEF WalkStopsAt
  <2> HIDE DEF m, why
  <2> QED BY <2>1, <2>2, <2>3, <2>4, <2>5 DEF WalksOn
<1> QED BY <1>2, <1>3

\* A handler that takes the lock found it free.
LEMMA RecalculateKept ==
  ASSUME TypeOK, LockDiscipline, NEW w \in Worker, Recalculate(w)
  PROVE  LockDiscipline' /\ UNCHANGED sched
<1> DEFINE t == task[w]
           s == t.schedule
           closed == [srow |-> Stopped(sched[s], "TOURNAMENT_CLOSED"), on |-> {}, off |-> OffCurrent(s)]
           holding(v) == [t EXCEPT !.pc = "settle", !.srow = v.srow, !.on = v.on, !.off = v.off]
<1>1. t \in Task /\ s \in Schedule
  BY DEF TypeOK, Recalculate, At, Handler, WellFormed, WithSchedule
<1>2. UNCHANGED sched /\ SparesHolders(w) /\ ~Locked(s)
  BY DEF Recalculate, SparesHolders
<1>3. \/ Become(w, Resumed(t))
      \/ \E v : Running(s) /\ WalksOn(s, v.srow) /\ Become(w, holding(v))
  <2>1. Running(s) => WalksOn(s, closed.srow)
    BY <1>1 DEF WalksOn, Stopped, TypeOK, ScheduleRow
  <2>2. \A n \in 1..Len(Entries[s]) + 1 :
          Running(s) /\ WalkStopsAt(s, n) => WalksOn(s, Verdict(s, n).srow)
    BY <1>1, VerdictWalksOn
  <2>3. \/ Become(w, Resumed(t))
        \/ Running(s) /\ Become(w, holding(closed))
        \/ \E n \in 1..Len(Entries[s]) + 1 :
             Running(s) /\ WalkStopsAt(s, n) /\ Become(w, holding(Verdict(s, n)))
    BY DEF Recalculate
  <2> HIDE DEF closed, holding, t, s
  <2> QED BY <2>1, <2>2, <2>3
<1>4. CASE Become(w, Resumed(t))
  <2>1. GoesElsewhere(w)
    BY <1>1, <1>4, ResumedApart DEF GoesElsewhere, Apart
  <2> QED BY <1>2, <2>1, ElsewhereKept
<1>5. ASSUME NEW v, WalksOn(s, v.srow), Become(w, holding(v))
      PROVE  LockDiscipline'
  <2>1. /\ holding(v).pc = "settle" /\ holding(v).schedule = s /\ holding(v).srow = v.srow
    <3> HIDE DEF t
    <3> QED BY <1>1 DEF Task
  <2>2. task'[w] = holding(v) /\ \A u \in Worker \ {w} : task'[u] = task[u]
    <3> HIDE DEF holding
    <3> QED BY <1>5 DEF Become, TypeOK
  <2> HIDE DEF holding, t, s
  <2>3. \A u \in Worker \ {w} : ~(At(u, "settle") /\ task[u].schedule = s)
    BY <1>2 DEF Locked
  <2>4. OneHolder'
    BY <2>1, <2>2, <2>3 DEF LockDiscipline, OneHolder, At
  <2>5. HolderWalksOn'
    <3> SUFFICES ASSUME NEW u \in Worker, At(u, "settle")'
                 PROVE  WalksOn(task[u].schedule, task[u].srow)'
      BY DEF HolderWalksOn
    <3>1. CASE u = w
      BY <1>2, <1>5, <2>1, <2>2, <3>1 DEF WalksOn, Running
    <3>2. CASE u # w
      BY <1>2, <2>2, <3>2 DEF LockDiscipline, HolderWalksOn, WalksOn, Running, At
    <3> QED BY <3>1, <3>2
  <2>6. EditsCompleted'
    BY <2>1, <2>2 DEF LockDiscipline, EditsCompleted
  <2> QED BY <2>4, <2>5, <2>6 DEF LockDiscipline
<1> QED BY <1>2, <1>3, <1>4, <1>5

LEMMA RestartKept ==
  ASSUME TypeOK, LockDiscipline, Restart
  PROVE  LockDiscipline' /\ UNCHANGED sched
<1>1. UNCHANGED sched /\ SparesHolders(Boot) /\ Boot \in Worker
  BY DEF Restart, SparesHolders, Worker
<1>2. GoesElsewhere(Boot)
  BY DEF Restart, GoesElsewhere, Idle, Watched
<1> QED BY <1>1, <1>2, ElsewhereKept

LEMMA CrashKept ==
  ASSUME Crash
  PROVE  LockDiscipline' /\ UNCHANGED sched
BY DEF Crash, LockDiscipline, OneHolder, HolderWalksOn, EditsCompleted, At, Idle

LEMMA NextKept ==
  ASSUME TypeOK, LockDiscipline, [Next]_vars
  PROVE  LockDiscipline'
<1>1. ASSUME NEW w \in Worker, Proceed(w) PROVE LockDiscipline'
  BY <1>1, QuietStepsKept, SettleKept, DiffScheduleKept DEF Proceed, MatchStep
<1>2. ASSUME NEW w \in Worker, WithLock(w) PROVE LockDiscipline'
  BY <1>2, RecalculateKept, StopKept, InterruptCompletedKept, UpdateScheduleKept DEF WithLock
<1>3. CASE UNCHANGED vars
  BY <1>3 DEF vars, LockDiscipline, OneHolder, HolderWalksOn, WalksOn, EditsCompleted, At, Running
<1> QED BY <1>1, <1>2, <1>3, BeginKept, RestartKept, CrashKept DEF Next

(***************************************************************************)
(* One recalculation at a time holds a schedule; the schedule it holds     *)
(* still runs, and what it is about to write stops it or walks on.         *)
(***************************************************************************)
THEOREM LockHolds == Spec => []LockDiscipline
<1>1. Init => LockDiscipline
  BY DEF Init, LockDiscipline, OneHolder, HolderWalksOn, EditsCompleted, At, Idle
<1>2. TypeOK /\ LockDiscipline /\ [Next]_vars => LockDiscipline'
  BY NextKept
<1> QED BY <1>1, <1>2, TypeCorrect, PTL DEF Spec

-----------------------------------------------------------------------------
(***************************************************************************)
(* What the discipline gives: one lemma for the steps that write a         *)
(* schedule row, then the two properties.                                  *)
(***************************************************************************)

\* The steps that write a schedule row.
LEMMA Writers ==
  ASSUME TypeOK, LockDiscipline, [Next]_vars
  PROVE  \/ UNCHANGED sched
         \/ \E w \in Worker : Settle(w) \/ Stop(w) \/ InterruptCompleted(w) \/ UpdateSchedule(w)
<1>1. ASSUME NEW w \in Worker, Proceed(w) PROVE UNCHANGED sched \/ Settle(w)
  BY <1>1, QuietStepsKept, DiffScheduleKept DEF Proceed, MatchStep
<1>2. ASSUME NEW w \in Worker, WithLock(w)
      PROVE  UNCHANGED sched \/ Stop(w) \/ InterruptCompleted(w) \/ UpdateSchedule(w)
  BY <1>2, RecalculateKept DEF WithLock
<1>3. UNCHANGED vars => UNCHANGED sched
  BY DEF vars
<1> QED BY <1>1, <1>2, <1>3, BeginKept, RestartKept, CrashKept DEF Next

\* None but an edit makes a schedule run, or takes it back while it does.
LEMMA StepsWalkOn ==
  ASSUME TypeOK, LockDiscipline, [Next]_vars, NEW s \in Schedule
  PROVE  \/ sched'[s] = sched[s]
         \/ sched'[s].status # "running"
         \/ WalksOn(s, sched'[s])
         \/ \E w \in Worker : UpdateSchedule(w) /\ task[w].schedule = s
<1>1. sched[s] \in ScheduleRow
  BY DEF TypeOK
<1>2. ASSUME NEW w \in Worker, Settle(w)
      PROVE  sched'[s] = sched[s] \/ WalksOn(s, sched'[s])
  BY <1>2 DEF Settle, LockDiscipline, HolderWalksOn, TypeOK
<1>3. ASSUME NEW w \in Worker, Stop(w)
      PROVE  sched'[s] = sched[s] \/ sched'[s].status # "running"
  <2>1. PICK code : UNCHANGED sched \/ sched' = [sched EXCEPT ![task[w].schedule] = Stopped(@, code)]
    BY <1>3 DEF Stop
  <2> QED BY <1>1, <2>1 DEF Stopped, ScheduleRow, TypeOK
<1>4. ASSUME NEW w \in Worker, InterruptCompleted(w)
      PROVE  sched'[s] = sched[s] \/ sched'[s].status # "running"
  BY <1>4 DEF InterruptCompleted, Interrupted, TypeOK
<1>5. ASSUME NEW w \in Worker, UpdateSchedule(w)
      PROVE  sched'[s] = sched[s] \/ task[w].schedule = s
  BY <1>5 DEF UpdateSchedule, TypeOK
<1> QED BY <1>2, <1>3, <1>4, <1>5, Writers

\* The UPDATE of an edit is the step Written names.
LEMMA UpdateIsWritten ==
  ASSUME TypeOK, NEW w \in Worker, UpdateSchedule(w)
  PROVE  Edited(w, task[w].schedule)
<1> DEFINE e == [Idle EXCEPT !.pc = "takeBack", !.cmd = task[w].cmd, !.schedule = task[w].schedule]
<1>1. Become(w, e) \/ Become(w, Idle)
  BY DEF UpdateSchedule, Answer
<1>2. e.pc # "update" /\ Idle.pc # "update"
  BY DEF Idle
<1> HIDE DEF e
<1>3. task'[w].pc # "update"
  BY <1>1, <1>2 DEF Become, TypeOK
<1> QED BY <1>3 DEF UpdateSchedule, Edited, At

\* The UPDATE of an archive runs no schedule that did not.
LEMMA ArchiveRunsNothing ==
  ASSUME TypeOK, LockDiscipline, NEW w \in Worker, UpdateSchedule(w), task[w].cmd # "start",
         NEW s \in Schedule, task[w].schedule = s, ~Running(s)
  PROVE  ~Running(s)'
<1> DEFINE t == task[w]
<1>1. t.srow.status = "completed"
  BY DEF UpdateSchedule, At, LockDiscipline, EditsCompleted
<1>2. sched'[s] = Updated(sched[s], t.srow, t.dirty)
  BY <1>1 DEF UpdateSchedule, TypeOK
<1>3. Updated(sched[s], t.srow, t.dirty).status # "running"
  BY <1>1 DEF Updated, Running
<1> QED BY <1>2, <1>3 DEF Running

(***************************************************************************)
(* A schedule that does not run is made to run by a start, and by nothing  *)
(* else, however requests, closes and crashes interleave with it.          *)
(***************************************************************************)
THEOREM RunsOnlyByStart == Spec => OnlyAStartRuns
<1>1. TypeOK /\ LockDiscipline /\ [Next]_vars => [StartsRunning]_vars
  <2> SUFFICES ASSUME TypeOK, LockDiscipline, [Next]_vars, NEW s \in Schedule,
                      ~Running(s), Running(s)', ~StartWritten(s)
               PROVE  FALSE
    BY DEF StartsRunning
  <2>1. PICK w \in Worker : UpdateSchedule(w) /\ task[w].schedule = s
    BY StepsWalkOn DEF Running, WalksOn
  <2>2. task[w].cmd # "start"
    BY <2>1, UpdateIsWritten DEF StartWritten
  <2> QED BY <2>1, <2>2, ArchiveRunsNothing DEF Running
<1> QED BY <1>1, TypeCorrect, LockHolds, PTL DEF Spec, OnlyAStartRuns

(***************************************************************************)
(* While a schedule runs its current entry moves forward only, unless an   *)
(* edit writes it.                                                         *)
(***************************************************************************)
THEOREM WalkGoesForward == Spec => NeverWalksBack
<1>1. TypeOK /\ LockDiscipline /\ [Next]_vars => [WalksForward]_vars
  <2> SUFFICES ASSUME TypeOK, LockDiscipline, [Next]_vars, NEW s \in Schedule,
                      Running(s), Running(s)', sched[s].current # None, ~Written(s)
               PROVE  /\ sched'[s].current # None
                      /\ Pos(s, sched'[s].current) >= Pos(s, sched[s].current)
    BY DEF WalksForward
  <2>1. sched'[s] = sched[s] \/ WalksOn(s, sched'[s])
    BY StepsWalkOn, UpdateIsWritten DEF Running, Written
  <2>2. Pos(s, sched[s].current) \in Nat
    <3>1. WalkFrom(s) \in Nat
      <4>1. 1 \in 1..Len(Entries[s]) + 1
        BY EntryType
      <4> QED BY <4>1, WalkType DEF TypeOK
    <3> QED BY <3>1 DEF WalkFrom
  <2> QED BY <2>1, <2>2 DEF WalksOn, Running
<1> QED BY <1>1, TypeCorrect, LockHolds, PTL DEF Spec, NeverWalksBack
=============================================================================
