----------------------------- MODULE ControlRoom -----------------------------
(***************************************************************************)
(* The control room: schedules, the matches they put on a cabinet, and the *)
(* requests that change both.                                              *)
(*                                                                         *)
(* The state is what Postgres holds (tournament, match, sched) and, for    *)
(* each request in flight, what its handler has in memory between two      *)
(* statements (task).  A step is one statement or one short transaction;   *)
(* the locked transaction of a recalculation is two steps, its reads and   *)
(* its writes, with the row lock of the schedule held between them.        *)
(*                                                                         *)
(* A definition under a comment "Slip:" is not the code.  It is the        *)
(* definition that follows it with a plausible mistake in it, and names    *)
(* the mistake a property is there to catch.                               *)
(***************************************************************************)
EXTENDS MatchRow, Sequences

CONSTANTS
  Match,        \* the matches of one tournament
  Schedule,     \* its schedules
  Entries,      \* the entries of each schedule, by position
  Rules,        \* the advancement rules between matches
  Request,      \* the requests that can be in flight at once
  Boot,         \* the reconciliation that runs before the server listens
  None,         \* SQL NULL
  Commands,     \* the match commands clients send
  Controls,     \* the schedule and tournament commands clients send
  InitialRows,  \* the rows each match may have to begin with
  MaxCrashes    \* bound on the crashes of the server

ControlCommand == {"start", "stop", "archive", "unarchive", "close", "reopenTournament"}

ASSUME EntriesAssumption ==
  /\ Entries \in [Schedule -> Seq(Match)]
  /\ \A s, t \in Schedule : \A i \in DOMAIN Entries[s], j \in DOMAIN Entries[t] :
       Entries[s][i] = Entries[t][j] => s = t /\ i = j

ASSUME RulesAssumption ==
  /\ Rules \subseteq [source: Match, placement: Nat \ {0}, target: Match, slot: Nat \ {0}]
  /\ \A rule \in Rules : rule.source # rule.target

ASSUME NamesAssumption ==
  /\ Commands \subseteq MatchCommand /\ Controls \subseteq ControlCommand
  /\ None \notin Match \cup Schedule /\ Boot \notin Request
  /\ InitialRows \in [Match -> SUBSET Row] /\ MaxCrashes \in Nat

VARIABLES
  tournament,  \* tournament.status
  match,       \* a row for each match
  sched,       \* a row for each schedule
  task,        \* what each request, and the bootstrap, is doing
  up,          \* the server takes requests
  crashes      \* how often it went down

vars == <<tournament, match, sched, task, up, crashes>>

-----------------------------------------------------------------------------
(***************************************************************************)
(* Rows.                                                                   *)
(***************************************************************************)

StaleCode == {"NO_ENTRANTS", "NOT_ENOUGH_ENTRANTS", "UNFILLABLE_ENTRANT_SLOTS",
  "UNRESOLVED_ENTRANTS", "NO_ROUNDS", "MATCH_ALREADY_ACTIVE", "ENTRANTS_ALREADY_ACTIVE"}

InterruptionCode == {"TOURNAMENT_CLOSED", "ROLLBACK_CONFIRMED", "MATCH_RESULT_REOPENED"}

ASSUME NullAssumption == None \notin StaleCode \cup InterruptionCode

ScheduleRow == [status: {"inactive", "running", "completed"}, current: Match \cup {None},
  stale: StaleCode \cup {None}, interruption: InterruptionCode \cup {None}, archived: BOOLEAN]

NewSchedule == [status |-> "inactive", current |-> None, stale |-> None,
                interruption |-> None, archived |-> FALSE]

Column == {"status", "current", "stale", "interruption", "archived"}

Started(row, m) == [row EXCEPT !.status = "running", !.current = m, !.stale = None, !.interruption = None]
Stopped(row, code) == [row EXCEPT !.status = "inactive", !.stale = None, !.interruption = code]
\* Slip: reopening forgets the archive.
InterruptedInArchive(row, m) == [row EXCEPT !.status = "inactive", !.current = m, !.stale = None,
                                            !.interruption = "MATCH_RESULT_REOPENED"]

Interrupted(row, m) == [status |-> "inactive", current |-> m, stale |-> None,
                        interruption |-> "MATCH_RESULT_REOPENED", archived |-> FALSE]
\* Slip: the match is written where the code belongs.
WaitingAtItself(row, m, code) == [row EXCEPT !.current = m, !.stale = IF code = None THEN None ELSE m]

WaitingAt(row, m, code) == [row EXCEPT !.current = m, !.stale = code]
Finished(row) == [row EXCEPT !.status = "completed", !.current = None, !.stale = None]

\* The row after an UPDATE of the dirty columns of an edited copy.
Updated(row, edited, dirty) ==
  LET column(c) == IF c \in dirty THEN edited[c] ELSE row[c]
  IN  [status |-> column("status"), current |-> column("current"), stale |-> column("stale"),
       interruption |-> column("interruption"), archived |-> column("archived")]

Running(s)  == sched[s].status = "running"
MatchesOf(s) == {Entries[s][i] : i \in DOMAIN Entries[s]}
Pos(s, m)   == CHOOSE i \in DOMAIN Entries[s] : Entries[s][i] = m
Active(ms)  == {m \in ms : match[m].active}

\* The match rows with these matches on a cabinet and those off it.
Switched(on, off) ==
  [m \in Match |-> [match[m] EXCEPT !.active = (@ \/ m \in on) /\ (m \in on \/ m \notin off)]]

-----------------------------------------------------------------------------
(***************************************************************************)
(* Tasks: the memory of a handler between two statements.                  *)
(***************************************************************************)

Worker == Request \cup {Boot}

PC == {"idle", "manual", "guard", "stop", "interrupt", "load", "reverting", "save",
  "advancing", "target", "recalculate", "settle", "diff", "update", "takeBack",
  "closing", "sweep"}

\* Where a handler can go on after a schedule transaction.
Return == {"idle", "load", "reverting", "advancing", "sweep"}

Task == [pc: PC,
  cmd: MatchCommand \cup ControlCommand \cup {"boot", None},
  match: Match \cup {None}, row: Row, moved: BOOLEAN,        \* the aggregate in hand
  rules: SUBSET Rules, target: Match \cup {None}, draft: Row, \* advancement under way
  schedule: Schedule \cup {None}, srow: ScheduleRow, dirty: SUBSET Column,
  on: SUBSET Match, off: SUBSET Match, then: Return,          \* a schedule transaction
  sweep: SUBSET Schedule]                                     \* schedules still to visit

Idle == [pc |-> "idle", cmd |-> None, match |-> None, row |-> EmptyRow, moved |-> FALSE,
  rules |-> {}, target |-> None, draft |-> EmptyRow, schedule |-> None, srow |-> NewSchedule,
  dirty |-> {}, on |-> {}, off |-> {}, then |-> "idle", sweep |-> {}]

At(w, pc) == task[w].pc = pc
Become(w, t) == task' = [task EXCEPT ![w] = t]

\* The handler answers, or throws: its memory is gone either way.
Answer(w) == Become(w, Idle)

\* Where a handler goes after a schedule transaction.
Resumed(t) ==
  IF t.then = "idle" THEN Idle
  ELSE [t EXCEPT !.pc = t.then, !.then = "idle", !.schedule = None, !.srow = NewSchedule,
                 !.on = {}, !.off = {}, !.target = None, !.draft = EmptyRow]

\* recalculateForMatch: the schedule the match is in, if it is in one.
ForSchedule(t, m, pc, then) ==
  IF \E s \in Schedule : m \in MatchesOf(s)
  THEN [t EXCEPT !.pc = pc, !.then = then, !.schedule = CHOOSE s \in Schedule : m \in MatchesOf(s)]
  ELSE Resumed([t EXCEPT !.then = then])

\* Slip: the schedule is read without FOR UPDATE.
NeverLocked(s) == s \notin Schedule

\* SELECT ... FOR UPDATE, and any UPDATE of the row, waits for this.
Locked(s) == \E w \in Worker : At(w, "settle") /\ task[w].schedule = s

-----------------------------------------------------------------------------
(***************************************************************************)
(* The walk of a recalculation.                                            *)
(***************************************************************************)

RulesFrom(m) == {rule \in Rules : rule.source = m}
RulesInto(m) == {rule \in Rules : rule.target = m}

\* Slip: every walk begins at the first entry.
WalkFromFirst(s) == IF s \in Schedule THEN 1 ELSE 0

\* An entry is walked from the current one, or from the first.
WalkFrom(s) == IF sched[s].current = None THEN 1 ELSE Pos(s, sched[s].current)

\* The walk passes every entry from there up to, not including, the n-th.
WalkStopsAt(s, n) ==
  /\ n \in WalkFrom(s)..Len(Entries[s]) + 1
  /\ \A i \in WalkFrom(s)..n - 1 : Passed(match[Entries[s][i]])
  /\ n \in DOMAIN Entries[s] => ~Passed(match[Entries[s][n]])

WalkedPast(s, n) == {Entries[s][i] : i \in WalkFrom(s)..n - 1}

\* Slip: a match blocks only once somebody scored in it.
ScoredBlockers(m, off) ==
  {o \in Active(Match) \ ({m} \cup off) :
     match[o].state # "open" /\ match[o].players \cap match[m].players # {}}

\* Other matches on a cabinet that hold a player of this one.
Blockers(m, off) ==
  {o \in Active(Match) \ ({m} \cup off) : match[o].players \cap match[m].players # {}}

\* evaluateLocalEligibility and evaluateConflicts, in their order.
ReasonToWait(s, m, off) ==
  LET seated  == Cardinality(match[m].players)
      pending == Cardinality({rule \in RulesInto(m) : ~Completed(match[rule.source])})
      missing(n) == \E rule \in RulesInto(m) : n < rule.slot
  IN  IF seated = 0 THEN "NO_ENTRANTS"
      ELSE IF seated = 1 THEN "NOT_ENOUGH_ENTRANTS"
      ELSE IF missing(seated + pending) THEN "UNFILLABLE_ENTRANT_SLOTS"
      ELSE IF missing(seated) THEN "UNRESOLVED_ENTRANTS"
      ELSE IF ~match[m].rounds THEN "NO_ROUNDS"
      ELSE IF match[m].active /\ sched[s].current # m THEN "MATCH_ALREADY_ACTIVE"
      ELSE IF Blockers(m, off) # {} THEN "ENTRANTS_ALREADY_ACTIVE"
      ELSE None

\* What the walk decides when it stops at the n-th entry: the schedule row to
\* write, and the matches to put on and take off a cabinet.
Verdict(s, n) ==
  LET off == Active(WalkedPast(s, n))
  IN  IF n > Len(Entries[s])
      THEN [srow |-> Finished(sched[s]), on |-> {}, off |-> off]
      ELSE LET m   == Entries[s][n]
               why == ReasonToWait(s, m, off)
           IN  [srow |-> WaitingAt(sched[s], m, why),
                on   |-> IF why = None THEN {m} \ Active(Match) ELSE {},
                off  |-> off]

\* Slip: a stopped schedule leaves its match where it is.
OffNothing(s) == Active({sched[s].current} \cap {None})

\* stop: the current match comes off its cabinet.
OffCurrent(s) == Active({sched[s].current} \ {None})

-----------------------------------------------------------------------------
(***************************************************************************)
(* MatchCommands: load the match, edit it, save it whole, recalculate.     *)
(***************************************************************************)

Init ==
  /\ tournament = "open"
  /\ match \in {f \in [Match -> UNION {InitialRows[m] : m \in Match}] : \A m \in Match : f[m] \in InitialRows[m]}
  /\ sched = [s \in Schedule |-> NewSchedule]
  /\ task = [w \in Worker |-> Idle]
  /\ up = TRUE
  /\ crashes = 0

\* TournamentOpenGuard, asked once when the request arrives.
Admitted == up /\ tournament = "open"

\* The load, the command's own refusals and its edit in memory.  A result that
\* is already written is first taken back through the advancement rules.
LoadAndEdit(w, t) ==
  LET row == match[t.match]
      loaded == [t EXCEPT !.row = row, !.schedule = None, !.then = "idle"]
  IN  IF ~Editable(t.cmd, row) THEN Answer(w)
      ELSE IF t.cmd \in ManualCommand THEN Become(w, [loaded EXCEPT !.pc = "manual"])
      ELSE IF t.cmd \in ResultCommand /\ Completed(row)
      THEN Become(w, [loaded EXCEPT !.pc = "reverting", !.rules = RulesFrom(t.match)])
      ELSE \/ Effect(t.cmd, row) = {} /\ Answer(w)
           \/ \E edited \in Effect(t.cmd, row) :
                Become(w, [loaded EXCEPT !.pc = "save", !.row = edited,
                                         !.moved = OwesRecalculation(t.cmd, row, edited)])

\* A live song names its targets among the active matches, and is not guarded.
BeginCommand(r, m, cmd) ==
  LET t == [Idle EXCEPT !.cmd = cmd, !.match = m]
  IN  /\ At(r, "idle") /\ cmd \in Commands
      /\ IF cmd = "applyCompletedSong"
         THEN up /\ match[m].active /\ Become(r, [t EXCEPT !.pc = "load"])
         ELSE /\ Admitted
              /\ IF AsksSchedule(cmd, match[m]) THEN Become(r, [t EXCEPT !.pc = "guard"])
                 ELSE LoadAndEdit(r, t)
      /\ UNCHANGED <<tournament, match, sched, up, crashes>>

\* assertMatchCanReopen: an entrant this result moved on already competes there.
TargetsProgressed(m) ==
  \E rule \in RulesFrom(m) :
    /\ match[rule.target].state # "open"
    /\ PlacedAt(match[m], rule.placement) \cap match[rule.target].players # {}

\* prepareResultReopen, or protectRollback; unconfirmed, the request is refused.
GuardSchedule(w) ==
  LET t == task[w]
      holds(s) == t.match \in MatchesOf(s)
      completed == {s \in Schedule : holds(s) /\ sched[s].status = "completed"}
      affected  == {s \in Schedule : /\ holds(s) /\ Running(s)
                                     /\ \/ sched[s].current = None
                                        \/ Pos(s, t.match) <= Pos(s, sched[s].current)}
  IN  /\ At(w, "guard")
      /\ IF t.cmd = "reopen" /\ Completed(match[t.match]) /\ TargetsProgressed(t.match) THEN Answer(w)
         ELSE IF t.cmd = "reopen" /\ completed # {}
         THEN Answer(w) \/ Become(w, ForSchedule(t, t.match, "interrupt", "load"))
         ELSE IF affected # {}
         THEN Answer(w) \/ Become(w, ForSchedule(t, t.match, "stop", "load"))
         ELSE Become(w, [t EXCEPT !.pc = "load"])
      /\ UNCHANGED <<tournament, match, sched, up, crashes>>

Load(w) ==
  /\ At(w, "load")
  /\ LoadAndEdit(w, task[w])
  /\ UNCHANGED <<tournament, match, sched, up, crashes>>

\* assertManualActivationAllowed, then activate on the aggregate already loaded.
ManualActivation(w) ==
  /\ At(w, "manual")
  /\ IF \E s \in Schedule : Running(s) THEN Answer(w)
     ELSE \E edited \in Effect(task[w].cmd, task[w].row) :
            Become(w, [task[w] EXCEPT !.pc = "save", !.row = edited])
  /\ UNCHANGED <<tournament, match, sched, up, crashes>>

\* applyRules, one rule: load the target and write the entrant in, or out.
ApplyRule(w) ==
  LET t == task[w]
  IN  /\ t.pc \in {"reverting", "advancing"} /\ t.rules # {}
      /\ \E rule \in t.rules :
           LET rest == [t EXCEPT !.rules = @ \ {rule}]
               target == match[rule.target]
               write(drafts) == \E draft \in drafts :
                 Become(w, [rest EXCEPT !.pc = "target", !.then = t.pc, !.target = rule.target, !.draft = draft])
           IN  \/ PlacedAt(t.row, rule.placement) = {} /\ Become(w, rest)
               \/ \E p \in PlacedAt(t.row, rule.placement) :
                    CASE t.pc = "advancing" -> write(Placed(target, p))
                      [] t.pc = "reverting" /\ p \in target.players -> write(Released(target, p))
                      [] OTHER -> Become(w, rest)
      /\ UNCHANGED <<tournament, match, sched, up, crashes>>

SaveTarget(w) ==
  LET t == task[w]
  IN  /\ At(w, "target")
      /\ match' = [match EXCEPT ![t.target] = t.draft]
      /\ Become(w, ForSchedule(t, t.target, "recalculate", t.then))
      /\ UNCHANGED <<tournament, sched, up, crashes>>

\* The result taken back: commit writes it again, or throws when what was
\* settled then no longer is; reopen drops it.
Reverted(w) ==
  LET t == task[w]
  IN  /\ At(w, "reverting") /\ t.rules = {}
      /\ \/ t.cmd = "commit" /\ Answer(w)
         \/ \E edited \in Effect(t.cmd, t.row) :
              Become(w, [t EXCEPT !.pc = "save", !.row = edited,
                                  !.moved = OwesRecalculation(t.cmd, t.row, edited)])
      /\ UNCHANGED <<tournament, match, sched, up, crashes>>

\* MatchStore.save: every column of the row becomes what was in memory.
Save(w) ==
  LET t == task[w]
  IN  /\ At(w, "save")
      /\ match' = [match EXCEPT ![t.match] = t.row]
      /\ Become(w, [t EXCEPT !.pc = "advancing",
                             !.rules = IF t.cmd = "commit" THEN RulesFrom(t.match) ELSE {}])
      /\ UNCHANGED <<tournament, sched, up, crashes>>

\* Slip: nobody recalculates after a save.
SavedOnly(w) ==
  /\ At(w, "advancing") /\ task[w].rules = {}
  /\ Answer(w)
  /\ UNCHANGED <<tournament, match, sched, up, crashes>>

\* recalculateScheduleIfMoved, last of all.
Saved(w) ==
  LET t == task[w]
  IN  /\ At(w, "advancing") /\ t.rules = {}
      /\ IF t.moved THEN Become(w, ForSchedule(t, t.match, "recalculate", "idle")) ELSE Answer(w)
      /\ UNCHANGED <<tournament, match, sched, up, crashes>>

-----------------------------------------------------------------------------
(***************************************************************************)
(* ScheduleRunner: the transactions that hold the schedule row.            *)
(***************************************************************************)

\* Slip: the walk does not ask whether the tournament is still open.
RecalculateClosed(w) ==
  LET t == task[w]
      s == t.schedule
      holding(v) == Become(w, [t EXCEPT !.pc = "settle", !.srow = v.srow, !.on = v.on, !.off = v.off])
  IN  /\ At(w, "recalculate") /\ ~Locked(s)
      /\ IF ~Running(s) THEN Become(w, Resumed(t))
         ELSE \E n \in 1..Len(Entries[s]) + 1 : WalkStopsAt(s, n) /\ holding(Verdict(s, n))
      /\ UNCHANGED <<tournament, match, sched, up, crashes>>

\* recalculateLocked, its reads.
Recalculate(w) ==
  LET t == task[w]
      s == t.schedule
      holding(v) == Become(w, [t EXCEPT !.pc = "settle", !.srow = v.srow, !.on = v.on, !.off = v.off])
  IN  /\ At(w, "recalculate") /\ ~Locked(s)
      /\ IF ~Running(s) THEN Become(w, Resumed(t))
         ELSE IF tournament = "closed"
         THEN holding([srow |-> Stopped(sched[s], "TOURNAMENT_CLOSED"), on |-> {}, off |-> OffCurrent(s)])
         ELSE \E n \in 1..Len(Entries[s]) + 1 : WalkStopsAt(s, n) /\ holding(Verdict(s, n))
      /\ UNCHANGED <<tournament, match, sched, up, crashes>>

\* settle, its writes, and the commit that releases the row.
Settle(w) ==
  LET t == task[w]
  IN  /\ At(w, "settle")
      /\ match' = Switched(t.on, t.off)
      /\ sched' = [sched EXCEPT ![t.schedule] = t.srow]
      /\ Become(w, Resumed(t))
      /\ UNCHANGED <<tournament, up, crashes>>

\* Slip: stop does not wait for the row.
StopUnlocked(w) ==
  LET t == task[w]
      s == t.schedule
  IN  /\ At(w, "stop")
      /\ IF Running(s)
         THEN /\ match' = Switched({}, OffCurrent(s))
              /\ sched' = [sched EXCEPT ![s] = Stopped(@, None)]
              /\ Become(w, Resumed(t))
         ELSE Answer(w) /\ UNCHANGED <<match, sched>>
      /\ UNCHANGED <<tournament, up, crashes>>

\* stop: throws when the schedule no longer runs.
Stop(w) ==
  LET t == task[w]
      s == t.schedule
      code == CASE t.cmd = "stop" -> None
                [] t.cmd = "close" -> "TOURNAMENT_CLOSED"
                [] OTHER -> "ROLLBACK_CONFIRMED"
  IN  /\ At(w, "stop") /\ ~Locked(s)
      /\ IF Running(s)
         THEN /\ match' = Switched({}, OffCurrent(s))
              /\ sched' = [sched EXCEPT ![s] = Stopped(@, code)]
              /\ Become(w, Resumed(t))
         ELSE Answer(w) /\ UNCHANGED <<match, sched>>
      /\ UNCHANGED <<tournament, up, crashes>>

\* interruptCompleted: throws when the schedule is no longer completed.
InterruptCompleted(w) ==
  LET t == task[w]
      s == t.schedule
  IN  /\ At(w, "interrupt") /\ ~Locked(s)
      /\ IF sched[s].status = "completed"
         THEN sched' = [sched EXCEPT ![s] = Interrupted(@, t.match)] /\ Become(w, Resumed(t))
         ELSE Answer(w) /\ UNCHANGED sched
      /\ UNCHANGED <<tournament, match, up, crashes>>

-----------------------------------------------------------------------------
(***************************************************************************)
(* ScheduleCommands: start, archive and unarchive load the row unlocked,   *)
(* edit it, and save it: the save reads the row again, and updates the     *)
(* columns that differ.                                                    *)
(***************************************************************************)

Edits(r, s, cmd, srow) ==
  /\ At(r, "idle") /\ cmd \in Controls
  /\ Become(r, [Idle EXCEPT !.pc = "diff", !.cmd = cmd, !.schedule = s, !.srow = srow])
  /\ UNCHANGED <<tournament, match, sched, up, crashes>>

BeginStart(r, s) ==
  /\ Admitted /\ sched[s].status = "inactive" /\ ~sched[s].archived
  /\ \E m \in MatchesOf(s) \cup {None} : Edits(r, s, "start", Started(sched[s], m))

BeginArchive(r, s) ==
  /\ up /\ sched[s].status = "completed"
  /\ \/ Edits(r, s, "archive", [sched[s] EXCEPT !.archived = TRUE])
     \/ Edits(r, s, "unarchive", [sched[s] EXCEPT !.archived = FALSE])

DiffSchedule(w) ==
  LET t == task[w]
  IN  /\ At(w, "diff")
      /\ Become(w, [t EXCEPT !.pc = "update",
                             !.dirty = {c \in Column : t.srow[c] # sched[t.schedule][c]}])
      /\ UNCHANGED <<tournament, match, sched, up, crashes>>

\* Slip: the UPDATE does not wait for the row.
UpdateUnlocked(w) ==
  LET t == task[w]
      s == t.schedule
  IN  /\ At(w, "update")
      /\ sched' = [sched EXCEPT ![s] = Updated(@, t.srow, t.dirty)]
      /\ IF t.cmd = "start" THEN Become(w, [Idle EXCEPT !.pc = "takeBack", !.cmd = t.cmd, !.schedule = s])
         ELSE Answer(w)
      /\ UNCHANGED <<tournament, match, up, crashes>>

\* The UPDATE of the columns that differed.
UpdateSchedule(w) ==
  LET t == task[w]
      s == t.schedule
  IN  /\ At(w, "update") /\ ~Locked(s)
      /\ sched' = [sched EXCEPT ![s] = Updated(@, t.srow, t.dirty)]
      /\ IF t.cmd = "start" THEN Become(w, [Idle EXCEPT !.pc = "takeBack", !.cmd = t.cmd, !.schedule = s])
         ELSE Answer(w)
      /\ UNCHANGED <<tournament, match, up, crashes>>

\* Slip: a start walks without taking its matches over.
TakeBackNothing(w) ==
  /\ At(w, "takeBack")
  /\ Become(w, [task[w] EXCEPT !.pc = "recalculate"])
  /\ UNCHANGED <<tournament, match, sched, up, crashes>>

\* deactivateEveryMatch.
TakeBack(w) ==
  /\ At(w, "takeBack")
  /\ match' = Switched({}, MatchesOf(task[w].schedule))
  /\ Become(w, [task[w] EXCEPT !.pc = "recalculate"])
  /\ UNCHANGED <<tournament, sched, up, crashes>>

BeginStop(r, s) ==
  /\ At(r, "idle") /\ Admitted /\ "stop" \in Controls
  /\ Become(r, [Idle EXCEPT !.pc = "stop", !.cmd = "stop", !.schedule = s])
  /\ UNCHANGED <<tournament, match, sched, up, crashes>>

-----------------------------------------------------------------------------
(***************************************************************************)
(* Closing the tournament, and the server going down and coming back.      *)
(***************************************************************************)

\* Only the close that moved the status stops the schedules.
Close(r) ==
  /\ At(r, "idle") /\ up /\ tournament = "open" /\ "close" \in Controls
  /\ tournament' = "closed"
  /\ Become(r, [Idle EXCEPT !.pc = "closing", !.cmd = "close"])
  /\ UNCHANGED <<match, sched, up, crashes>>

ReopenTournament(r) ==
  /\ At(r, "idle") /\ up /\ tournament = "closed" /\ "reopenTournament" \in Controls
  /\ tournament' = "open"
  /\ UNCHANGED <<match, sched, task, up, crashes>>

RunningSchedules == {s \in Schedule : Running(s)}

StopTournament(w) ==
  /\ At(w, "closing")
  /\ Become(w, [task[w] EXCEPT !.pc = "sweep", !.sweep = RunningSchedules])
  /\ UNCHANGED <<tournament, match, sched, up, crashes>>

\* Slip: the server listens without reconciling.
RestartAtOnce ==
  /\ ~up /\ up' = TRUE
  /\ UNCHANGED <<tournament, match, sched, task, crashes>>

\* reconcileRunning, before the server listens again.
Restart ==
  /\ ~up /\ At(Boot, "idle")
  /\ Become(Boot, [Idle EXCEPT !.pc = "sweep", !.cmd = "boot", !.sweep = RunningSchedules])
  /\ UNCHANGED <<tournament, match, sched, up, crashes>>

\* One schedule after another: stopped by a close, recalculated by the boot.
Sweep(w) ==
  LET t == task[w]
  IN  /\ At(w, "sweep")
      /\ IF t.sweep = {} THEN Answer(w) /\ up' = (up \/ t.cmd = "boot")
         ELSE /\ \E s \in t.sweep :
                   Become(w, [t EXCEPT !.pc = IF t.cmd = "boot" THEN "recalculate" ELSE "stop",
                                       !.then = "sweep", !.schedule = s, !.sweep = @ \ {s}])
              /\ UNCHANGED up
      /\ UNCHANGED <<tournament, match, sched, crashes>>

\* Every handler is lost, every open transaction rolled back.
Crash ==
  /\ crashes < MaxCrashes
  /\ up' = FALSE /\ crashes' = crashes + 1
  /\ task' = [w \in Worker |-> Idle]
  /\ UNCHANGED <<tournament, match, sched>>

-----------------------------------------------------------------------------

Begin(r) ==
  \/ \E m \in Match, cmd \in Commands : BeginCommand(r, m, cmd)
  \/ \E s \in Schedule : BeginStart(r, s) \/ BeginArchive(r, s) \/ BeginStop(r, s)
  \/ Close(r) \/ ReopenTournament(r)

\* What a request in flight does next without waiting for a row lock, and
\* what it does once the lock is free.
Proceed(w) ==
  \/ GuardSchedule(w) \/ Load(w) \/ ManualActivation(w) \/ ApplyRule(w) \/ SaveTarget(w)
  \/ Reverted(w) \/ Save(w) \/ Saved(w) \/ Settle(w) \/ DiffSchedule(w) \/ TakeBack(w)
  \/ StopTournament(w) \/ Sweep(w)

WithLock(w) == Recalculate(w) \/ Stop(w) \/ InterruptCompleted(w) \/ UpdateSchedule(w)

Next ==
  \/ \E r \in Request : Begin(r)
  \/ \E w \in Worker : Proceed(w) \/ WithLock(w)
  \/ Restart \/ Crash

Spec == Init /\ [][Next]_vars

\* Handlers run on and a crashed server is restarted; Postgres serves those
\* that wait for a row in turn.  Nobody is obliged to send another request.
Fairness ==
  /\ \A w \in Worker : WF_vars(Proceed(w)) /\ SF_vars(WithLock(w))
  /\ WF_vars(Restart)

FairSpec == Spec /\ Fairness
=============================================================================
