------------------------ MODULE ControlRoomProperties ------------------------
(***************************************************************************)
(* What the control room promises.  Each property names the discipline it  *)
(* needs: some hold however requests interleave, some only while requests  *)
(* come one after another, which the runs choose with Request.             *)
(***************************************************************************)
EXTENDS ControlRoom

\* The steps of a handler that have a match in hand, and those that have a
\* schedule.
WithMatch    == {"manual", "guard", "load", "reverting", "save", "advancing", "target"}
WithSchedule == {"stop", "interrupt", "recalculate", "settle", "diff", "update", "takeBack"}

\* Where a schedule can stand: at one of its entries, or nowhere.
Standing(s) == MatchesOf(s) \cup {None}

\* A task holds the fields its step reads, also when it comes back to one.
WellFormed(t) ==
  /\ t.pc \in WithMatch \/ t.then \in WithMatch => t.match \in Match /\ t.cmd \in MatchCommand
  /\ t.pc = "manual" => t.cmd \in ManualCommand
  /\ t.pc = "target" => t.target \in Match
  /\ t.pc \in WithSchedule => t.schedule \in Schedule
  /\ t.pc = "interrupt" => t.match \in MatchesOf(t.schedule)
  /\ t.pc \in {"diff", "update", "settle"} => t.srow.current \in Standing(t.schedule)

Handler == {t \in Task : WellFormed(t)}

(***************************************************************************)
(* Every row holds the columns of its table, and every task the fields its *)
(* handler gives it before the step that reads them.                       *)
(***************************************************************************)
TypeOK ==
  /\ tournament \in {"open", "closed"}
  /\ match \in [Match -> Row]
  /\ sched \in [Schedule -> ScheduleRow] /\ \A s \in Schedule : sched[s].current \in Standing(s)
  /\ task \in [Worker -> Handler]
  /\ up \in BOOLEAN
  /\ crashes \in 0..MaxCrashes

\* Nothing is in flight: what a person looking at the control room sees.
Quiet == up /\ \A w \in Worker : At(w, "idle")

\* A start has switched the schedule on and not yet taken its matches over.
TakingOver(s) == \E w \in Worker : At(w, "takeBack") /\ task[w].schedule = s

-----------------------------------------------------------------------------

(***************************************************************************)
(* "A schedule holds one active match at a time and decides which"         *)
(* (schedule.commands.ts, start): once a start has taken the matches over, *)
(* a running schedule has no match on a cabinet except its current one.    *)
(***************************************************************************)
OneActiveMatch ==
  up => \A s \in Schedule :
    Running(s) /\ ~TakingOver(s) => Active(MatchesOf(s)) \subseteq {sched[s].current}

(***************************************************************************)
(* The same sentence, of what a person finds between requests: a running   *)
(* schedule never has two of its matches on a cabinet.                     *)
(***************************************************************************)
NeverTwoActive ==
  Quiet => \A s \in RunningSchedules : Cardinality(Active(MatchesOf(s))) <= 1

(***************************************************************************)
(* A schedule that does not run has left no match on a cabinet, unless a   *)
(* person put it there (schedule.runner.ts, stop and deactivateCurrent).   *)
(***************************************************************************)
StopLeavesNoneActive ==
  Quiet => \A s \in Schedule : ~Running(s) => Active(MatchesOf(s)) = {}

(***************************************************************************)
(* When every request has been answered, a running schedule stands where   *)
(* a recalculation would put it: each command that can move the verdict    *)
(* has recalculated (match.commands.ts, recalculateScheduleIfMoved).       *)
(***************************************************************************)
StandsWhereItShould ==
  Quiet => \A s \in RunningSchedules : \A n \in 1..Len(Entries[s]) + 1 :
             WalkStopsAt(s, n) => Verdict(s, n) = [srow |-> sched[s], on |-> {}, off |-> {}]

(***************************************************************************)
(* "A player cannot be sent to two cabinets at once" (schedule.runner.ts,  *)
(* ACTIVE_CONFLICTS): two matches on a cabinet share no player.            *)
(***************************************************************************)
OneCabinetPerPlayer ==
  \A m, o \in Active(Match) : m # o => match[m].players \cap match[o].players = {}

(***************************************************************************)
(* "an entry waits while another match has them" (schedule.eligibility.ts, *)
(* evaluateConflicts): a schedule that waits for players who are active    *)
(* elsewhere waits for a match that is still on a cabinet.                 *)
(***************************************************************************)
WaitsOnlyWhileBlocked ==
  Quiet => \A s \in RunningSchedules :
             sched[s].stale = "ENTRANTS_ALREADY_ACTIVE" => Blockers(sched[s].current, {}) # {}

(***************************************************************************)
(* Once a close has been answered nothing of the tournament runs           *)
(* (tournament.commands.ts, close; the check in recalculateLocked). Of one *)
(* schedule, or by one request at a time: with two of both, a stop by hand *)
(* makes the loop of stopTournament throw at its schedule, and those       *)
(* behind it run on (schedule.runner.ts:319).                              *)
(***************************************************************************)
ClosedRunsNothing ==
  Quiet /\ tournament = "closed" => RunningSchedules = {}

(***************************************************************************)
(* "Only completed schedules can be archived" (schedule.aggregate.ts,      *)
(* archive): reopening a result takes its schedule out of the archive too, *)
(* and an archived schedule is one that can be taken out of it by hand.    *)
(***************************************************************************)
OnlyCompletedArchived ==
  \A s \in Schedule : sched[s].archived => sched[s].status = "completed"

-----------------------------------------------------------------------------

\* One handler at a time holds a schedule.
OneHolder ==
  \A v, w \in Worker :
    At(v, "settle") /\ At(w, "settle") /\ task[v].schedule = task[w].schedule => v = w

\* A schedule that runs may become this row: it stops, or it walks on.
WalksOn(s, next) ==
  /\ Running(s)
  /\ next.status = "running" =>
       /\ next.current # None
       /\ sched[s].current # None => Pos(s, next.current) >= Pos(s, sched[s].current)

HolderWalksOn ==
  \A w \in Worker : At(w, "settle") => WalksOn(task[w].schedule, task[w].srow)

\* An archive or its opposite edits the row of a completed schedule.
EditsCompleted ==
  \A w \in Worker :
    task[w].pc \in {"diff", "update"} /\ task[w].cmd # "start" => task[w].srow.status = "completed"

(***************************************************************************)
(* What the row lock of loadScheduleForUpdate guarantees between the reads *)
(* and the writes of a recalculation (schedule.runner.ts).                 *)
(***************************************************************************)
LockDiscipline == OneHolder /\ HolderWalksOn /\ EditsCompleted

\* The step is the UPDATE of an edit of this schedule, or that of a start.
Edited(w, s)    == At(w, "update") /\ task[w].schedule = s /\ ~At(w, "update")'
Written(s)      == \E w \in Worker : Edited(w, s)
StartWritten(s) == \E w \in Worker : Edited(w, s) /\ task[w].cmd = "start"

StartsRunning ==
  \A s \in Schedule : ~Running(s) /\ Running(s)' => StartWritten(s)

WalksForward ==
  \A s \in Schedule :
    Running(s) /\ Running(s)' /\ sched[s].current # None /\ ~Written(s) =>
      /\ sched'[s].current # None
      /\ Pos(s, sched'[s].current) >= Pos(s, sched[s].current)

(***************************************************************************)
(* A schedule that stopped or completed runs again only because a start    *)
(* wrote it: no recalculation that was under way brings it back            *)
(* (schedule.runner.ts, the row lock of loadScheduleForUpdate).            *)
(***************************************************************************)
OnlyAStartRuns == [][StartsRunning]_vars

(***************************************************************************)
(* The walk goes forward: while a schedule runs, its current entry never   *)
(* moves back unless a start names another (recalculateLocked).            *)
(***************************************************************************)
NeverWalksBack == [][WalksForward]_vars

(***************************************************************************)
(* A settled match does not hold the schedule: the walk passes it, also    *)
(* when the server goes down in between (schedule.bootstrap.ts).           *)
(***************************************************************************)
PassesSettledMatch ==
  \A s \in Schedule, m \in Match :
    Running(s) /\ sched[s].current = m /\ Passed(match[m])
      ~> ~(Running(s) /\ sched[s].current = m /\ Passed(match[m]))

(***************************************************************************)
(* Every request is answered: no handler waits for a row for ever, and the *)
(* server comes back.  (Without a run of its own: that two requests never  *)
(* stop each other is the absence of a deadlock.)                          *)
(***************************************************************************)
EveryRequestAnswered ==
  \A w \in Worker : ~At(w, "idle") ~> At(w, "idle")
=============================================================================
