------------------------------ MODULE SerialProofs ------------------------------
(***************************************************************************)
(* What the control room promises while nobody interferes: closing stops   *)
(* every schedule when there is one schedule, or when requests come one    *)
(* after another, and with such requests what is archived is completed, a  *)
(* running schedule has one match on a cabinet, one that stopped has none, *)
(* the only schedule stands where it should, and no player is sent to two  *)
(* cabinets.  The server may go down at any step.                          *)
(***************************************************************************)
EXTENDS ControlRoomProofs

OneSchedule == \A s, t \in Schedule : s = t
OneRequest  == \A q, r \in Request : q = r

-----------------------------------------------------------------------------
(***************************************************************************)
(* The inductive invariant.                                                *)
(***************************************************************************)

\* The bootstrap works while the server is down, requests while it is up.
Shifts ==
  /\ up => At(Boot, "idle")
  /\ ~up => \A r \in Request : At(r, "idle")

\* A handler that visits one schedule after another.
Sweeps(t) == t.pc = "sweep" \/ t.then = "sweep"

\* A sweep belongs to the bootstrap, which recalculates, or to a close, which stops.
InRole(t) ==
  /\ t.pc = "closing" => t.cmd = "close"
  /\ Sweeps(t) => \/ t.cmd = "boot" /\ t.pc \in {"sweep", "recalculate", "settle"}
                  \/ t.cmd = "close" /\ t.pc \in {"sweep", "stop"}

Roles == \A w \in Worker : InRole(task[w])

\* What this handler has yet to do stops s, should the tournament stay closed.
Ends(w, s) ==
  \/ At(w, "closing")
  \/ task[w].pc \in {"stop", "takeBack", "recalculate"} /\ task[w].schedule = s
  \/ At(w, "settle") /\ task[w].schedule = s /\ task[w].srow.status # "running"
  \/ Sweeps(task[w]) /\ s \in task[w].sweep

\* Whatever runs in a closed tournament, a handler or the next bootstrap ends.
BootOwesAll == ~up /\ At(Boot, "idle")
Ended == tournament = "closed" => BootOwesAll \/ \A s \in RunningSchedules : \E w \in Worker : Ends(w, s)

\* A close that is alone finds every schedule on its list running, and none twice.
Undisturbed(t) ==
  Sweeps(t) /\ t.cmd = "close" =>
    /\ t.sweep \subseteq RunningSchedules
    /\ t.pc = "stop" => Running(t.schedule) /\ t.schedule \notin t.sweep

\* An edit that is alone saves what it checked, and no verdict is of an archived row.
EditsWhatItRead(t) ==
  /\ t.pc \in {"diff", "update"} =>
       IF t.cmd = "start" THEN ~t.srow.archived /\ ~sched[t.schedule].archived
       ELSE t.srow.status = "completed" /\ sched[t.schedule].status = "completed"
  /\ t.pc = "settle" => ~t.srow.archived

Serial ==
  /\ \A w \in Worker : Undisturbed(task[w]) /\ EditsWhatItRead(task[w])
  /\ OnlyCompletedArchived

Inv == Shifts /\ Roles /\ (OneSchedule \/ OneRequest => Ended) /\ (OneRequest => Serial)

\* One handler takes a step of its own; only the bootstrap, at its end, brings
\* the server up.
Moves(w) ==
  /\ \A v \in Worker \ {w} : task'[v] = task[v]
  /\ ~At(w, "idle") \/ (w \in Request /\ up)
  /\ up' = up \/ (up' /\ w = Boot /\ At(w, "idle")')

-----------------------------------------------------------------------------
(***************************************************************************)
(* What a step has to do to keep each part.                                *)
(***************************************************************************)

\* While the server is up the bootstrap is idle, and while it is down requests are.
LEMMA WhoMoves ==
  ASSUME Shifts, NEW w \in Worker, Moves(w)
  PROVE  (w \in Request /\ up) \/ (w = Boot /\ ~up /\ ~At(Boot, "idle"))
BY NamesAssumption DEF Shifts, Moves, Worker

LEMMA ShiftsKept ==
  ASSUME Shifts, NEW w \in Worker, Moves(w)
  PROVE  Shifts'
<1>1. CASE w \in Request /\ up
  <2>1. up' /\ task'[Boot] = task[Boot]
    BY <1>1, NamesAssumption DEF Moves, Worker
  <2> QED BY <1>1, <2>1 DEF Shifts, At
<1>2. CASE w = Boot /\ ~up
  <2>1. \A r \in Request : task'[r] = task[r]
    BY <1>2, NamesAssumption DEF Moves, Worker
  <2>2. up' => At(Boot, "idle")'
    BY <1>2 DEF Moves
  <2> QED BY <1>2, <2>1, <2>2 DEF Shifts, At
<1> QED BY <1>1, <1>2, WhoMoves

LEMMA RolesKept ==
  ASSUME Roles, NEW w \in Worker, Moves(w), InRole(task[w])'
  PROVE  Roles'
<1> SUFFICES ASSUME NEW v \in Worker, v # w PROVE InRole(task[v])'
  BY DEF Roles
<1>1. task'[v] = task[v]
  BY DEF Moves
<1> QED BY <1>1 DEF Roles, InRole, Sweeps

\* A step that leaves nothing running unless somebody still has to end it.
Leaves(w) ==
  /\ tournament' = "closed" => tournament = "closed" \/ At(w, "closing")'
  /\ tournament' = "closed" =>
       \A s \in Schedule : Running(s)' => Ends(w, s)' \/ (Running(s) /\ ~Ends(w, s))

LEMMA EndedKept ==
  ASSUME Shifts, Ended, NEW w \in Worker, Moves(w), Leaves(w)
  PROVE  Ended'
<1> SUFFICES ASSUME tournament' = "closed", NEW s \in Schedule, Running(s)', ~Ends(w, s)'
             PROVE  \E v \in Worker : Ends(v, s)'
  BY DEF Ended, RunningSchedules
<1>1. tournament = "closed" /\ Running(s) /\ ~Ends(w, s)
  BY DEF Leaves, Ends
<1>2. ~BootOwesAll
  BY WhoMoves DEF BootOwesAll
<1>3. PICK v \in Worker : Ends(v, s)
  BY <1>1, <1>2 DEF Ended, RunningSchedules
<1>4. task'[v] = task[v]
  BY <1>1, <1>3 DEF Moves
<1> QED BY <1>3, <1>4 DEF Ends, At, Sweeps

\* With one request at a time, whoever does not move is idle.
LEMMA SerialKept ==
  ASSUME OneRequest, Shifts, Roles, Serial, NEW w \in Worker, Moves(w),
         Undisturbed(task[w])', EditsWhatItRead(task[w])', OnlyCompletedArchived'
  PROVE  Serial'
<1> SUFFICES ASSUME NEW v \in Worker, v # w
             PROVE  Undisturbed(task[v])' /\ EditsWhatItRead(task[v])'
  BY DEF Serial
<1>1. task'[v] = task[v]
  BY DEF Moves
<1>2. task[v].pc = "idle"
  BY WhoMoves DEF Worker, OneRequest, Shifts, At
<1>3. ~Sweeps(task[v])
  BY <1>2 DEF Roles, InRole
<1> QED BY <1>1, <1>2, <1>3 DEF Undisturbed, EditsWhatItRead, Sweeps

LEMMA InvKept ==
  ASSUME Inv, NEW w \in Worker, Moves(w), InRole(task[w])',
         OneSchedule \/ OneRequest => Leaves(w),
         OneRequest => Undisturbed(task[w])' /\ EditsWhatItRead(task[w])' /\ OnlyCompletedArchived'
  PROVE  Inv'
<1>1. Shifts' /\ Roles'
  BY ShiftsKept, RolesKept DEF Inv
<1>2. OneSchedule \/ OneRequest => Ended'
  BY EndedKept DEF Inv
<1>3. OneRequest => Serial'
  BY SerialKept DEF Inv
<1> QED BY <1>1, <1>2, <1>3 DEF Inv, OneSchedule, OneRequest

-----------------------------------------------------------------------------
(***************************************************************************)
(* The steps that leave every schedule row alone and begin no visit.       *)
(***************************************************************************)

LEMMA GoesOnKept ==
  ASSUME TypeOK, Inv, NEW w \in Worker, GoesOn(w), UNCHANGED <<tournament, sched, up>>,
         task[w].pc \notin Watched \cup Visits \cup {"stop", "takeBack", "recalculate"},
         At(w, "idle") => w \in Request /\ up
  PROVE  Inv'
<1>1. PICK t : Become(w, t) /\ Apart(t, task[w].then)
  BY DEF GoesOn
<1>2. task'[w] = t /\ \A v \in Worker \ {w} : task'[v] = task[v]
  BY <1>1 DEF Become, TypeOK
<1>3. Moves(w)
  BY <1>2 DEF Moves
<1>4. ~Sweeps(task[w])
  BY DEF Inv, Roles, InRole, Watched, Visits
<1>5. t.pc \notin Watched \cup Visits /\ ~Sweeps(t)
  BY <1>1, <1>4 DEF Apart, Sweeps, Visits
<1>6. InRole(task[w])'
  BY <1>2, <1>5 DEF InRole, Visits, Sweeps
<1>7. Leaves(w)
  <2>1. \A s \in Schedule : ~Ends(w, s)
    BY <1>4 DEF Ends, At, Watched, Visits
  <2> QED BY <2>1 DEF Leaves, Running
<1>8. Undisturbed(task[w])' /\ EditsWhatItRead(task[w])'
  BY <1>2, <1>5 DEF Undisturbed, EditsWhatItRead, Watched, Visits, Sweeps
<1>9. OneRequest => OnlyCompletedArchived'
  BY DEF Inv, Serial, OnlyCompletedArchived
<1> QED BY <1>3, <1>6, <1>7, <1>8, <1>9, InvKept

LEMMA MatchStepsKept ==
  ASSUME TypeOK, Inv, NEW w \in Worker, MatchStep(w), ~At(w, "takeBack")
  PROVE  Inv'
<1>1. task[w].pc \in {"guard", "load", "manual", "reverting", "advancing", "target", "save"}
  BY DEF MatchStep, GuardSchedule, Load, ManualActivation, ApplyRule, SaveTarget, Reverted, Save,
         Saved, TakeBack, At
<1>2. UNCHANGED <<tournament, sched, up>>
  BY DEF MatchStep, GuardSchedule, Load, ManualActivation, ApplyRule, SaveTarget, Reverted, Save,
         Saved, TakeBack
<1> QED BY <1>1, <1>2, MatchStepsGoOn, GoesOnKept DEF At, Watched, Visits

LEMMA BeginCommandKept ==
  ASSUME TypeOK, Inv, NEW r \in Request, NEW m \in Match, NEW cmd \in Commands, BeginCommand(r, m, cmd)
  PROVE  Inv'
<1>1. r \in Worker /\ At(r, "idle") /\ up /\ UNCHANGED <<tournament, sched, up>>
  BY DEF BeginCommand, Admitted, Worker
<1> QED BY <1>1, BeginCommandGoesOn, GoesOnKept DEF At, Watched, Visits

-----------------------------------------------------------------------------
(***************************************************************************)
(* The steps that edit, hold or visit schedules.                           *)
(***************************************************************************)

\* A step of one handler, from what it had in memory to this.
LEMMA Moved ==
  ASSUME TypeOK, NEW w \in Worker, NEW e, Become(w, e),
         ~At(w, "idle") \/ (w \in Request /\ up), up' = up \/ (up' /\ w = Boot /\ e.pc = "idle")
  PROVE  task'[w] = e /\ Moves(w)
<1>1. task'[w] = e /\ \A v \in Worker \ {w} : task'[v] = task[v]
  BY DEF Become, TypeOK
<1> QED BY <1>1 DEF Moves, At

\* A handler whose step is none of a sweep is on none.
LEMMA OffDuty ==
  ASSUME Inv, NEW w \in Worker, task[w].pc \notin {"sweep", "recalculate", "settle", "stop"}
  PROVE  ~Sweeps(task[w])
BY DEF Inv, Roles, InRole

LEMMA TakeBackKept ==
  ASSUME TypeOK, Inv, NEW w \in Worker, TakeBack(w)
  PROVE  Inv'
<1> DEFINE t == task[w]
           e == [t EXCEPT !.pc = "recalculate"]
<1>1. t \in Task /\ t.pc = "takeBack" /\ ~Sweeps(t)
  BY OffDuty DEF TypeOK, Handler, TakeBack, At
<1>2. Become(w, e) /\ UNCHANGED <<tournament, sched, up>>
  BY DEF TakeBack
<1>3. e.pc = "recalculate" /\ e.schedule = t.schedule /\ e.then = t.then
  BY <1>1 DEF Task
<1> HIDE DEF e
<1>4. task'[w] = e /\ Moves(w)
  BY <1>1, <1>2, Moved DEF At
<1>5. ~Sweeps(e)
  BY <1>1, <1>3 DEF Sweeps
<1>6. InRole(task[w])'
  BY <1>3, <1>4, <1>5 DEF InRole, Sweeps
<1>7. Leaves(w)
  BY <1>1, <1>2, <1>3, <1>4 DEF Leaves, Ends, At, Running
<1>8. Undisturbed(task[w])' /\ EditsWhatItRead(task[w])'
  BY <1>3, <1>4, <1>5 DEF Undisturbed, EditsWhatItRead, Sweeps
<1>9. OneRequest => OnlyCompletedArchived'
  BY <1>2 DEF Inv, Serial, OnlyCompletedArchived
<1> QED BY <1>4, <1>6, <1>7, <1>8, <1>9, InvKept

\* An edit of a schedule begins with what it read.
LEMMA EditsBegun ==
  ASSUME TypeOK, Inv, NEW r \in Request, up, NEW s \in Schedule, NEW cmd, NEW srow, Edits(r, s, cmd, srow),
         UNCHANGED up,
         IF cmd = "start" THEN ~srow.archived /\ ~sched[s].archived
         ELSE srow.status = "completed" /\ sched[s].status = "completed"
  PROVE  Inv'
<1> DEFINE e == [Idle EXCEPT !.pc = "diff", !.cmd = cmd, !.schedule = s, !.srow = srow]
<1>1. r \in Worker /\ task[r].pc = "idle" /\ Become(r, e) /\ UNCHANGED <<tournament, sched>>
  BY DEF Edits, At, Worker
<1>2. e.pc = "diff" /\ e.cmd = cmd /\ e.schedule = s /\ e.srow = srow /\ e.then = "idle"
  BY DEF Idle
<1> HIDE DEF e
<1>3. task'[r] = e /\ Moves(r)
  BY <1>1, Moved
<1>4. ~Sweeps(task[r]) /\ ~Sweeps(e)
  BY <1>1, <1>2, OffDuty DEF Sweeps
<1>5. InRole(task[r])'
  BY <1>2, <1>3, <1>4 DEF InRole, Sweeps
<1>6. Leaves(r)
  BY <1>1, <1>4 DEF Leaves, Ends, At, Running
<1>7. Undisturbed(task[r])' /\ EditsWhatItRead(task[r])'
  BY <1>1, <1>2, <1>3, <1>4 DEF Undisturbed, EditsWhatItRead, Sweeps
<1>8. OneRequest => OnlyCompletedArchived'
  BY <1>1 DEF Inv, Serial, OnlyCompletedArchived
<1> QED BY <1>1, <1>3, <1>5, <1>6, <1>7, <1>8, InvKept

LEMMA BeginStartKept ==
  ASSUME TypeOK, Inv, NEW r \in Request, NEW s \in Schedule, BeginStart(r, s)
  PROVE  Inv'
<1>1. PICK m : Edits(r, s, "start", Started(sched[s], m))
  BY DEF BeginStart
<1>2. up /\ UNCHANGED up /\ ~sched[s].archived /\ sched[s] \in ScheduleRow
  BY DEF BeginStart, Admitted, Edits, TypeOK
<1>3. Started(sched[s], m).archived = sched[s].archived
  BY <1>2 DEF Started, ScheduleRow
<1> QED BY <1>1, <1>2, <1>3, EditsBegun

LEMMA BeginArchiveKept ==
  ASSUME TypeOK, Inv, NEW r \in Request, NEW s \in Schedule, BeginArchive(r, s)
  PROVE  Inv'
<1>1. PICK cmd \in {"archive", "unarchive"}, flag \in BOOLEAN :
        Edits(r, s, cmd, [sched[s] EXCEPT !.archived = flag])
  BY DEF BeginArchive
<1>2. up /\ UNCHANGED up /\ sched[s].status = "completed" /\ sched[s] \in ScheduleRow
  BY DEF BeginArchive, Edits, TypeOK
<1>3. [sched[s] EXCEPT !.archived = flag].status = sched[s].status
  BY <1>2 DEF ScheduleRow
<1> QED BY <1>1, <1>2, <1>3, EditsBegun

LEMMA BeginStopKept ==
  ASSUME TypeOK, Inv, NEW r \in Request, NEW s \in Schedule, BeginStop(r, s)
  PROVE  Inv'
<1> DEFINE e == [Idle EXCEPT !.pc = "stop", !.cmd = "stop", !.schedule = s]
<1>1. /\ r \in Worker /\ task[r].pc = "idle" /\ up /\ Become(r, e)
      /\ UNCHANGED <<tournament, sched, up>>
  BY DEF BeginStop, Admitted, At, Worker
<1>2. e.pc = "stop" /\ e.then = "idle"
  BY DEF Idle
<1> HIDE DEF e
<1>3. task'[r] = e /\ Moves(r)
  BY <1>1, Moved
<1>4. ~Sweeps(task[r]) /\ ~Sweeps(e)
  BY <1>1, <1>2, OffDuty DEF Sweeps
<1>5. InRole(task[r])'
  BY <1>2, <1>3, <1>4 DEF InRole, Sweeps
<1>6. Leaves(r)
  BY <1>1, <1>4 DEF Leaves, Ends, At, Running
<1>7. Undisturbed(task[r])' /\ EditsWhatItRead(task[r])'
  BY <1>2, <1>3, <1>4 DEF Undisturbed, EditsWhatItRead, Sweeps
<1>8. OneRequest => OnlyCompletedArchived'
  BY <1>1 DEF Inv, Serial, OnlyCompletedArchived
<1> QED BY <1>1, <1>3, <1>5, <1>6, <1>7, <1>8, InvKept

LEMMA CloseKept ==
  ASSUME TypeOK, Inv, NEW r \in Request, Close(r)
  PROVE  Inv'
<1> DEFINE e == [Idle EXCEPT !.pc = "closing", !.cmd = "close"]
<1>1. r \in Worker /\ task[r].pc = "idle" /\ up /\ Become(r, e) /\ UNCHANGED <<sched, up>>
  BY DEF Close, At, Worker
<1>2. e.pc = "closing" /\ e.cmd = "close" /\ e.then = "idle"
  BY DEF Idle
<1> HIDE DEF e
<1>3. task'[r] = e /\ Moves(r)
  BY <1>1, Moved
<1>4. ~Sweeps(e)
  BY <1>2 DEF Sweeps
<1>5. InRole(task[r])'
  BY <1>2, <1>3, <1>4 DEF InRole, Sweeps
<1>6. Leaves(r)
  BY <1>2, <1>3 DEF Leaves, Ends, At
<1>7. Undisturbed(task[r])' /\ EditsWhatItRead(task[r])'
  BY <1>2, <1>3, <1>4 DEF Undisturbed, EditsWhatItRead, Sweeps
<1>8. OneRequest => OnlyCompletedArchived'
  BY <1>1 DEF Inv, Serial, OnlyCompletedArchived
<1> QED BY <1>1, <1>3, <1>5, <1>6, <1>7, <1>8, InvKept

LEMMA DiffScheduleKeeps ==
  ASSUME TypeOK, Inv, NEW w \in Worker, DiffSchedule(w)
  PROVE  Inv'
<1> DEFINE t == task[w]
           dirty == {c \in Column : t.srow[c] # sched[t.schedule][c]}
           e == [t EXCEPT !.pc = "update", !.dirty = dirty]
<1>1. t \in Task /\ t.pc = "diff" /\ ~Sweeps(t)
  BY OffDuty DEF TypeOK, Handler, DiffSchedule, At
<1>2. Become(w, e) /\ UNCHANGED <<tournament, sched, up>>
  BY DEF DiffSchedule
<1> HIDE DEF dirty
<1>3. /\ e.pc = "update" /\ e.cmd = t.cmd /\ e.schedule = t.schedule
      /\ e.srow = t.srow /\ e.then = t.then
  BY <1>1 DEF Task
<1> HIDE DEF e
<1>4. task'[w] = e /\ Moves(w)
  BY <1>1, <1>2, Moved DEF At
<1>5. ~Sweeps(e)
  BY <1>1, <1>3 DEF Sweeps
<1>6. InRole(task[w])'
  BY <1>3, <1>4, <1>5 DEF InRole, Sweeps
<1>7. Leaves(w)
  BY <1>1, <1>2 DEF Leaves, Ends, At, Running
<1>8. Undisturbed(task[w])'
  BY <1>4, <1>5 DEF Undisturbed, Sweeps
<1>9. OneRequest => EditsWhatItRead(task[w])' /\ OnlyCompletedArchived'
  <2> SUFFICES ASSUME Serial PROVE EditsWhatItRead(task[w])' /\ OnlyCompletedArchived'
    BY DEF Inv
  <2>1. EditsWhatItRead(task[w])'
    BY <1>1, <1>2, <1>3, <1>4 DEF Serial, EditsWhatItRead
  <2> QED BY <1>2, <2>1 DEF Serial, OnlyCompletedArchived
<1> QED BY <1>4, <1>6, <1>7, <1>8, <1>9, InvKept

LEMMA StopTournamentKept ==
  ASSUME TypeOK, Inv, NEW w \in Worker, StopTournament(w)
  PROVE  Inv'
<1> DEFINE t == task[w]
           e == [t EXCEPT !.pc = "sweep", !.sweep = RunningSchedules]
<1>1. t \in Task /\ t.pc = "closing" /\ t.cmd = "close" /\ ~Sweeps(t)
  BY OffDuty DEF TypeOK, Handler, StopTournament, At, Inv, Roles, InRole
<1>2. Become(w, e) /\ UNCHANGED <<tournament, sched, up>>
  BY DEF StopTournament
<1>3. e.pc = "sweep" /\ e.cmd = "close" /\ e.sweep = RunningSchedules
  BY <1>1 DEF Task
<1> HIDE DEF e
<1>4. task'[w] = e /\ Moves(w)
  BY <1>1, <1>2, Moved DEF At
<1>5. InRole(task[w])'
  BY <1>3, <1>4 DEF InRole
<1>6. Leaves(w)
  BY <1>2, <1>3, <1>4 DEF Leaves, Ends, Sweeps, RunningSchedules, Running
<1>7. Undisturbed(task[w])' /\ EditsWhatItRead(task[w])'
  BY <1>2, <1>3, <1>4 DEF Undisturbed, EditsWhatItRead, RunningSchedules, Running
<1>8. OneRequest => OnlyCompletedArchived'
  BY <1>2 DEF Inv, Serial, OnlyCompletedArchived
<1> QED BY <1>4, <1>5, <1>6, <1>7, <1>8, InvKept

\* A sweep goes on to the next schedule of its list, or is over.
LEMMA SweepKept ==
  ASSUME TypeOK, Inv, NEW w \in Worker, Sweep(w)
  PROVE  Inv'
<1> DEFINE t == task[w]
           pc == IF t.cmd = "boot" THEN "recalculate" ELSE "stop"
           e(s) == [t EXCEPT !.pc = pc, !.then = "sweep", !.schedule = s, !.sweep = @ \ {s}]
<1>1. t \in Task /\ t.pc = "sweep" /\ t.cmd \in {"boot", "close"} /\ Sweeps(t)
  BY DEF TypeOK, Handler, Sweep, At, Inv, Roles, InRole, Sweeps
<1>2. UNCHANGED <<tournament, sched>>
  BY DEF Sweep
<1>3. OneRequest => OnlyCompletedArchived'
  BY <1>2 DEF Inv, Serial, OnlyCompletedArchived
<1>4. CASE t.sweep = {}
  <2>1. Become(w, Idle) /\ up' = (up \/ t.cmd = "boot")
    BY <1>4 DEF Sweep, Answer
  <2>2. Idle.pc = "idle" /\ Idle.then = "idle"
    BY DEF Idle
  <2>3. (w \in Request /\ up) \/ w = Boot
    BY <1>1 DEF Worker, Inv, Shifts, At
  <2>4. up \in BOOLEAN /\ (up' = up \/ (up' /\ w = Boot))
    BY <2>1, <2>3 DEF TypeOK
  <2>5. task'[w] = Idle /\ Moves(w)
    BY <1>1, <2>1, <2>2, <2>4, Moved DEF At
  <2>6. InRole(task[w])' /\ Undisturbed(task[w])' /\ EditsWhatItRead(task[w])'
    BY <2>2, <2>5 DEF InRole, Sweeps, Undisturbed, EditsWhatItRead
  <2>7. Leaves(w)
    BY <1>1, <1>2, <1>4 DEF Leaves, Ends, At, Running
  <2> QED BY <1>3, <2>5, <2>6, <2>7, InvKept
<1>5. ASSUME NEW s \in t.sweep, Become(w, e(s)), UNCHANGED up
      PROVE  Inv'
  <2>1. /\ e(s).pc = pc /\ e(s).then = "sweep" /\ e(s).schedule = s
        /\ e(s).sweep = t.sweep \ {s} /\ e(s).cmd = t.cmd
    <3> HIDE DEF pc, t
    <3> QED BY <1>1 DEF Task
  <2> DEFINE f == e(s)
  <2>2. Become(w, f)
    BY <1>5
  <2> HIDE DEF f, e
  <2>3. task'[w] = f /\ Moves(w)
    BY <1>1, <1>5, <2>2, Moved DEF At
  <2>4. InRole(task[w])'
    BY <1>1, <2>1, <2>3 DEF InRole, f
  <2>5. Leaves(w)
    <3> SUFFICES ASSUME NEW x \in Schedule, Running(x)', Ends(w, x) PROVE Ends(w, x)'
      BY <1>2 DEF Leaves, Running
    <3>1. x \in t.sweep
      BY <1>1 DEF Ends, At
    <3> QED BY <2>1, <2>3, <3>1 DEF Ends, Sweeps, f
  <2>6. EditsWhatItRead(task[w])'
    BY <2>1, <2>3 DEF EditsWhatItRead, f
  <2>7. OneRequest => Undisturbed(task[w])'
    <3> SUFFICES ASSUME Undisturbed(t) PROVE Undisturbed(task[w])'
      BY DEF Inv, Serial
    <3>1. f.cmd = "close" => t.sweep \subseteq RunningSchedules
      BY <1>1, <2>1 DEF Undisturbed, f
    <3>2. f.cmd = "close" => f.sweep \subseteq RunningSchedules /\ Running(f.schedule) /\ f.schedule \notin f.sweep
      BY <1>5, <2>1, <3>1 DEF RunningSchedules, f
    <3> QED BY <1>2, <2>3, <3>2 DEF Undisturbed, RunningSchedules, Running
  <2> QED BY <1>3, <2>3, <2>4, <2>5, <2>6, <2>7, InvKept
<1>6. t.sweep = {} \/ \E s \in t.sweep : Become(w, e(s)) /\ UNCHANGED up
  BY DEF Sweep
<1> QED BY <1>4, <1>5, <1>6

\* A schedule transaction of one schedule is over, and its handler goes on.
LEMMA ResumedKept ==
  ASSUME TypeOK, Inv, NEW w \in Worker, Become(w, Resumed(task[w])),
         task[w].pc \in {"stop", "interrupt", "recalculate", "settle"},
         UNCHANGED <<tournament, up>>, OneRequest => OnlyCompletedArchived',
         \A s \in Schedule \ {task[w].schedule} : sched'[s] = sched[s],
         sched'[task[w].schedule].status = "running" =>
           Running(task[w].schedule) /\ At(w, "settle") /\ task[w].srow.status = "running"
  PROVE  Inv'
<1> DEFINE t == task[w]
           e == Resumed(t)
<1>1. t \in Task
  BY DEF TypeOK, Handler
<1>2. CASE t.then = "sweep"
  <2>1. /\ e.pc = "sweep" /\ e.then = "idle" /\ e.cmd = t.cmd /\ e.sweep = t.sweep
    BY <1>1, <1>2 DEF Resumed, Task
  <2>2. t.cmd \in {"boot", "close"} /\ (t.cmd = "close" => t.pc = "stop") /\ Sweeps(t)
    BY <1>2 DEF Inv, Roles, InRole, Sweeps
  <2> HIDE DEF e
  <2>3. task'[w] = e /\ Moves(w)
    BY Moved DEF At, e
  <2>4. InRole(task[w])'
    BY <2>1, <2>2, <2>3 DEF InRole
  <2>5. Leaves(w)
    <3> SUFFICES ASSUME NEW s \in Schedule, Running(s)', ~Ends(w, s)' PROVE Running(s) /\ ~Ends(w, s)
      BY DEF Leaves
    <3>1. s \notin t.sweep
      BY <2>1, <2>3 DEF Ends, Sweeps
    <3> QED BY <3>1 DEF Ends, At, Running
  <2>6. EditsWhatItRead(task[w])'
    BY <2>1, <2>3 DEF EditsWhatItRead
  <2>7. OneRequest => Undisturbed(task[w])'
    <3> SUFFICES ASSUME Undisturbed(t), t.cmd = "close" PROVE t.sweep \subseteq RunningSchedules'
      BY <2>1, <2>3 DEF Inv, Serial, Undisturbed
    <3>1. t.sweep \subseteq RunningSchedules /\ t.schedule \notin t.sweep
      BY <2>2 DEF Undisturbed
    <3> QED BY <3>1 DEF RunningSchedules, Running
  <2> QED BY <2>3, <2>4, <2>5, <2>6, <2>7, InvKept
<1>3. CASE t.then # "sweep"
  <2>1. e.pc \notin Watched \cup Visits /\ ~Sweeps(e)
    BY <1>1, <1>3, ResumedApart DEF Apart, Sweeps, Visits
  <2> HIDE DEF e
  <2>2. task'[w] = e /\ Moves(w)
    BY Moved DEF At, e
  <2>3. InRole(task[w])' /\ Undisturbed(task[w])' /\ EditsWhatItRead(task[w])'
    BY <2>1, <2>2 DEF InRole, Undisturbed, EditsWhatItRead, Sweeps, Watched, Visits
  <2>4. ~Sweeps(t)
    BY <1>3 DEF Sweeps
  <2>5. Leaves(w)
    BY <2>4 DEF Leaves, Ends, At, Running
  <2> QED BY <2>2, <2>3, <2>5, InvKept
<1> QED BY <1>2, <1>3

\* A handler that answers, once what it was about to end does not run.
LEMMA AnswerKept ==
  ASSUME TypeOK, Inv, NEW w \in Worker, Answer(w), ~At(w, "idle"), UNCHANGED <<tournament, sched, up>>,
         OneSchedule \/ OneRequest => \A s \in RunningSchedules : ~Ends(w, s)
  PROVE  Inv'
<1>1. Idle.pc = "idle" /\ Idle.then = "idle"
  BY DEF Idle
<1>2. task'[w] = Idle /\ Moves(w)
  BY Moved DEF Answer
<1>3. InRole(task[w])' /\ Undisturbed(task[w])' /\ EditsWhatItRead(task[w])'
  BY <1>1, <1>2 DEF InRole, Undisturbed, EditsWhatItRead, Sweeps
<1>4. OneSchedule \/ OneRequest => Leaves(w)
  BY DEF Leaves, RunningSchedules, Running
<1>5. OneRequest => OnlyCompletedArchived'
  BY DEF Inv, Serial, OnlyCompletedArchived
<1> QED BY <1>2, <1>3, <1>4, <1>5, InvKept

\* A stop that throws ends a close: with one schedule there is no other to
\* stop, and with one request nobody was there to stop this one.
LEMMA StopKeeps ==
  ASSUME TypeOK, Inv, NEW w \in Worker, Stop(w)
  PROVE  Inv'
<1> DEFINE t == task[w]
           s == t.schedule
<1>1. t.pc = "stop" /\ s \in Schedule /\ UNCHANGED <<tournament, up>>
  BY DEF TypeOK, Stop, At, Handler, WellFormed, WithSchedule
<1>2. CASE Running(s)
  <2>1. PICK code : sched' = [sched EXCEPT ![s] = Stopped(@, code)]
    BY <1>2 DEF Stop
  <2>2. sched[s] \in ScheduleRow
    BY <1>1 DEF TypeOK
  <2>3. Stopped(sched[s], code).status = "inactive" /\ Stopped(sched[s], code).archived = sched[s].archived
    BY <2>2 DEF Stopped, ScheduleRow
  <2>4. sched'[s] = Stopped(sched[s], code) /\ \A x \in Schedule \ {s} : sched'[x] = sched[x]
    BY <1>1, <2>1 DEF TypeOK
  <2>5. sched'[s].status # "running"
    BY <2>3, <2>4 DEF Running
  <2>6. OneRequest => OnlyCompletedArchived'
    BY <1>2, <2>3, <2>4 DEF Inv, Serial, OnlyCompletedArchived, Running
  <2>7. Become(w, Resumed(t))
    BY <1>2 DEF Stop
  <2> QED BY <1>1, <2>4, <2>5, <2>6, <2>7, ResumedKept
<1>3. CASE ~Running(s)
  <2>1. Answer(w) /\ UNCHANGED sched
    BY <1>3 DEF Stop
  <2>2. ASSUME OneSchedule \/ OneRequest, NEW x \in RunningSchedules, Ends(w, x) PROVE FALSE
    <3>1. x \in Schedule /\ Running(x) /\ x # s
      BY <1>3, <2>2 DEF RunningSchedules
    <3>2. OneRequest
      BY <1>1, <2>2, <3>1 DEF OneSchedule
    <3>3. Sweeps(t)
      BY <1>1, <2>2, <3>1 DEF Ends, At
    <3>4. t.cmd = "close"
      BY <1>1, <3>3 DEF Inv, Roles, InRole
    <3> QED BY <1>1, <1>3, <3>2, <3>3, <3>4 DEF Inv, Serial, Undisturbed
  <2> QED BY <1>1, <2>1, <2>2, AnswerKept DEF At
<1> QED BY <1>2, <1>3

LEMMA InterruptCompletedKeeps ==
  ASSUME TypeOK, Inv, NEW w \in Worker, InterruptCompleted(w)
  PROVE  Inv'
<1> DEFINE t == task[w]
           s == t.schedule
<1>1. t.pc = "interrupt" /\ s \in Schedule /\ UNCHANGED <<tournament, up>> /\ ~Sweeps(t)
  BY OffDuty DEF TypeOK, InterruptCompleted, At, Handler, WellFormed, WithSchedule
<1>2. CASE sched[s].status = "completed"
  <2>1. sched' = [sched EXCEPT ![s] = Interrupted(@, t.match)] /\ Become(w, Resumed(t))
    BY <1>2 DEF InterruptCompleted
  <2>2. sched'[s] = Interrupted(sched[s], t.match) /\ \A x \in Schedule \ {s} : sched'[x] = sched[x]
    BY <1>1, <2>1 DEF TypeOK
  <2>3. sched'[s].status # "running" /\ ~sched'[s].archived
    BY <2>2 DEF Interrupted
  <2>4. OneRequest => OnlyCompletedArchived'
    BY <2>2, <2>3 DEF Inv, Serial, OnlyCompletedArchived
  <2> QED BY <1>1, <2>1, <2>2, <2>3, <2>4, ResumedKept
<1>3. CASE sched[s].status # "completed"
  <2>1. Answer(w) /\ UNCHANGED sched
    BY <1>3 DEF InterruptCompleted
  <2>2. \A x : ~Ends(w, x)
    BY <1>1 DEF Ends, At
  <2> QED BY <1>1, <2>1, <2>2, AnswerKept DEF At
<1> QED BY <1>2, <1>3

\* The UPDATE of a start leaves its handler to walk the schedule, and that of
\* an archive runs nothing.
LEMMA UpdateScheduleKeeps ==
  ASSUME TypeOK, LockDiscipline, Inv, NEW w \in Worker, UpdateSchedule(w)
  PROVE  Inv'
<1> DEFINE t == task[w]
           s == t.schedule
           row == Updated(sched[s], t.srow, t.dirty)
           e == IF t.cmd = "start" THEN [Idle EXCEPT !.pc = "takeBack", !.cmd = t.cmd, !.schedule = s] ELSE Idle
<1>1. t.pc = "update" /\ s \in Schedule /\ UNCHANGED <<tournament, up>> /\ ~Sweeps(t)
  BY OffDuty DEF TypeOK, UpdateSchedule, At, Handler, WellFormed, WithSchedule
<1>2. sched'[s] = row /\ \A x \in Schedule \ {s} : sched'[x] = sched[x]
  BY <1>1 DEF UpdateSchedule, TypeOK
<1>3. Become(w, e)
  BY DEF UpdateSchedule, Answer
<1>4. /\ e.then = "idle"
      /\ t.cmd = "start" => e.pc = "takeBack" /\ e.schedule = s
      /\ t.cmd # "start" => e.pc = "idle"
  BY DEF Idle
<1> HIDE DEF e
<1>5. task'[w] = e /\ Moves(w)
  BY <1>1, <1>3, Moved DEF At
<1>6. InRole(task[w])' /\ Undisturbed(task[w])' /\ EditsWhatItRead(task[w])'
  BY <1>4, <1>5 DEF InRole, Undisturbed, EditsWhatItRead, Sweeps
<1>7. \A x : ~Ends(w, x)
  BY <1>1 DEF Ends, At
<1>8. Leaves(w)
  <2> SUFFICES ASSUME NEW x \in Schedule, Running(x)', ~Ends(w, x)' PROVE Running(x)
    BY <1>1, <1>7 DEF Leaves
  <2>1. CASE x # s
    BY <1>2, <2>1 DEF Running
  <2>2. CASE x = s
    <3>1. t.cmd # "start"
      BY <1>4, <1>5, <2>2 DEF Ends
    <3> QED BY <2>2, <3>1, ArchiveRunsNothing
  <2> QED BY <2>1, <2>2
<1>9. OneRequest => OnlyCompletedArchived'
  <2> SUFFICES ASSUME Serial PROVE sched'[s].archived => sched'[s].status = "completed"
    BY <1>2 DEF Inv, Serial, OnlyCompletedArchived
  <2>1. IF t.cmd = "start" THEN ~t.srow.archived /\ ~sched[s].archived
        ELSE t.srow.status = "completed" /\ sched[s].status = "completed"
    BY <1>1 DEF Serial, EditsWhatItRead
  <2>2. CASE t.cmd = "start"
    <3>1. ~row.archived
      BY <2>1, <2>2 DEF Updated
    <3> QED BY <1>2, <3>1
  <2>3. CASE t.cmd # "start"
    <3>1. row.status = "completed"
      BY <2>1, <2>3 DEF Updated
    <3> QED BY <1>2, <3>1
  <2> QED BY <2>2, <2>3
<1> QED BY <1>5, <1>6, <1>8, <1>9, InvKept

LEMMA SettleKeeps ==
  ASSUME TypeOK, LockDiscipline, Inv, NEW w \in Worker, Settle(w)
  PROVE  Inv'
<1> DEFINE t == task[w]
           s == t.schedule
<1>1. t.pc = "settle" /\ s \in Schedule /\ UNCHANGED <<tournament, up>>
  BY DEF TypeOK, Settle, At, Handler, WellFormed, WithSchedule
<1>2. sched'[s] = t.srow /\ \A x \in Schedule \ {s} : sched'[x] = sched[x]
  BY <1>1 DEF Settle, TypeOK
<1>3. Running(s)
  BY <1>1 DEF LockDiscipline, HolderWalksOn, WalksOn, At
<1>4. OneRequest => OnlyCompletedArchived'
  <2> SUFFICES ASSUME Serial PROVE ~sched'[s].archived
    BY <1>2 DEF Inv, Serial, OnlyCompletedArchived
  <2> QED BY <1>1, <1>2 DEF Serial, EditsWhatItRead
<1>5. Become(w, Resumed(t))
  BY DEF Settle
<1> QED BY <1>1, <1>2, <1>3, <1>4, <1>5, ResumedKept DEF At

\* A recalculation leaves the archive flag of its schedule alone.
LEMMA VerdictSparesArchive ==
  ASSUME TypeOK, NEW s \in Schedule, NEW n
  PROVE  Verdict(s, n).srow.archived = sched[s].archived
<1>1. sched[s] \in ScheduleRow
  BY DEF TypeOK
<1>2. Finished(sched[s]).archived = sched[s].archived
  BY <1>1 DEF Finished, ScheduleRow
<1>3. \A m, why : WaitingAt(sched[s], m, why).archived = sched[s].archived
  BY <1>1 DEF WaitingAt, ScheduleRow
<1> QED BY <1>2, <1>3 DEF Verdict

LEMMA RecalculateKeeps ==
  ASSUME TypeOK, LockDiscipline, Inv, NEW w \in Worker, Recalculate(w)
  PROVE  Inv'
<1> DEFINE t == task[w]
           s == t.schedule
           closed == [srow |-> Stopped(sched[s], "TOURNAMENT_CLOSED"), on |-> {}, off |-> OffCurrent(s)]
           holding(v) == [t EXCEPT !.pc = "settle", !.srow = v.srow, !.on = v.on, !.off = v.off]
<1>1. t \in Task /\ t.pc = "recalculate" /\ s \in Schedule /\ UNCHANGED <<tournament, sched, up>>
  BY DEF TypeOK, Recalculate, At, Handler, WellFormed, WithSchedule
<1>2. OneRequest => OnlyCompletedArchived'
  BY <1>1 DEF Inv, Serial, OnlyCompletedArchived
<1>3. CASE ~Running(s)
  <2>1. Become(w, Resumed(t))
    BY <1>3 DEF Recalculate
  <2> QED BY <1>1, <1>2, <1>3, <2>1, ResumedKept DEF Running
<1>4. ASSUME Running(s), NEW v, Become(w, holding(v)), v.srow.archived = sched[s].archived,
             tournament = "closed" => v.srow.status # "running"
      PROVE  Inv'
  <2> DEFINE e == holding(v)
  <2>1. /\ e.pc = "settle" /\ e.schedule = s /\ e.srow = v.srow
        /\ e.cmd = t.cmd /\ e.then = t.then /\ e.sweep = t.sweep
    <3> HIDE DEF t
    <3> QED BY <1>1 DEF Task
  <2>2. Become(w, e)
    BY <1>4
  <2> HIDE DEF e
  <2>3. task'[w] = e /\ Moves(w)
    BY <1>1, <2>1, <2>2, Moved DEF At
  <2>4. Sweeps(e) => t.cmd = "boot" /\ Sweeps(t)
    BY <1>1, <2>1 DEF Inv, Roles, InRole, Sweeps
  <2>5. InRole(task[w])'
    BY <2>1, <2>3, <2>4 DEF InRole
  <2>6. Leaves(w)
    <3> SUFFICES ASSUME tournament = "closed", NEW x \in Schedule, Ends(w, x) PROVE Ends(w, x)'
      BY <1>1 DEF Leaves, Running
    <3>1. x = s \/ (Sweeps(t) /\ x \in t.sweep)
      BY <1>1 DEF Ends, At
    <3>2. CASE x = s
      BY <1>4, <2>1, <2>3, <3>2 DEF Ends, At
    <3>3. CASE Sweeps(t) /\ x \in t.sweep
      <4>1. Sweeps(e)
        BY <1>1, <2>1, <3>3 DEF Sweeps
      <4> QED BY <2>1, <2>3, <3>3, <4>1 DEF Ends, Sweeps
    <3> QED BY <3>1, <3>2, <3>3
  <2>7. Undisturbed(task[w])'
    BY <2>1, <2>3, <2>4 DEF Undisturbed, Sweeps
  <2>8. OneRequest => EditsWhatItRead(task[w])'
    <3> SUFFICES ASSUME OnlyCompletedArchived PROVE EditsWhatItRead(task[w])'
      BY DEF Inv, Serial
    <3>1. ~sched[s].archived
      BY <1>1, <1>4 DEF OnlyCompletedArchived, Running
    <3> QED BY <1>4, <2>1, <2>3, <3>1 DEF EditsWhatItRead
  <2> QED BY <1>2, <2>3, <2>5, <2>6, <2>7, <2>8, InvKept
<1>5. CASE Running(s) /\ tournament = "closed"
  <2>1. sched[s] \in ScheduleRow
    BY <1>1 DEF TypeOK
  <2>2. closed.srow.status = "inactive" /\ closed.srow.archived = sched[s].archived
    BY <2>1 DEF Stopped, ScheduleRow
  <2>3. Become(w, holding(closed))
    BY <1>5 DEF Recalculate
  <2> HIDE DEF closed, holding
  <2> QED BY <1>4, <1>5, <2>2, <2>3
<1>6. CASE Running(s) /\ tournament # "closed"
  <2>1. PICK n : Become(w, holding(Verdict(s, n)))
    BY <1>6 DEF Recalculate
  <2> HIDE DEF holding
  <2> QED BY <1>1, <1>4, <1>6, <2>1, VerdictSparesArchive
<1> QED BY <1>3, <1>5, <1>6

-----------------------------------------------------------------------------
(***************************************************************************)
(* The invariant is kept.                                                  *)
(***************************************************************************)

LEMMA ReopenTournamentKept ==
  ASSUME Inv, NEW r \in Request, ReopenTournament(r)
  PROVE  Inv'
<1>1. UNCHANGED <<sched, task, up>> /\ tournament' = "open"
  BY DEF ReopenTournament
<1>2. Shifts' /\ Roles'
  BY <1>1 DEF Inv, Shifts, Roles, InRole, Sweeps, At
<1>3. Ended'
  BY <1>1 DEF Ended
<1>4. Serial => Serial'
  BY <1>1 DEF Serial, Undisturbed, EditsWhatItRead, OnlyCompletedArchived, Sweeps, RunningSchedules, Running
<1> QED BY <1>2, <1>3, <1>4 DEF Inv, OneSchedule, OneRequest

\* The bootstrap lists what runs before anything else does.
LEMMA RestartKeeps ==
  ASSUME TypeOK, Inv, Restart
  PROVE  Inv'
<1> DEFINE e == [Idle EXCEPT !.pc = "sweep", !.cmd = "boot", !.sweep = RunningSchedules]
<1>1. Become(Boot, e) /\ ~up /\ UNCHANGED <<tournament, sched, up>> /\ Boot \in Worker
  BY DEF Restart, Worker
<1>2. e.pc = "sweep" /\ e.cmd = "boot" /\ e.sweep = RunningSchedules
  BY DEF Idle
<1> HIDE DEF e
<1>3. task'[Boot] = e /\ \A w \in Worker \ {Boot} : task'[w] = task[w]
  BY <1>1 DEF Become, TypeOK
<1>4. Shifts'
  BY <1>1, <1>3, NamesAssumption DEF Inv, Shifts, At, Worker
<1>5. Roles'
  <2> SUFFICES ASSUME NEW w \in Worker PROVE InRole(task[w])'
    BY DEF Roles
  <2>1. CASE w = Boot
    BY <1>2, <1>3, <2>1 DEF InRole
  <2>2. CASE w # Boot
    BY <1>3, <2>2 DEF Inv, Roles, InRole, Sweeps
  <2> QED BY <2>1, <2>2
<1>6. Ended'
  BY <1>1, <1>2, <1>3 DEF Ended, Ends, Sweeps, RunningSchedules, Running
<1>7. Serial => Serial'
  <2> SUFFICES ASSUME Serial, NEW w \in Worker
               PROVE  Undisturbed(task[w])' /\ EditsWhatItRead(task[w])' /\ OnlyCompletedArchived'
    BY DEF Serial, Worker
  <2>1. OnlyCompletedArchived'
    BY <1>1 DEF Serial, OnlyCompletedArchived
  <2>2. CASE w = Boot
    BY <1>2, <1>3, <2>1, <2>2 DEF Undisturbed, EditsWhatItRead
  <2>3. CASE w # Boot
    BY <1>1, <1>3, <2>1, <2>3 DEF Serial, Undisturbed, EditsWhatItRead, Sweeps, RunningSchedules, Running
  <2> QED BY <2>2, <2>3
<1> QED BY <1>4, <1>5, <1>6, <1>7 DEF Inv, OneSchedule, OneRequest

\* Who comes back finds nothing begun.
LEMMA AllIdle ==
  ASSUME \A w \in Worker : task[w] = Idle
  PROVE  /\ \A w \in Worker : At(w, "idle") /\ InRole(task[w]) /\ Undisturbed(task[w]) /\ EditsWhatItRead(task[w])
         /\ Shifts /\ Roles
<1>1. Idle.pc = "idle" /\ Idle.then = "idle"
  BY DEF Idle
<1> QED BY <1>1 DEF At, InRole, Undisturbed, EditsWhatItRead, Sweeps, Shifts, Roles, Worker

LEMMA CrashKeeps ==
  ASSUME Inv, Crash
  PROVE  Inv'
<1>1. (\A w \in Worker : task[w] = Idle)' /\ ~up' /\ UNCHANGED sched
  BY DEF Crash
<1>2. Idle.pc = "idle" /\ Idle.then = "idle"
  BY DEF Idle
<1>3. /\ (\A w \in Worker : At(w, "idle") /\ Undisturbed(task[w]) /\ EditsWhatItRead(task[w]))'
      /\ Shifts' /\ Roles'
  BY <1>1, <1>2 DEF At, InRole, Undisturbed, EditsWhatItRead, Sweeps, Shifts, Roles, Worker
<1>4. Ended'
  BY <1>1, <1>3 DEF Ended, BootOwesAll, Worker
<1>5. Serial => Serial'
  BY <1>1, <1>3 DEF Serial, OnlyCompletedArchived
<1> QED BY <1>3, <1>4, <1>5 DEF Inv, OneSchedule, OneRequest

LEMMA InitHolds == Init => Inv
<1> SUFFICES ASSUME Init PROVE Inv
  OBVIOUS
<1>1. \A w \in Worker : task[w] = Idle
  BY DEF Init
<1>2. OnlyCompletedArchived
  BY DEF Init, NewSchedule, OnlyCompletedArchived
<1>3. Ended
  BY DEF Init, Ended
<1> QED BY <1>1, <1>2, <1>3, AllIdle DEF Inv, Serial

LEMMA NextKeeps ==
  ASSUME TypeOK, LockDiscipline, Inv, [Next]_vars
  PROVE  Inv'
<1>1. ASSUME NEW r \in Request, Begin(r) PROVE Inv'
  BY <1>1, BeginCommandKept, BeginStartKept, BeginArchiveKept, BeginStopKept, CloseKept,
     ReopenTournamentKept
     DEF Begin
<1>2. ASSUME NEW w \in Worker, Proceed(w) PROVE Inv'
  <2>1. MatchStep(w) /\ ~At(w, "takeBack") => Inv'
    BY MatchStepsKept
  <2>2. ASSUME MatchStep(w), At(w, "takeBack") PROVE TakeBack(w)
    BY <2>2 DEF MatchStep, At, GuardSchedule, Load, ManualActivation, ApplyRule, SaveTarget,
                Reverted, Save, Saved
  <2> QED BY <1>2, <2>1, <2>2, TakeBackKept, SettleKeeps, DiffScheduleKeeps, StopTournamentKept,
             SweepKept
             DEF Proceed, MatchStep
<1>3. ASSUME NEW w \in Worker, WithLock(w) PROVE Inv'
  BY <1>3, RecalculateKeeps, StopKeeps, InterruptCompletedKeeps, UpdateScheduleKeeps DEF WithLock
<1>4. CASE UNCHANGED vars
  <2>1. UNCHANGED <<tournament, sched, task, up>>
    BY <1>4 DEF vars
  <2> QED BY <2>1 DEF Inv, Shifts, Roles, InRole, Ended, BootOwesAll, Ends, Serial, Undisturbed,
             EditsWhatItRead, OnlyCompletedArchived, Sweeps, RunningSchedules, Running, At,
             OneSchedule, OneRequest
<1> QED BY <1>1, <1>2, <1>3, <1>4, RestartKeeps, CrashKeeps DEF Next

LEMMA Invariant == Spec => []Inv
BY InitHolds, NextKeeps, TypeCorrect, LockHolds, PTL DEF Spec

(***************************************************************************)
(* A closed tournament runs nothing once the close is answered, whatever   *)
(* starts, stops, scores and crashes it raced: for one schedule, or for    *)
(* requests that come one after another (tournament.commands.ts, close).   *)
(* With two schedules a stop by hand makes the loop of a close throw at    *)
(* the first, and the second runs on.                                      *)
(***************************************************************************)
THEOREM CloseStopsAll == OneSchedule \/ OneRequest => (Spec => []ClosedRunsNothing)
<1> SUFFICES ASSUME OneSchedule \/ OneRequest PROVE Spec => []ClosedRunsNothing
  OBVIOUS
<1>1. Inv => ClosedRunsNothing
  <2> SUFFICES ASSUME Inv, Quiet, tournament = "closed", NEW s \in RunningSchedules PROVE FALSE
    BY DEF ClosedRunsNothing
  <2>1. PICK w \in Worker : Ends(w, s)
    BY DEF Inv, Ended, BootOwesAll, Quiet
  <2>2. task[w].pc = "idle"
    BY DEF Quiet, At
  <2> QED BY <2>1, <2>2 DEF Inv, Roles, InRole, Ends, At
<1> QED BY <1>1, Invariant, PTL

(***************************************************************************)
(* With requests that come one after another, a schedule in the archive    *)
(* has completed (schedule.aggregate.ts, archive), also after a crash      *)
(* between the edit and its save.                                          *)
(***************************************************************************)
THEOREM ArchiveHoldsCompleted == OneRequest => (Spec => []OnlyCompletedArchived)
<1> SUFFICES ASSUME OneRequest PROVE Spec => []OnlyCompletedArchived
  OBVIOUS
<1>1. Inv => OnlyCompletedArchived
  BY DEF Inv, Serial
<1> QED BY <1>1, Invariant, PTL

-----------------------------------------------------------------------------
(***************************************************************************)
(* What a handler that is alone remembers.                                 *)
(***************************************************************************)

\* A match of a running schedule that its walk has come to, or may have.
Reached(m) ==
  \E s \in Schedule : /\ m \in MatchesOf(s) /\ Running(s)
                      /\ sched[s].current = None \/ Pos(s, m) <= Pos(s, sched[s].current)

\* Two rows of a match that differ at most in its cabinet and its result, and
\* two that a walk cannot tell apart but by the cabinet.
SameGame(row, now) == row.state = now.state /\ row.players = now.players /\ row.rounds = now.rounds

AlikeToWalk(row, now) ==
  /\ Completed(row) = Completed(now) /\ Passed(row) = Passed(now)
  /\ row.players = now.players /\ row.rounds = now.rounds

\* What an edit that is about to be saved may do to the row as it stands.
EditOf(t, now) ==
  /\ t.row.active => now.active
  /\ t.cmd \notin {"addEntrant", "replaceEntrants"} => t.row.players \subseteq now.players
  /\ ~t.moved => /\ AlikeToWalk(t.row, now)
                 /\ t.row.active = now.active \/ Completed(now) \/ ~Reached(t.match)

Writes(t) == [srow |-> t.srow, on |-> t.on, off |-> t.off]

\* What a recalculation holds is the verdict on the rows as they stand, or the stop.
IsVerdict(t, s) == \E n \in 1..Len(Entries[s]) + 1 : WalkStopsAt(s, n) /\ Writes(t) = Verdict(s, n)
IsStop(t, s)    == t.srow.status = "inactive" /\ t.on = {} /\ t.off = OffCurrent(s)

\* What a handler that is alone remembers is still what Postgres holds.
FreshMatch(t, now) ==
  /\ t.pc = "load" /\ t.cmd = "reopen" => ~Reached(t.match)
  /\ t.pc = "reverting" \/ t.then = "reverting" =>
       t.cmd \in ResultCommand /\ Completed(t.row) /\ SameGame(t.row, now)
  /\ t.pc = "save" => IF t.cmd \in ManualCommand
                      THEN RunningSchedules = {} /\ (t.row.active => "activate" \in Commands)
                      ELSE EditOf(t, now)

FreshTarget(t) ==
  t.pc = "target" => /\ t.then \in {"reverting", "advancing"} /\ t.target # t.match
                     /\ t.draft.active = match[t.target].active
                     /\ \E rule \in Rules : t.target = rule.target

FreshSchedule(t, s) ==
  /\ t.pc = "settle" => IsVerdict(t, s) \/ IsStop(t, s)
  /\ t.pc \in {"diff", "update"} => ~Running(s)

\* Where it came from, and where it goes on.
Routed(t) ==
  /\ t.match # None => t.cmd \in Commands
  /\ t.rules \subseteq RulesFrom(t.match)
  /\ t.then = "load" => t.pc \in {"stop", "interrupt"} /\ t.match \in MatchesOf(t.schedule)
  /\ t.then = "reverting" => t.pc \in {"target", "recalculate", "settle"}

Fresh(t) == FreshMatch(t, match[t.match]) /\ FreshTarget(t) /\ FreshSchedule(t, t.schedule)

Remembers == \A w \in Worker : Routed(task[w]) /\ Fresh(task[w])

-----------------------------------------------------------------------------
(***************************************************************************)
(* What a command does to a row.                                           *)
(***************************************************************************)

LEMMA RejudgedEdits ==
  ASSUME NEW row \in Row, NEW edited \in Rejudged(row)
  PROVE  edited.active = row.active /\ edited.players = row.players /\ edited.rounds = row.rounds
BY DEF Rejudged, Row

LEMMA PlacedEdits ==
  ASSUME NEW row \in Row, NEW p \in Player, NEW edited \in Placed(row, p) \cup Released(row, p)
  PROVE  edited.active = row.active
<1>1. [row EXCEPT !.players = @ \cup {p}] \in Row /\ [row EXCEPT !.players = @ \ {p}] \in Row
  BY DEF Row
<1>2. /\ [row EXCEPT !.players = @ \cup {p}].active = row.active
      /\ [row EXCEPT !.players = @ \ {p}].active = row.active
  BY DEF Row
<1> QED BY <1>1, <1>2, RejudgedEdits DEF Placed, Released

LEMMA ReleasedEdits ==
  ASSUME NEW row \in Row, NEW p \in Player, NEW edited \in Released(row, p)
  PROVE  edited.active = row.active /\ edited.players \subseteq row.players
<1>1. [row EXCEPT !.players = @ \ {p}] \in Row
  BY DEF Row
<1>2. /\ [row EXCEPT !.players = @ \ {p}].active = row.active
      /\ [row EXCEPT !.players = @ \ {p}].players \subseteq row.players
  BY DEF Row
<1> QED BY <1>1, <1>2, RejudgedEdits DEF Released

\* A score changes the lifecycle alone.
LEMMA ScoreEdits ==
  ASSUME NEW row \in Row, NEW cmd \in ScoreCommand, NEW edited \in Effect(cmd, row)
  PROVE  edited.active = row.active /\ edited.players = row.players /\ edited.rounds = row.rounds
<1>1. \A st : /\ [row EXCEPT !.state = st].active = row.active
              /\ [row EXCEPT !.state = st].players = row.players
              /\ [row EXCEPT !.state = st].rounds = row.rounds
  BY DEF Row
<1>2. CASE cmd \in {"score", "applyCompletedSong"}
  <2>1. edited \in Scored(row)
    BY <1>2 DEF Effect
  <2> QED BY <1>1, <2>1 DEF Scored
<1>3. CASE cmd = "removeStanding"
  <2>1. edited \in {[row EXCEPT !.state = st] : st \in UncommittedStates(row)}
    BY <1>3 DEF Effect
  <2> QED BY <1>1, <2>1
<1> QED BY <1>2, <1>3 DEF ScoreCommand

\* A command that edits fields or rounds, and keeps the entrants but for those
\* two that bring some in.
LEMMA FieldEdits ==
  ASSUME NEW row \in Row, NEW cmd \in FieldCommand \cup RoundCommand, NEW edited \in Effect(cmd, row)
  PROVE  /\ edited.active = row.active
         /\ cmd \notin {"addEntrant", "replaceEntrants"} => edited.players \subseteq row.players
<1>1. CASE cmd = "addEntrant"
  <2>1. PICK p \in Player : edited \in Placed(row, p)
    BY <1>1 DEF Effect
  <2> QED BY <1>1, <2>1, PlacedEdits
<1>2. CASE cmd = "removeEntrant"
  <2>1. PICK p \in row.players : edited \in Released(row, p)
    BY <1>2 DEF Effect
  <2>2. p \in Player
    BY DEF Row
  <2> QED BY <2>1, <2>2, ReleasedEdits
<1>3. CASE cmd = "replaceEntrants"
  <2>1. PICK ps \in SUBSET Player : edited \in Rejudged([row EXCEPT !.players = ps])
    BY <1>3 DEF Effect
  <2>2. [row EXCEPT !.players = ps] \in Row /\ [row EXCEPT !.players = ps].active = row.active
    BY DEF Row
  <2> QED BY <1>3, <2>1, <2>2, RejudgedEdits
<1>4. CASE cmd = "changeScoringSystem"
  <2>1. edited \in Rejudged(row)
    BY <1>4 DEF Effect
  <2> QED BY <2>1, RejudgedEdits
<1>5. CASE cmd = "addRound"
  <2>1. edited = [row EXCEPT !.rounds = TRUE, !.state = IF @ = "open" THEN "open" ELSE "partial"]
    BY <1>5 DEF Effect
  <2> QED BY <2>1 DEF Row
<1>6. CASE cmd = "removeRound"
  <2>1. edited \in Rejudged(row) \cup {[row EXCEPT !.rounds = FALSE, !.state = "open"]}
    BY <1>6 DEF Effect
  <2>2. /\ [row EXCEPT !.rounds = FALSE, !.state = "open"].active = row.active
        /\ [row EXCEPT !.rounds = FALSE, !.state = "open"].players = row.players
    BY DEF Row
  <2> QED BY <2>1, <2>2, RejudgedEdits
<1> QED BY <1>1, <1>2, <1>3, <1>4, <1>5, <1>6 DEF FieldCommand, RoundCommand

\* Writing a result, and taking it back, leave the match off its cabinet.
LEMMA ResultEdits ==
  ASSUME NEW row \in Row, NEW cmd \in ResultCommand, NEW edited \in Effect(cmd, row)
  PROVE  /\ ~edited.active /\ edited.players = row.players /\ edited.rounds = row.rounds
         /\ cmd = "commit" => Completed(edited) /\ Passed(row)
         /\ cmd = "reopen" => IF Completed(row) THEN ~Completed(edited) ELSE edited.state = row.state
<1>1. CASE cmd = "commit"
  <2>1. PICK places \in Placings(row.players) :
          edited = [row EXCEPT !.state = "completed", !.active = FALSE, !.result = places]
    BY <1>1 DEF Effect
  <2>2. Passed(row)
    BY <1>1 DEF Effect
  <2> QED BY <1>1, <2>1, <2>2 DEF Row, Completed
<1>2. CASE cmd = "reopen"
  <2>1. PICK st \in IF Completed(row) THEN UncommittedStates(row) ELSE {row.state} :
          edited = [row EXCEPT !.active = FALSE, !.result = NoResult, !.state = st]
    BY <1>2 DEF Effect
  <2>2. edited.state = st /\ ~edited.active /\ edited.players = row.players /\ edited.rounds = row.rounds
    <3> HIDE DEF NoResult
    <3> QED BY <2>1 DEF Row
  <2>3. Completed(row) => st # "completed"
    BY <2>1, UncommittedStatesType
  <2>4. ~Completed(row) => st = row.state
    BY <2>1
  <2> QED BY <1>2, <2>2, <2>3, <2>4 DEF Completed
<1> QED BY <1>1, <1>2 DEF ResultCommand

\* A lifecycle that did not move is one a walk cannot tell from what it was.
LEMMA NotMoved ==
  ASSUME NEW row \in Row, NEW edited \in Row, NEW cmd \in ScoreCommand \cup ResultCommand,
         ~OwesRecalculation(cmd, row, edited)
  PROVE  Completed(edited) = Completed(row) /\ Passed(edited) = Passed(row)
BY DEF OwesRecalculation, Passed, Completed, AwaitingCommit, Row

\* A command on an open result edits what it loaded.
LEMMA LoadedEdit ==
  ASSUME NEW row \in Row, NEW t, t.cmd \in MatchCommand \ ManualCommand, t.row \in Effect(t.cmd, row),
         t.moved = OwesRecalculation(t.cmd, row, t.row),
         t.cmd \in ResultCommand => ~Completed(row), t.cmd = "reopen" => ~Reached(t.match)
  PROVE  EditOf(t, row)
<1>1. t.row \in Row
  BY EffectType
<1>2. CASE t.cmd \in ScoreCommand
  <2>1. t.row.active = row.active /\ t.row.players = row.players /\ t.row.rounds = row.rounds
    BY <1>2, ScoreEdits
  <2> QED BY <1>1, <1>2, <2>1, NotMoved DEF EditOf, AlikeToWalk
<1>3. CASE t.cmd \in FieldCommand \cup RoundCommand
  <2>1. t.moved
    BY <1>3 DEF OwesRecalculation
  <2> QED BY <1>3, <2>1, FieldEdits DEF EditOf
<1>4. CASE t.cmd \in ResultCommand
  <2>1. ~t.row.active /\ t.row.players = row.players /\ t.row.rounds = row.rounds
    BY <1>4, ResultEdits
  <2>2. t.cmd = "commit" => t.moved
    <3>1. t.cmd = "commit" => Completed(t.row) /\ ~Completed(row)
      BY <1>4, ResultEdits
    <3> QED BY <1>4, <3>1 DEF OwesRecalculation
  <2>3. ~t.moved => AlikeToWalk(t.row, row)
    BY <1>1, <1>4, <2>1, NotMoved DEF AlikeToWalk
  <2> QED BY <1>4, <2>1, <2>2, <2>3 DEF EditOf, ResultCommand
<1> QED BY <1>2, <1>3, <1>4 DEF MatchCommand

\* A command on a completed match, once its result is taken back, edits what
\* it loaded, whatever became of the cabinet since.
LEMMA RevertedEdit ==
  ASSUME NEW row \in Row, NEW now \in Row, Completed(row), SameGame(row, now),
         NEW t, t.cmd \in ResultCommand, t.row \in Effect(t.cmd, row),
         t.moved = OwesRecalculation(t.cmd, row, t.row)
  PROVE  EditOf(t, now)
<1>1. t.row \in Row
  BY EffectType DEF MatchCommand
<1>2. /\ ~t.row.active /\ t.row.players = row.players /\ t.row.rounds = row.rounds
      /\ t.cmd = "reopen" => ~Completed(t.row)
  BY ResultEdits
<1>3. t.moved \/ (Completed(now) /\ AlikeToWalk(t.row, now))
  <2>1. CASE Completed(t.row)
    BY <1>2, <2>1 DEF AlikeToWalk, SameGame, Completed, Passed
  <2>2. CASE ~Completed(t.row)
    BY <2>2 DEF OwesRecalculation
  <2> QED BY <2>1, <2>2
<1> QED BY <1>2, <1>3 DEF EditOf, SameGame

-----------------------------------------------------------------------------
(***************************************************************************)
(* What a walk sees.                                                       *)
(***************************************************************************)

\* A step that leaves the schedules alone and changes nothing in the matches
\* that a walk could tell.
WalkSeesNothing ==
  /\ UNCHANGED sched
  /\ \A m \in Match : AlikeToWalk(match'[m], match[m]) /\ match'[m].active = match[m].active

LEMMA NothingSeen ==
  ASSUME UNCHANGED <<match, sched>>
  PROVE  WalkSeesNothing
BY DEF WalkSeesNothing, AlikeToWalk

\* A walk stops where it did when no result came or went.
LEMMA SameStops ==
  ASSUME UNCHANGED sched, NEW s \in Schedule, sched[s].current \in Standing(s), NEW n \in 1..Len(Entries[s]) + 1,
         \A m \in Match : Passed(match'[m]) <=> Passed(match[m])
  PROVE  WalkStopsAt(s, n)' <=> WalkStopsAt(s, n)
<1> DEFINE W == WalkFrom(s)
<1>1. WalkFrom(s)' = W
  BY DEF WalkFrom, Pos
<1>2. \A i \in DOMAIN Entries[s] : Entries[s][i] \in Match
  BY EntryType
<1>3. \A i \in W..n - 1 : i \in DOMAIN Entries[s]
  BY WalkType
<1>4. \A i \in W..n - 1 : Passed(match'[Entries[s][i]]) <=> Passed(match[Entries[s][i]])
  BY <1>2, <1>3
<1>5. n \in DOMAIN Entries[s] => (Passed(match'[Entries[s][n]]) <=> Passed(match[Entries[s][n]]))
  BY <1>2
<1> HIDE DEF W
<1> QED BY <1>1, <1>4, <1>5 DEF WalkStopsAt, W

\* Nor does it decide otherwise, when no cabinet changed either.
LEMMA SameVerdict ==
  ASSUME WalkSeesNothing, NEW s \in Schedule, sched[s].current \in Standing(s), NEW n \in 1..Len(Entries[s]) + 1
  PROVE  (WalkStopsAt(s, n)' <=> WalkStopsAt(s, n)) /\ Verdict(s, n)' = Verdict(s, n)
<1>1. WalkFrom(s)' = WalkFrom(s) /\ sched'[s] = sched[s]
  BY DEF WalkSeesNothing, WalkFrom, Pos
<1>2. \A m \in Match : /\ Completed(match'[m]) = Completed(match[m]) /\ Passed(match'[m]) = Passed(match[m])
                       /\ match'[m].players = match[m].players /\ match'[m].rounds = match[m].rounds
                       /\ match'[m].active = match[m].active
  BY DEF WalkSeesNothing, AlikeToWalk
<1>3. \A i \in DOMAIN Entries[s] : Entries[s][i] \in Match
  BY EntryType
<1>4. \A i \in WalkFrom(s)..n - 1 : i \in DOMAIN Entries[s]
  BY WalkType
<1>5. WalkStopsAt(s, n)' <=> WalkStopsAt(s, n)
  BY <1>2, SameStops DEF WalkSeesNothing
<1>6. \A ms \in SUBSET Match : Active(ms)' = Active(ms)
  BY <1>2 DEF Active
<1>7. WalkedPast(s, n)' = WalkedPast(s, n) /\ WalkedPast(s, n) \in SUBSET Match
  BY <1>1, <1>3, <1>4 DEF WalkedPast
<1>8. Active(WalkedPast(s, n))' = Active(WalkedPast(s, n))
  BY <1>2, <1>7 DEF Active
<1>9. Active(Match)' = Active(Match)
  BY <1>6
<1>10. ASSUME NEW m \in Match, NEW off PROVE ReasonToWait(s, m, off)' = ReasonToWait(s, m, off)
  <2>1. Blockers(m, off)' = Blockers(m, off)
    BY <1>2, <1>9 DEF Blockers, Active
  <2>2. {rule \in RulesInto(m) : ~Completed(match[rule.source])}'
          = {rule \in RulesInto(m) : ~Completed(match[rule.source])}
    BY <1>2, RulesAssumption DEF RulesInto
  <2> QED BY <1>1, <1>2, <1>9, <2>1, <2>2 DEF ReasonToWait
<1>11. CASE n > Len(Entries[s])
  BY <1>1, <1>5, <1>8, <1>11 DEF Verdict, Finished
<1>12. CASE ~(n > Len(Entries[s]))
  <2>1. Entries[s][n] \in Match
    BY <1>3, <1>12, EntryType
  <2> DEFINE off == Active(WalkedPast(s, n))
             why == ReasonToWait(s, Entries[s][n], off)
  <2>2. ReasonToWait(s, Entries[s][n], off)' = why
    BY <1>8, <1>10, <2>1
  <2> QED BY <1>1, <1>5, <1>8, <1>9, <1>12, <2>2 DEF Verdict, WaitingAt
<1> QED BY <1>11, <1>12

\* One handler is at work, and nobody else.
Works(w) == ~At(w, "idle") \/ (w \in Request /\ up)

LEMMA NobodyElse ==
  ASSUME OneRequest, Shifts, NEW w \in Worker, Works(w), NEW v \in Worker, v # w
  PROVE  task[v].pc = "idle"
<1>1. CASE w = Boot
  <2>1. ~up /\ v \in Request
    BY <1>1, NamesAssumption DEF Works, Worker, Shifts
  <2> QED BY <2>1 DEF Shifts, At
<1>2. CASE w \in Request
  <2>1. up /\ v \notin Request
    BY <1>2 DEF Works, Shifts, OneRequest
  <2> QED BY <2>1 DEF Shifts, At, Worker
<1> QED BY <1>1, <1>2 DEF Worker

\* A handler with nothing to do has nothing to remember.
LEMMA IdleRemembers ==
  ASSUME NEW t, t.pc = "idle", Routed(t)
  PROVE  Fresh(t)
BY DEF Fresh, FreshMatch, FreshTarget, FreshSchedule, Routed

LEMMA IdleIsRouted == Routed(Idle) /\ Fresh(Idle) /\ Idle.pc = "idle" /\ Idle.then = "idle"
<1>1. Idle.pc = "idle" /\ Idle.then = "idle" /\ Idle.match = None /\ Idle.rules = {}
  BY DEF Idle
<1> QED BY <1>1, IdleRemembers DEF Routed

LEMMA WriterRemembers ==
  ASSUME OneRequest, Inv, TypeOK, Remembers, NEW w \in Worker, Works(w), NEW e, Become(w, e),
         Routed(task[w])', Fresh(task[w])'
  PROVE  Remembers'
<1> SUFFICES ASSUME NEW v \in Worker, v # w PROVE Routed(task[v])' /\ Fresh(task[v])'
  BY DEF Remembers
<1>1. task'[v] = task[v]
  BY DEF Become, TypeOK
<1>2. task[v].pc = "idle"
  BY NobodyElse DEF Inv
<1>3. Routed(task[v])
  BY DEF Remembers
<1> QED BY <1>1, <1>2, <1>3 DEF Routed, Fresh, FreshMatch, FreshTarget, FreshSchedule

\* A step that writes nothing.
LEMMA FreshStays ==
  ASSUME TypeOK, UNCHANGED <<match, sched>>, NEW w \in Worker, NEW e, task'[w] = e,
         e.pc = "settle" => e.schedule \in Schedule, Fresh(e)
  PROVE  Fresh(task[w])'
<1>1. FreshMatch(task[w], match[task[w].match])'
  BY DEF Fresh, FreshMatch, Reached, EditOf, RunningSchedules, Running
<1>2. FreshTarget(task[w])'
  BY DEF Fresh, FreshTarget
<1>3. ASSUME e.pc = "settle", IsVerdict(e, e.schedule)
      PROVE  IsVerdict(task[w], task[w].schedule)'
  <2> DEFINE s == e.schedule
  <2>1. s \in Schedule /\ sched[s].current \in Standing(s) /\ WalkSeesNothing
    BY <1>3, NothingSeen DEF TypeOK
  <2>2. PICK n \in 1..Len(Entries[s]) + 1 : WalkStopsAt(s, n) /\ Writes(e) = Verdict(s, n)
    BY <1>3 DEF IsVerdict
  <2>3. WalkStopsAt(s, n)' /\ Verdict(s, n)' = Writes(e)
    <3> HIDE DEF s
    <3> QED BY <2>1, <2>2, SameVerdict
  <2>4. Writes(task[w])' = Writes(e) /\ task'[w].schedule = s
    BY DEF Writes
  <2> HIDE DEF s
  <2> QED BY <2>3, <2>4 DEF IsVerdict
<1>4. IsStop(e, e.schedule) => IsStop(task[w], task[w].schedule)'
  BY DEF IsStop, OffCurrent, Active
<1>5. FreshSchedule(task[w], task[w].schedule)'
  BY <1>3, <1>4 DEF Fresh, FreshSchedule, Running
<1> QED BY <1>1, <1>2, <1>5 DEF Fresh

LEMMA StepRemembers ==
  ASSUME OneRequest, Inv, TypeOK, Remembers, NEW w \in Worker, Works(w), UNCHANGED <<match, sched>>,
         NEW e, Become(w, e), Routed(e), Fresh(e), e.pc = "settle" => e.schedule \in Schedule
  PROVE  Remembers'
<1>1. task'[w] = e
  BY DEF Become, TypeOK
<1>2. Fresh(task[w])'
  BY <1>1, FreshStays
<1>3. Routed(task[w])'
  BY <1>1 DEF Routed
<1> QED BY <1>2, <1>3, WriterRemembers

LEMMA AnswerRemembers ==
  ASSUME OneRequest, Inv, TypeOK, Remembers, NEW w \in Worker, Works(w), UNCHANGED <<match, sched>>, Answer(w)
  PROVE  Remembers'
BY IdleIsRouted, StepRemembers DEF Answer

-----------------------------------------------------------------------------
(***************************************************************************)
(* What a handler takes along.                                             *)
(***************************************************************************)

\* The handler is still about the same command on the same match.
SameWork(e, t) ==
  /\ e.cmd = t.cmd /\ e.match = t.match /\ e.row = t.row
  /\ e.moved = t.moved /\ e.rules = t.rules /\ e.sweep = t.sweep

LEMMA ResumedTask ==
  ASSUME NEW t \in Task, NEW e, e = Resumed(t)
  PROVE  IF t.then = "idle" THEN e = Idle ELSE e.pc = t.then /\ e.then = "idle" /\ SameWork(e, t)
BY DEF Resumed, Task, SameWork

LEMMA ForScheduleTask ==
  ASSUME NEW t \in Task, NEW m, NEW pc \in PC, NEW then \in Return, NEW e, e = ForSchedule(t, m, pc, then)
  PROVE  IF \E s \in Schedule : m \in MatchesOf(s)
         THEN /\ e.pc = pc /\ e.then = then /\ SameWork(e, t)
              /\ e.schedule \in Schedule /\ m \in MatchesOf(e.schedule)
         ELSE IF then = "idle" THEN e = Idle
         ELSE e.pc = then /\ e.then = "idle" /\ SameWork(e, t)
<1>1. CASE \E s \in Schedule : m \in MatchesOf(s)
  <2> DEFINE s == CHOOSE s \in Schedule : m \in MatchesOf(s)
  <2>1. s \in Schedule /\ m \in MatchesOf(s)
    BY <1>1
  <2>2. e = [t EXCEPT !.pc = pc, !.then = then, !.schedule = s]
    BY <1>1 DEF ForSchedule
  <2> HIDE DEF s
  <2> QED BY <1>1, <2>1, <2>2 DEF Task, SameWork
<1>2. CASE ~\E s \in Schedule : m \in MatchesOf(s)
  <2> DEFINE u == [t EXCEPT !.then = then]
  <2>1. u \in Task /\ u.then = then /\ SameWork(u, t)
    BY DEF Task, SameWork
  <2>2. e = Resumed(u)
    BY <1>2 DEF ForSchedule
  <2> HIDE DEF u
  <2> QED BY <1>2, <2>1, <2>2, ResumedTask DEF SameWork
<1> QED BY <1>1, <1>2

-----------------------------------------------------------------------------
(***************************************************************************)
(* The steps that write neither a match nor a schedule.                    *)
(***************************************************************************)

LEMMA LoadRemembers ==
  ASSUME OneRequest, Inv, TypeOK, Remembers, NEW w \in Worker, Works(w), UNCHANGED <<match, sched>>,
         NEW t \in Task, t.match \in Match, t.cmd \in MatchCommand, Routed(t), LoadAndEdit(w, t),
         t.cmd = "reopen" => ~Reached(t.match)
  PROVE  Remembers'
<1> DEFINE row == match[t.match]
           loaded == [t EXCEPT !.row = row, !.schedule = None, !.then = "idle"]
<1>1. row \in Row
  BY DEF TypeOK
<1> HIDE DEF row
<1>2. \A e : e = [loaded EXCEPT !.pc = "manual"] =>
         e.pc = "manual" /\ e.then = "idle" /\ e.match = t.match /\ e.cmd = t.cmd /\ e.rules = t.rules
  BY DEF Task
<1>3. \A e : e = [loaded EXCEPT !.pc = "reverting", !.rules = RulesFrom(t.match)] =>
         /\ e.pc = "reverting" /\ e.then = "idle" /\ e.match = t.match /\ e.cmd = t.cmd
         /\ e.rules = RulesFrom(t.match) /\ e.row = row
  BY DEF Task
<1> HIDE DEF loaded
<1>4. ASSUME NEW e, e.pc = "manual", e.then = "idle", e.match = t.match, e.cmd = t.cmd, e.rules = t.rules,
             Become(w, e)
      PROVE  Remembers'
  <2>1. Routed(e) /\ Fresh(e)
    BY <1>4 DEF Routed, Fresh, FreshMatch, FreshTarget, FreshSchedule
  <2> QED BY <1>4, <2>1, StepRemembers
<1>5. ASSUME NEW e, Become(w, e), t.cmd \in ResultCommand, Completed(row),
             e.pc = "reverting", e.then = "idle", e.match = t.match, e.cmd = t.cmd,
             e.rules = RulesFrom(t.match), e.row = row
      PROVE  Remembers'
  <2>1. Routed(e)
    BY <1>5 DEF Routed
  <2>2. Fresh(e)
    BY <1>5 DEF Fresh, FreshMatch, FreshTarget, FreshSchedule, SameGame, row
  <2> QED BY <1>5, <2>1, <2>2, StepRemembers
<1>6. ASSUME NEW e, Become(w, e), t.cmd \notin ManualCommand, ~(t.cmd \in ResultCommand /\ Completed(row)),
             e.row \in Effect(t.cmd, row), e.moved = OwesRecalculation(t.cmd, row, e.row),
             e.pc = "save", e.then = "idle", e.match = t.match, e.cmd = t.cmd, e.rules = t.rules
      PROVE  Remembers'
  <2>1. EditOf(e, row)
    BY <1>1, <1>6, LoadedEdit
  <2>2. Routed(e)
    BY <1>6 DEF Routed
  <2>3. Fresh(e)
    BY <1>6, <2>1 DEF Fresh, FreshMatch, FreshTarget, FreshSchedule, row
  <2> QED BY <1>6, <2>2, <2>3, StepRemembers
<1>7. \/ Answer(w)
      \/ t.cmd \in ManualCommand /\ Become(w, [loaded EXCEPT !.pc = "manual"])
      \/ /\ t.cmd \in ResultCommand /\ Completed(row)
         /\ Become(w, [loaded EXCEPT !.pc = "reverting", !.rules = RulesFrom(t.match)])
      \/ /\ t.cmd \notin ManualCommand /\ ~(t.cmd \in ResultCommand /\ Completed(row))
         /\ \E edited \in Effect(t.cmd, row) :
              Become(w, [loaded EXCEPT !.pc = "save", !.row = edited,
                                       !.moved = OwesRecalculation(t.cmd, row, edited)])
  BY DEF LoadAndEdit, loaded, row
<1>8. CASE t.cmd \in ManualCommand /\ Become(w, [loaded EXCEPT !.pc = "manual"])
  <2> DEFINE e == [loaded EXCEPT !.pc = "manual"]
  <2>1. Become(w, e) /\ e = [loaded EXCEPT !.pc = "manual"]
    BY <1>8
  <2> HIDE DEF e
  <2> QED BY <1>2, <1>4, <2>1
<1>9. CASE /\ t.cmd \in ResultCommand /\ Completed(row)
            /\ Become(w, [loaded EXCEPT !.pc = "reverting", !.rules = RulesFrom(t.match)])
  <2> DEFINE e == [loaded EXCEPT !.pc = "reverting", !.rules = RulesFrom(t.match)]
  <2>1. Become(w, e) /\ e = [loaded EXCEPT !.pc = "reverting", !.rules = RulesFrom(t.match)]
    BY <1>9
  <2> HIDE DEF e
  <2> QED BY <1>3, <1>5, <1>9, <2>1
<1>10. ASSUME t.cmd \notin ManualCommand, ~(t.cmd \in ResultCommand /\ Completed(row)),
              NEW edited \in Effect(t.cmd, row), NEW moved, moved = OwesRecalculation(t.cmd, row, edited),
              Become(w, [loaded EXCEPT !.pc = "save", !.row = edited, !.moved = moved])
       PROVE  Remembers'
  <2> DEFINE e == [loaded EXCEPT !.pc = "save", !.row = edited, !.moved = moved]
  <2>1. Become(w, e) /\ e = [loaded EXCEPT !.pc = "save", !.row = edited, !.moved = moved]
    BY <1>10
  <2> HIDE DEF e
  <2>2. /\ e.pc = "save" /\ e.then = "idle" /\ e.match = t.match /\ e.cmd = t.cmd
        /\ e.rules = t.rules /\ e.row = edited /\ e.moved = moved
    BY <2>1 DEF loaded, Task
  <2>3. e.row \in Effect(t.cmd, row) /\ e.moved = OwesRecalculation(t.cmd, row, e.row)
    BY <1>10, <2>2
  <2> QED BY <1>6, <1>10, <2>1, <2>2, <2>3
<1> QED BY <1>7, <1>8, <1>9, <1>10, AnswerRemembers

LEMMA BeginCommandRemembers ==
  ASSUME OneRequest, Inv, TypeOK, Remembers, NEW r \in Request, NEW m \in Match, NEW cmd \in Commands,
         BeginCommand(r, m, cmd)
  PROVE  Remembers'
<1> DEFINE t == [Idle EXCEPT !.cmd = cmd, !.match = m]
<1>1. /\ t \in Task /\ t.match = m /\ t.cmd = cmd /\ t.rules = {} /\ t.then = "idle"
  <2>1. Idle \in Task /\ Idle.then = "idle" /\ Idle.rules = {}
    BY IdleType DEF Handler, Idle
  <2> QED BY <2>1, NamesAssumption DEF Task
<1>2. r \in Worker /\ Works(r) /\ UNCHANGED <<match, sched>> /\ cmd \in MatchCommand
  BY NamesAssumption DEF BeginCommand, Admitted, Works, Worker
<1>3. Routed(t)
  BY <1>1 DEF Routed
<1>4. \/ \E pc \in {"load", "guard"} : Become(r, [t EXCEPT !.pc = pc]) /\ (pc = "load" => cmd # "reopen")
      \/ LoadAndEdit(r, t) /\ cmd # "reopen"
  BY DEF BeginCommand, AsksSchedule
<1> HIDE DEF t
<1>5. ASSUME NEW pc \in {"load", "guard"}, Become(r, [t EXCEPT !.pc = pc]), pc = "load" => cmd # "reopen"
      PROVE  Remembers'
  <2> DEFINE e == [t EXCEPT !.pc = pc]
  <2>1. e.pc = pc /\ e.then = "idle" /\ e.match = m /\ e.cmd = cmd /\ e.rules = {}
    BY <1>1 DEF Task
  <2>2. Become(r, e)
    BY <1>5
  <2> HIDE DEF e
  <2>3. Routed(e) /\ Fresh(e)
    BY <1>5, <2>1 DEF Routed, Fresh, FreshMatch, FreshTarget, FreshSchedule
  <2> QED BY <1>2, <2>1, <2>2, <2>3, StepRemembers
<1> QED BY <1>1, <1>2, <1>3, <1>4, <1>5, LoadRemembers

\* What TypeOK says of a handler with a match in hand.
LEMMA InHand ==
  ASSUME TypeOK, NEW w \in Worker, task[w].pc \in WithMatch
  PROVE  task[w] \in Task /\ task[w].match \in Match /\ task[w].cmd \in MatchCommand
BY DEF TypeOK, Handler, WellFormed

LEMMA GuardRemembers ==
  ASSUME OneRequest, Inv, TypeOK, Remembers, NEW w \in Worker, GuardSchedule(w)
  PROVE  Remembers'
<1> DEFINE t == task[w]
           holds(s) == t.match \in MatchesOf(s)
           completed == {s \in Schedule : holds(s) /\ sched[s].status = "completed"}
           affected  == {s \in Schedule : /\ holds(s) /\ Running(s)
                                          /\ \/ sched[s].current = None
                                             \/ Pos(s, t.match) <= Pos(s, sched[s].current)}
<1>1. t.pc = "guard" /\ UNCHANGED <<match, sched>> /\ Works(w) /\ Routed(t)
  BY DEF GuardSchedule, At, Works, Remembers
<1>2. t \in Task /\ t.match \in Match
  BY <1>1, InHand DEF WithMatch
<1>3. \/ Answer(w)
      \/ \E pc \in {"interrupt", "stop"} : /\ \E s \in Schedule : t.match \in MatchesOf(s)
                                           /\ Become(w, ForSchedule(t, t.match, pc, "load"))
      \/ affected = {} /\ Become(w, [t EXCEPT !.pc = "load"])
  <2>1. completed # {} => \E s \in Schedule : t.match \in MatchesOf(s)
    OBVIOUS
  <2>2. affected # {} => \E s \in Schedule : t.match \in MatchesOf(s)
    OBVIOUS
  <2>3. \/ Answer(w)
        \/ completed # {} /\ Become(w, ForSchedule(t, t.match, "interrupt", "load"))
        \/ affected # {} /\ Become(w, ForSchedule(t, t.match, "stop", "load"))
        \/ affected = {} /\ Become(w, [t EXCEPT !.pc = "load"])
    BY DEF GuardSchedule
  <2> HIDE DEF completed, affected
  <2> QED BY <2>1, <2>2, <2>3
<1>4. ASSUME NEW pc \in {"interrupt", "stop"}, \E s \in Schedule : t.match \in MatchesOf(s),
             Become(w, ForSchedule(t, t.match, pc, "load"))
      PROVE  Remembers'
  <2> DEFINE e == ForSchedule(t, t.match, pc, "load")
  <2>1. /\ e.pc = pc /\ e.then = "load" /\ SameWork(e, t) /\ t.match \in MatchesOf(e.schedule)
    BY <1>2, <1>4, ForScheduleTask DEF PC, Return
  <2>2. Become(w, e)
    BY <1>4
  <2> HIDE DEF e
  <2>3. Routed(e)
    BY <1>1, <1>4, <2>1 DEF Routed, SameWork
  <2>4. Fresh(e)
    BY <1>4, <2>1 DEF Fresh, FreshMatch, FreshTarget, FreshSchedule
  <2> QED BY <1>1, <1>4, <2>1, <2>2, <2>3, <2>4, StepRemembers
<1>5. CASE affected = {} /\ Become(w, [t EXCEPT !.pc = "load"])
  <2> DEFINE e == [t EXCEPT !.pc = "load"]
  <2>1. e.pc = "load" /\ SameWork(e, t) /\ e.then = t.then
    BY <1>2 DEF Task, SameWork
  <2>2. Become(w, e)
    BY <1>5
  <2>3. ~Reached(t.match)
    BY <1>5 DEF Reached
  <2> HIDE DEF e
  <2>4. Routed(e) /\ e.then \notin {"load", "reverting"}
    BY <1>1, <2>1 DEF Routed, SameWork
  <2>5. Fresh(e)
    BY <2>1, <2>3, <2>4 DEF Fresh, FreshMatch, FreshTarget, FreshSchedule, SameWork
  <2> QED BY <1>1, <2>1, <2>2, <2>4, <2>5, StepRemembers
<1> QED BY <1>1, <1>3, <1>4, <1>5, AnswerRemembers

LEMMA LoadStepRemembers ==
  ASSUME OneRequest, Inv, TypeOK, Remembers, NEW w \in Worker, Load(w)
  PROVE  Remembers'
<1> DEFINE t == task[w]
<1>1. t.pc = "load" /\ UNCHANGED <<match, sched>> /\ Works(w) /\ Routed(t) /\ Fresh(t) /\ LoadAndEdit(w, t)
  BY DEF Load, At, Works, Remembers
<1>2. t \in Task /\ t.match \in Match /\ t.cmd \in MatchCommand
  BY <1>1, InHand DEF WithMatch
<1>3. t.cmd = "reopen" => ~Reached(t.match)
  BY <1>1 DEF Fresh, FreshMatch
<1> QED BY <1>1, <1>2, <1>3, LoadRemembers

LEMMA ManualRemembers ==
  ASSUME OneRequest, Inv, TypeOK, Remembers, NEW w \in Worker, ManualActivation(w)
  PROVE  Remembers'
<1> DEFINE t == task[w]
<1>1. t.pc = "manual" /\ UNCHANGED <<match, sched>> /\ Works(w) /\ Routed(t)
  BY DEF ManualActivation, At, Works, Remembers
<1>2. t \in Task /\ t.match \in Match /\ t.cmd \in ManualCommand
  BY <1>1, InHand DEF WithMatch, TypeOK, Handler, WellFormed
<1>3. t.cmd \in Commands /\ t.row \in Row
  BY <1>1, <1>2, NamesAssumption DEF Routed, Task
<1>4. \/ Answer(w)
      \/ /\ RunningSchedules = {}
         /\ \E edited \in Effect(t.cmd, t.row) : Become(w, [t EXCEPT !.pc = "save", !.row = edited])
  BY DEF ManualActivation, RunningSchedules
<1>5. ASSUME RunningSchedules = {}, NEW edited \in Effect(t.cmd, t.row),
             Become(w, [t EXCEPT !.pc = "save", !.row = edited])
      PROVE  Remembers'
  <2> DEFINE e == [t EXCEPT !.pc = "save", !.row = edited]
  <2>1. /\ e.pc = "save" /\ e.row = edited /\ e.then = t.then /\ e.match = t.match /\ e.cmd = t.cmd
        /\ e.rules = t.rules
    BY <1>2 DEF Task
  <2>2. Become(w, e)
    BY <1>5
  <2> HIDE DEF e
  <2>3. t.cmd = "deactivate" => ~edited.active
    BY <1>3, <1>5 DEF Effect, Row
  <2>4. edited.active => "activate" \in Commands
    BY <1>2, <1>3, <2>3 DEF ManualCommand
  <2>5. Routed(e) /\ e.then \notin {"load", "reverting"}
    BY <1>1, <2>1 DEF Routed
  <2>6. Fresh(e)
    BY <1>2, <1>5, <2>1, <2>4, <2>5 DEF Fresh, FreshMatch, FreshTarget, FreshSchedule
  <2> QED BY <1>1, <2>1, <2>2, <2>5, <2>6, StepRemembers
<1> QED BY <1>1, <1>4, <1>5, AnswerRemembers

\* A rule of the match in hand writes another match.
LEMMA ApplyRuleRemembers ==
  ASSUME OneRequest, Inv, TypeOK, Remembers, NEW w \in Worker, ApplyRule(w)
  PROVE  Remembers'
<1> DEFINE t == task[w]
           rest(rule) == [t EXCEPT !.rules = @ \ {rule}]
           wrote(rule, draft) == [rest(rule) EXCEPT !.pc = "target", !.then = t.pc,
                                                    !.target = rule.target, !.draft = draft]
<1>1. /\ t.pc \in {"reverting", "advancing"} /\ UNCHANGED <<match, sched>> /\ Works(w)
      /\ Routed(t) /\ Fresh(t)
  BY DEF ApplyRule, At, Works, Remembers
<1>2. t \in Task /\ t.match \in Match
  BY <1>1, InHand DEF WithMatch
<1>3. /\ t.rules \subseteq RulesFrom(t.match) /\ t.then \notin {"load", "reverting"}
      /\ t.cmd \in Commands
      /\ t.pc = "reverting" => t.cmd \in ResultCommand /\ Completed(t.row) /\ SameGame(t.row, match[t.match])
  BY <1>1, <1>2, NamesAssumption DEF Routed, Fresh, FreshMatch
<1>4. \E rule \in t.rules :
        \/ Become(w, rest(rule))
        \/ \E p \in PlacedAt(t.row, rule.placement) :
             \E draft \in Placed(match[rule.target], p) \cup Released(match[rule.target], p) :
               Become(w, wrote(rule, draft))
  <2> HIDE DEF t
  <2> QED BY DEF ApplyRule, t
<1>5. ASSUME NEW rule \in t.rules, Become(w, rest(rule)) PROVE Remembers'
  <2> DEFINE e == rest(rule)
  <2>1. /\ e.pc = t.pc /\ e.row = t.row /\ e.then = t.then /\ e.match = t.match /\ e.cmd = t.cmd
        /\ e.rules = t.rules \ {rule}
    BY <1>2 DEF Task
  <2>2. Become(w, e)
    BY <1>5
  <2> HIDE DEF e
  <2>3. Routed(e)
    BY <1>3, <2>1 DEF Routed
  <2>4. Fresh(e)
    BY <1>1, <1>3, <2>1 DEF Fresh, FreshMatch, FreshTarget, FreshSchedule
  <2> QED BY <1>1, <2>1, <2>2, <2>3, <2>4, StepRemembers
<1>6. ASSUME NEW rule \in t.rules, NEW p \in PlacedAt(t.row, rule.placement), NEW draft,
             draft \in Placed(match[rule.target], p) \cup Released(match[rule.target], p),
             Become(w, wrote(rule, draft))
      PROVE  Remembers'
  <2> DEFINE e == wrote(rule, draft)
  <2>1. /\ e.pc = "target" /\ e.row = t.row /\ e.then = t.pc /\ e.match = t.match /\ e.cmd = t.cmd
        /\ e.rules = t.rules \ {rule} /\ e.target = rule.target /\ e.draft = draft
    BY <1>2 DEF Task
  <2>2. Become(w, e)
    BY <1>6
  <2> HIDE DEF e
  <2>3. rule \in Rules /\ rule.target # t.match /\ match[rule.target] \in Row /\ p \in Player
    <3>1. rule \in Rules /\ rule.source = t.match
      BY <1>3 DEF RulesFrom
    <3>2. rule.target \in Match /\ rule.target # rule.source
      BY <3>1, RulesAssumption
    <3>3. t.row \in Row
      BY <1>2 DEF Task
    <3>4. p \in Player
      BY <3>3, PlacedAtEntrants DEF Row
    <3> QED BY <3>1, <3>2, <3>4 DEF TypeOK
  <2>4. draft.active = match[rule.target].active
    BY <1>6, <2>3, PlacedEdits
  <2>5. Routed(e)
    BY <1>1, <1>3, <2>1 DEF Routed
  <2>6. Fresh(e)
    BY <1>1, <1>3, <2>1, <2>3, <2>4 DEF Fresh, FreshMatch, FreshTarget, FreshSchedule
  <2> QED BY <1>1, <2>1, <2>2, <2>5, <2>6, StepRemembers
<1> QED BY <1>4, <1>5, <1>6

LEMMA RevertedRemembers ==
  ASSUME OneRequest, Inv, TypeOK, Remembers, NEW w \in Worker, Reverted(w)
  PROVE  Remembers'
<1> DEFINE t == task[w]
<1>1. /\ t.pc = "reverting" /\ UNCHANGED <<match, sched>> /\ Works(w)
      /\ Routed(t) /\ Fresh(t)
  BY DEF Reverted, At, Works, Remembers
<1>2. t \in Task /\ t.match \in Match /\ t.row \in Row /\ match[t.match] \in Row
  BY <1>1, InHand DEF WithMatch, Task, TypeOK
<1>3. t.cmd \in ResultCommand /\ Completed(t.row) /\ SameGame(t.row, match[t.match])
  BY <1>1 DEF Fresh, FreshMatch
<1>4. Answer(w) \/ \E edited \in Effect(t.cmd, t.row) : \E moved :
        /\ moved = OwesRecalculation(t.cmd, t.row, edited)
        /\ Become(w, [t EXCEPT !.pc = "save", !.row = edited, !.moved = moved])
  BY DEF Reverted
<1>5. ASSUME NEW edited \in Effect(t.cmd, t.row), NEW moved, moved = OwesRecalculation(t.cmd, t.row, edited),
             Become(w, [t EXCEPT !.pc = "save", !.row = edited, !.moved = moved])
      PROVE  Remembers'
  <2> DEFINE e == [t EXCEPT !.pc = "save", !.row = edited, !.moved = moved]
  <2>1. /\ e.pc = "save" /\ e.row = edited /\ e.then = t.then /\ e.match = t.match /\ e.cmd = t.cmd
        /\ e.rules = t.rules /\ e.moved = moved
    BY <1>2 DEF Task
  <2>2. Become(w, e)
    BY <1>5
  <2> HIDE DEF e
  <2>3. e.row \in Effect(e.cmd, t.row) /\ e.moved = OwesRecalculation(e.cmd, t.row, e.row)
    BY <1>5, <2>1
  <2>4. EditOf(e, match[t.match])
    BY <1>2, <1>3, <2>1, <2>3, RevertedEdit
  <2>5. Routed(e) /\ e.then \notin {"load", "reverting"}
    BY <1>1, <2>1 DEF Routed
  <2>6. Fresh(e)
    BY <1>3, <2>1, <2>4, <2>5 DEF Fresh, FreshMatch, FreshTarget, FreshSchedule, ResultCommand, ManualCommand
  <2> QED BY <1>1, <2>1, <2>2, <2>5, <2>6, StepRemembers
<1> QED BY <1>1, <1>4, <1>5, AnswerRemembers

LEMMA SavedRemembers ==
  ASSUME OneRequest, Inv, TypeOK, Remembers, NEW w \in Worker, Saved(w)
  PROVE  Remembers'
<1> DEFINE t == task[w]
           e == ForSchedule(t, t.match, "recalculate", "idle")
<1>1. t.pc = "advancing" /\ UNCHANGED <<match, sched>> /\ Works(w) /\ Routed(t)
  BY DEF Saved, At, Works, Remembers
<1>2. t \in Task
  BY <1>1, InHand DEF WithMatch
<1>3. Answer(w) \/ Become(w, e)
  BY DEF Saved
<1>4. e = Idle \/ (e.pc = "recalculate" /\ e.then = "idle" /\ SameWork(e, t))
  BY <1>2, ForScheduleTask DEF PC, Return
<1> HIDE DEF e
<1>5. CASE e.pc = "recalculate" /\ e.then = "idle" /\ SameWork(e, t)
  <2>1. Routed(e) /\ Fresh(e)
    BY <1>1, <1>5 DEF Routed, SameWork, Fresh, FreshMatch, FreshTarget, FreshSchedule
  <2> QED BY <1>1, <1>3, <1>5, <2>1, StepRemembers, AnswerRemembers
<1> QED BY <1>1, <1>3, <1>4, <1>5, AnswerRemembers DEF Answer

\* What TypeOK says of a handler with a schedule in hand.
LEMMA InCharge ==
  ASSUME TypeOK, NEW w \in Worker, task[w].pc \in WithSchedule
  PROVE  /\ task[w] \in Task /\ task[w].schedule \in Schedule
         /\ sched[task[w].schedule] \in ScheduleRow
         /\ sched[task[w].schedule].current \in Standing(task[w].schedule)
BY DEF TypeOK, Handler, WellFormed

LEMMA RecalculateRemembers ==
  ASSUME OneRequest, Inv, TypeOK, Remembers, NEW w \in Worker, Recalculate(w)
  PROVE  Remembers'
<1> DEFINE t == task[w]
           s == t.schedule
           closed == [srow |-> Stopped(sched[s], "TOURNAMENT_CLOSED"), on |-> {}, off |-> OffCurrent(s)]
           holding(v) == [t EXCEPT !.pc = "settle", !.srow = v.srow, !.on = v.on, !.off = v.off]
<1>1. t.pc = "recalculate" /\ UNCHANGED <<match, sched>> /\ Works(w) /\ Routed(t) /\ Fresh(t)
  BY DEF Recalculate, At, Works, Remembers
<1>2. t \in Task /\ s \in Schedule /\ sched[s] \in ScheduleRow
  BY <1>1, InCharge DEF WithSchedule
<1>3. t.then # "load"
  BY <1>1 DEF Routed
<1>4. CASE Become(w, Resumed(t))
  <2> DEFINE e == Resumed(t)
  <2>1. IF t.then = "idle" THEN e = Idle ELSE e.pc = t.then /\ e.then = "idle" /\ SameWork(e, t)
    BY <1>2, ResumedTask
  <2>2. Become(w, e) /\ t.then \in Return
    BY <1>2, <1>4 DEF Task
  <2> HIDE DEF e
  <2>3. CASE t.then = "idle"
    BY <1>1, <2>1, <2>2, <2>3, AnswerRemembers DEF Answer
  <2>4. CASE t.then # "idle"
    <3>1. Routed(e) /\ Fresh(e)
      BY <1>1, <1>3, <2>1, <2>2, <2>4
         DEF Routed, SameWork, Fresh, FreshMatch, FreshTarget, FreshSchedule, Return
    <3> QED BY <1>1, <1>2, <2>1, <2>2, <2>4, <3>1, StepRemembers DEF Return
  <2> QED BY <2>3, <2>4
<1>5. ASSUME NEW v, v = [srow |-> v.srow, on |-> v.on, off |-> v.off], Become(w, holding(v)),
             (\E n \in 1..Len(Entries[s]) + 1 : WalkStopsAt(s, n) /\ v = Verdict(s, n))
             \/ (v.srow.status = "inactive" /\ v.on = {} /\ v.off = OffCurrent(s))
      PROVE  Remembers'
  <2> DEFINE e == holding(v)
  <2>1. /\ e.pc = "settle" /\ e.schedule = s /\ e.srow = v.srow /\ e.on = v.on /\ e.off = v.off
        /\ e.then = t.then /\ SameWork(e, t)
    <3> HIDE DEF t
    <3> QED BY <1>2 DEF Task, SameWork
  <2>2. Become(w, e)
    BY <1>5
  <2> HIDE DEF e, holding
  <2>3. Writes(e) = v
    BY <1>5, <2>1 DEF Writes
  <2>4. IsVerdict(e, s) \/ IsStop(e, s)
    BY <1>5, <2>1, <2>3 DEF IsVerdict, IsStop
  <2>5. Routed(e)
    BY <1>1, <1>3, <2>1 DEF Routed, SameWork
  <2>6. Fresh(e)
    BY <1>1, <2>1, <2>4 DEF Fresh, FreshMatch, FreshTarget, FreshSchedule, SameWork
  <2> QED BY <1>1, <1>2, <2>1, <2>2, <2>5, <2>6, StepRemembers
<1>6. CASE Become(w, holding(closed))
  <2>1. closed.srow.status = "inactive"
    BY <1>2 DEF Stopped, ScheduleRow
  <2>2. closed = [srow |-> closed.srow, on |-> closed.on, off |-> closed.off]
    OBVIOUS
  <2>3. closed.on = {} /\ closed.off = OffCurrent(s)
    OBVIOUS
  <2> HIDE DEF closed, holding
  <2> QED BY <1>5, <1>6, <2>1, <2>2, <2>3
<1>7. ASSUME NEW n \in 1..Len(Entries[s]) + 1, WalkStopsAt(s, n), Become(w, holding(Verdict(s, n)))
      PROVE  Remembers'
  <2>1. Verdict(s, n) = [srow |-> Verdict(s, n).srow, on |-> Verdict(s, n).on, off |-> Verdict(s, n).off]
    BY DEF Verdict
  <2> HIDE DEF holding
  <2> QED BY <1>5, <1>7, <2>1
<1>8. \/ Become(w, Resumed(t))
      \/ Become(w, holding(closed))
      \/ \E n \in 1..Len(Entries[s]) + 1 : WalkStopsAt(s, n) /\ Become(w, holding(Verdict(s, n)))
  BY DEF Recalculate
<1> QED BY <1>4, <1>6, <1>7, <1>8

LEMMA DiffRemembers ==
  ASSUME OneRequest, Inv, TypeOK, Remembers, NEW w \in Worker, DiffSchedule(w)
  PROVE  Remembers'
<1> DEFINE t == task[w]
           dirty == {c \in Column : t.srow[c] # sched[t.schedule][c]}
           e == [t EXCEPT !.pc = "update", !.dirty = dirty]
<1>1. /\ t.pc = "diff" /\ UNCHANGED <<match, sched>> /\ Works(w) /\ Routed(t) /\ Fresh(t)
      /\ Become(w, e)
  BY DEF DiffSchedule, At, Works, Remembers
<1>2. t \in Task
  BY <1>1, InCharge DEF WithSchedule
<1> HIDE DEF dirty
<1>3. e.pc = "update" /\ e.schedule = t.schedule /\ e.then = t.then /\ SameWork(e, t)
  BY <1>2 DEF Task, SameWork
<1> HIDE DEF e
<1>4. Routed(e) /\ Fresh(e)
  BY <1>1, <1>3 DEF Routed, SameWork, Fresh, FreshMatch, FreshTarget, FreshSchedule
<1> QED BY <1>1, <1>3, <1>4, StepRemembers

\* A close lists the schedules it has to stop.
LEMMA StopTournamentRemembers ==
  ASSUME OneRequest, Inv, TypeOK, Remembers, NEW w \in Worker, StopTournament(w)
  PROVE  Remembers'
<1> DEFINE t == task[w]
           e == [t EXCEPT !.pc = "sweep", !.sweep = RunningSchedules]
<1>1. /\ t.pc = "closing" /\ UNCHANGED <<match, sched>> /\ Works(w) /\ Routed(t) /\ t \in Task
      /\ Become(w, e)
  BY DEF StopTournament, At, Works, Remembers, TypeOK, Handler
<1>2. /\ e.pc = "sweep" /\ e.then = t.then /\ e.match = t.match /\ e.cmd = t.cmd
      /\ e.rules = t.rules
  BY <1>1 DEF Task
<1> HIDE DEF e
<1>3. Routed(e) /\ Fresh(e)
  BY <1>1, <1>2 DEF Routed, Fresh, FreshMatch, FreshTarget, FreshSchedule
<1> QED BY <1>1, <1>2, <1>3, StepRemembers

LEMMA SweepRemembers ==
  ASSUME OneRequest, Inv, TypeOK, Remembers, NEW w \in Worker, Sweep(w)
  PROVE  Remembers'
<1> DEFINE t == task[w]
           pc == IF t.cmd = "boot" THEN "recalculate" ELSE "stop"
           e(s) == [t EXCEPT !.pc = pc, !.then = "sweep", !.schedule = s, !.sweep = @ \ {s}]
<1>1. t.pc = "sweep" /\ UNCHANGED <<match, sched>> /\ Works(w) /\ Routed(t) /\ t \in Task
  BY DEF Sweep, At, Works, Remembers, TypeOK, Handler
<1>2. Answer(w) \/ \E s \in t.sweep : Become(w, e(s))
  BY DEF Sweep
<1>3. pc \in {"stop", "recalculate"}
  OBVIOUS
<1> HIDE DEF pc
<1>4. ASSUME NEW s \in t.sweep, Become(w, e(s)) PROVE Remembers'
  <2> DEFINE f == e(s)
  <2>1. f.pc = pc /\ f.then = "sweep" /\ f.match = t.match /\ f.cmd = t.cmd /\ f.rules = t.rules
    BY <1>1 DEF Task
  <2>2. Become(w, f)
    BY <1>4
  <2> HIDE DEF f, e
  <2>3. Routed(f) /\ Fresh(f)
    BY <1>1, <1>3, <2>1 DEF Routed, Fresh, FreshMatch, FreshTarget, FreshSchedule
  <2> QED BY <1>1, <1>3, <2>1, <2>2, <2>3, StepRemembers
<1> QED BY <1>1, <1>2, <1>4, AnswerRemembers

\* A request for a schedule, or for the tournament, begins.
LEMMA BegunRemembers ==
  ASSUME OneRequest, Inv, TypeOK, Remembers, NEW r \in Request, up, UNCHANGED <<match, sched>>,
         NEW e, Become(r, e), e.match = None, e.rules = {}, e.then = "idle",
         \/ e.pc \in {"stop", "closing"}
         \/ e.pc = "diff" /\ ~Running(e.schedule)
  PROVE  Remembers'
<1>1. Routed(e) /\ Fresh(e)
  BY DEF Routed, Fresh, FreshMatch, FreshTarget, FreshSchedule
<1>2. r \in Worker /\ Works(r)
  BY DEF Worker, Works
<1> QED BY <1>1, <1>2, StepRemembers

LEMMA EditsRemember ==
  ASSUME OneRequest, Inv, TypeOK, Remembers, NEW r \in Request, NEW s \in Schedule, up, ~Running(s),
         NEW cmd, NEW srow, Edits(r, s, cmd, srow)
  PROVE  Remembers'
<1> DEFINE e == [Idle EXCEPT !.pc = "diff", !.cmd = cmd, !.schedule = s, !.srow = srow]
<1>1. Become(r, e) /\ UNCHANGED <<match, sched>>
  BY DEF Edits
<1>2. e.pc = "diff" /\ e.schedule = s /\ e.match = None /\ e.rules = {} /\ e.then = "idle"
  BY DEF Idle
<1> HIDE DEF e
<1> QED BY <1>1, <1>2, BegunRemembers

LEMMA ControlsRemember ==
  ASSUME OneRequest, Inv, TypeOK, Remembers, NEW r \in Request,
         \/ \E s \in Schedule : BeginStart(r, s) \/ BeginArchive(r, s) \/ BeginStop(r, s)
         \/ Close(r)
  PROVE  Remembers'
<1>1. ASSUME NEW s \in Schedule, BeginStart(r, s) \/ BeginArchive(r, s) PROVE Remembers'
  <2>1. up /\ ~Running(s) /\ \E cmd, srow : Edits(r, s, cmd, srow)
    BY <1>1 DEF BeginStart, BeginArchive, Admitted, Running
  <2> QED BY <2>1, EditsRemember
<1>2. ASSUME NEW s \in Schedule, BeginStop(r, s) PROVE Remembers'
  <2> DEFINE e == [Idle EXCEPT !.pc = "stop", !.cmd = "stop", !.schedule = s]
  <2>1. Become(r, e) /\ UNCHANGED <<match, sched>> /\ up
    BY <1>2 DEF BeginStop, Admitted
  <2>2. e.pc = "stop" /\ e.match = None /\ e.rules = {} /\ e.then = "idle"
    BY DEF Idle
  <2> HIDE DEF e
  <2> QED BY <2>1, <2>2, BegunRemembers
<1>3. CASE Close(r)
  <2> DEFINE e == [Idle EXCEPT !.pc = "closing", !.cmd = "close"]
  <2>1. Become(r, e) /\ UNCHANGED <<match, sched>> /\ up
    BY <1>3 DEF Close
  <2>2. e.pc = "closing" /\ e.match = None /\ e.rules = {} /\ e.then = "idle"
    BY DEF Idle
  <2> HIDE DEF e
  <2> QED BY <2>1, <2>2, BegunRemembers
<1> QED BY <1>1, <1>2, <1>3

-----------------------------------------------------------------------------
(***************************************************************************)
(* The steps that write.                                                   *)
(***************************************************************************)

\* Taking matches on and off a cabinet changes nothing else in them.
LEMMA SwitchedRow ==
  ASSUME TypeOK, NEW on, NEW off, match' = Switched(on, off), NEW m \in Match
  PROVE  /\ match'[m].active => m \in on \/ (match[m].active /\ m \notin off)
         /\ m \in on \/ (match[m].active /\ m \notin off) => match'[m].active
         /\ match'[m].state = match[m].state /\ match'[m].players = match[m].players
         /\ match'[m].rounds = match[m].rounds
<1>1. match[m] \in Row
  BY DEF TypeOK
<1>2. match'[m] = [match[m] EXCEPT !.active = (@ \/ m \in on) /\ (m \in on \/ m \notin off)]
  BY DEF Switched
<1> QED BY <1>1, <1>2 DEF Row

LEMMA SaveRemembers ==
  ASSUME OneRequest, Inv, TypeOK, Remembers, NEW w \in Worker, Save(w)
  PROVE  Remembers'
<1> DEFINE t == task[w]
           rules == IF t.cmd = "commit" THEN RulesFrom(t.match) ELSE {}
           e == [t EXCEPT !.pc = "advancing", !.rules = rules]
<1>1. t.pc = "save" /\ Works(w) /\ Routed(t) /\ Become(w, e) /\ rules \subseteq RulesFrom(t.match)
  BY DEF Save, At, Works, Remembers
<1>2. t \in Task
  BY <1>1, InHand DEF WithMatch
<1> HIDE DEF rules
<1>3. e.pc = "advancing" /\ e.then = t.then /\ e.match = t.match /\ e.cmd = t.cmd /\ e.rules = rules
  BY <1>2 DEF Task
<1> HIDE DEF e
<1>4. task'[w] = e
  BY <1>1 DEF Become, TypeOK
<1>5. Routed(task[w])' /\ Fresh(task[w])'
  BY <1>1, <1>3, <1>4 DEF Routed, Fresh, FreshMatch, FreshTarget, FreshSchedule
<1> QED BY <1>1, <1>5, WriterRemembers

LEMMA SaveTargetRemembers ==
  ASSUME OneRequest, Inv, TypeOK, Remembers, NEW w \in Worker, SaveTarget(w)
  PROVE  Remembers'
<1> DEFINE t == task[w]
           e == ForSchedule(t, t.target, "recalculate", t.then)
<1>1. t.pc = "target" /\ Works(w) /\ Routed(t) /\ Fresh(t) /\ Become(w, e)
  BY DEF SaveTarget, At, Works, Remembers
<1>2. t \in Task /\ t.match \in Match
  BY <1>1, InHand DEF WithMatch
<1>3. t.then \in {"reverting", "advancing"} /\ t.target # t.match
  BY <1>1 DEF Fresh, FreshTarget
<1>4. /\ e.pc \in {"recalculate", t.then} /\ e.then \in {"idle", t.then} /\ SameWork(e, t)
      /\ e.pc = "recalculate" \/ e.then = "idle"
  BY <1>2, <1>3, ForScheduleTask DEF PC, Return
<1> HIDE DEF e
<1>5. task'[w] = e /\ match'[t.match] = match[t.match]
  BY <1>1, <1>2, <1>3 DEF Become, TypeOK, SaveTarget
<1>6. Routed(task[w])'
  BY <1>1, <1>3, <1>4, <1>5 DEF Routed, SameWork
<1>7. t.then = "reverting" => t.cmd \in ResultCommand /\ Completed(t.row) /\ SameGame(t.row, match[t.match])
  BY <1>1 DEF Fresh, FreshMatch
<1>8. Fresh(task[w])'
  <2>1. task'[w].cmd = t.cmd /\ task'[w].row = t.row /\ task'[w].match = t.match
    BY <1>4, <1>5 DEF SameWork
  <2>2. FreshMatch(task[w], match[task[w].match])'
    BY <1>3, <1>4, <1>5, <1>7, <2>1 DEF FreshMatch
  <2>3. FreshTarget(task[w])' /\ FreshSchedule(task[w], task[w].schedule)'
    BY <1>3, <1>4, <1>5 DEF FreshTarget, FreshSchedule
  <2> QED BY <2>2, <2>3 DEF Fresh
<1> QED BY <1>1, <1>6, <1>8, WriterRemembers

\* A schedule transaction is written, and its handler goes on: it only has to
\* see that the schedule it stopped holds the match no more.
LEMMA TransactionRemembers ==
  ASSUME OneRequest, Inv, TypeOK, Remembers, NEW w \in Worker,
         task[w].pc \in {"stop", "interrupt", "settle"}, Become(w, Resumed(task[w])),
         \A m \in Match : SameGame(match'[m], match[m]),
         \A s \in Schedule \ {task[w].schedule} : sched'[s] = sched[s],
         task[w].pc # "settle" => sched'[task[w].schedule].status # "running"
  PROVE  Remembers'
<1> DEFINE t == task[w]
           s == t.schedule
           e == Resumed(t)
<1>1. Works(w) /\ Routed(t) /\ Fresh(t) /\ t \in Task /\ s \in Schedule
  BY InCharge DEF At, Works, Remembers, WithSchedule
<1>2. IF t.then = "idle" THEN e = Idle ELSE e.pc = t.then /\ e.then = "idle" /\ SameWork(e, t)
  BY <1>1, ResumedTask
<1>3. Become(w, e) /\ t.then \in Return
  BY <1>1 DEF Task
<1> HIDE DEF e
<1>4. task'[w] = e
  BY <1>3 DEF Become, TypeOK
<1>5. CASE t.then = "idle"
  <2>1. task'[w] = Idle
    BY <1>2, <1>4, <1>5
  <2>2. Routed(task[w])'
    BY <2>1, IdleIsRouted DEF Routed
  <2>3. Fresh(task[w])'
    BY <2>1, IdleIsRouted DEF Fresh, FreshMatch, FreshTarget, FreshSchedule
  <2> QED BY <1>1, <1>3, <2>2, <2>3, WriterRemembers
<1>6. CASE t.then # "idle"
  <2>1. Routed(task[w])'
    BY <1>1, <1>2, <1>4, <1>6 DEF Routed, SameWork
  <2>4. /\ task'[w].cmd = t.cmd /\ task'[w].row = t.row /\ task'[w].match = t.match
        /\ task'[w].pc = t.then /\ task'[w].then = "idle"
    BY <1>2, <1>4, <1>6 DEF SameWork
  <2>2. t.then = "load" => ~Reached(task[w].match)'
    <3> SUFFICES ASSUME t.then = "load", NEW x \in Schedule, t.match \in MatchesOf(x), Running(x)' PROVE FALSE
      BY <2>4 DEF Reached, MatchesOf
    <3>1. x # s /\ t.match \in MatchesOf(s)
      BY <1>1 DEF Routed, Running
    <3> QED BY <1>1, <3>1, EntriesAssumption DEF MatchesOf
  <2>3. t.then = "reverting" =>
          t.cmd \in ResultCommand /\ Completed(t.row) /\ SameGame(t.row, match'[t.match])
    <3> SUFFICES ASSUME t.then = "reverting" PROVE SameGame(t.row, match'[t.match])
                                                   /\ t.cmd \in ResultCommand /\ Completed(t.row)
      OBVIOUS
    <3>1. t.cmd \in ResultCommand /\ Completed(t.row) /\ SameGame(t.row, match[t.match])
      BY <1>1 DEF Fresh, FreshMatch
    <3>2. t.match \in Match
      BY DEF TypeOK, Handler, WellFormed, WithMatch
    <3> QED BY <3>1, <3>2 DEF SameGame
  <2>5. FreshMatch(task[w], match[task[w].match])'
    BY <1>3, <2>2, <2>3, <2>4 DEF FreshMatch, Return, Reached
  <2>6. FreshTarget(task[w])' /\ FreshSchedule(task[w], task[w].schedule)'
    BY <1>3, <2>4 DEF FreshTarget, FreshSchedule, Return
  <2> QED BY <1>1, <1>3, <2>1, <2>5, <2>6, WriterRemembers DEF Fresh
<1> QED BY <1>5, <1>6

LEMMA SettleRemembers ==
  ASSUME OneRequest, Inv, TypeOK, Remembers, NEW w \in Worker, Settle(w)
  PROVE  Remembers'
<1> DEFINE t == task[w]
<1>1. t.pc = "settle" /\ match' = Switched(t.on, t.off) /\ Become(w, Resumed(t))
  BY DEF Settle, At
<1>2. t.schedule \in Schedule
  BY <1>1, InCharge DEF WithSchedule
<1>3. \A m \in Match : SameGame(match'[m], match[m])
  BY <1>1, SwitchedRow DEF SameGame
<1>4. \A s \in Schedule \ {t.schedule} : sched'[s] = sched[s]
  BY <1>2 DEF Settle, TypeOK
<1> QED BY <1>1, <1>3, <1>4, TransactionRemembers

\* A handler that answers when it finds nothing to write.
LEMMA GivesUp ==
  ASSUME OneRequest, Inv, TypeOK, Remembers, NEW w \in Worker, ~At(w, "idle"), Answer(w), UNCHANGED <<match, sched>>
  PROVE  Remembers'
BY AnswerRemembers DEF Works

LEMMA StopRemembers ==
  ASSUME OneRequest, Inv, TypeOK, Remembers, NEW w \in Worker, Stop(w)
  PROVE  Remembers'
<1> DEFINE t == task[w]
           s == t.schedule
<1>1. t.pc = "stop"
  BY DEF Stop, At
<1>2. s \in Schedule /\ sched[s] \in ScheduleRow
  BY <1>1, InCharge DEF WithSchedule
<1>3. CASE Running(s)
  <2>1. match' = Switched({}, OffCurrent(s)) /\ Become(w, Resumed(t))
    BY <1>3 DEF Stop
  <2>2. PICK code : sched' = [sched EXCEPT ![s] = Stopped(@, code)]
    BY <1>3 DEF Stop
  <2>3. sched'[s].status # "running" /\ \A x \in Schedule \ {s} : sched'[x] = sched[x]
    <3>1. Stopped(sched[s], code).status = "inactive"
      BY <1>2 DEF Stopped, ScheduleRow
    <3> QED BY <1>2, <2>2, <3>1 DEF TypeOK
  <2>4. \A m \in Match : SameGame(match'[m], match[m])
    BY <2>1, SwitchedRow DEF SameGame
  <2> QED BY <1>1, <2>1, <2>3, <2>4, TransactionRemembers
<1>4. CASE ~Running(s)
  BY <1>1, <1>4, GivesUp DEF Stop, At
<1> QED BY <1>3, <1>4

LEMMA InterruptRemembers ==
  ASSUME OneRequest, Inv, TypeOK, Remembers, NEW w \in Worker, InterruptCompleted(w)
  PROVE  Remembers'
<1> DEFINE t == task[w]
           s == t.schedule
<1>1. t.pc = "interrupt" /\ UNCHANGED match
  BY DEF InterruptCompleted, At
<1>2. s \in Schedule
  BY <1>1, InCharge DEF WithSchedule
<1>3. CASE sched[s].status = "completed"
  <2>1. sched' = [sched EXCEPT ![s] = Interrupted(@, t.match)] /\ Become(w, Resumed(t))
    BY <1>3 DEF InterruptCompleted
  <2>2. sched'[s].status # "running" /\ \A x \in Schedule \ {s} : sched'[x] = sched[x]
    BY <1>2, <2>1 DEF TypeOK, Interrupted
  <2> QED BY <1>1, <2>1, <2>2, TransactionRemembers DEF SameGame
<1>4. CASE sched[s].status # "completed"
  BY <1>1, <1>4, GivesUp DEF InterruptCompleted, At
<1> QED BY <1>3, <1>4

\* An edit of a schedule is saved, and a start takes its matches over.
LEMMA UpdateRemembers ==
  ASSUME OneRequest, Inv, TypeOK, Remembers, NEW w \in Worker, UpdateSchedule(w)
  PROVE  Remembers'
<1> DEFINE t == task[w]
           e == IF t.cmd = "start" THEN [Idle EXCEPT !.pc = "takeBack", !.cmd = t.cmd, !.schedule = t.schedule] ELSE Idle
<1>1. Works(w) /\ Become(w, e)
  BY DEF UpdateSchedule, At, Works, Answer
<1>2. e.pc \in {"takeBack", "idle"} /\ e.then = "idle" /\ e.match = None /\ e.rules = {}
  BY DEF Idle
<1> HIDE DEF e
<1>3. task'[w] = e
  BY <1>1 DEF Become, TypeOK
<1>4. Routed(task[w])' /\ Fresh(task[w])'
  BY <1>2, <1>3 DEF Routed, Fresh, FreshMatch, FreshTarget, FreshSchedule
<1> QED BY <1>1, <1>4, WriterRemembers

LEMMA TakeBackRemembers ==
  ASSUME OneRequest, Inv, TypeOK, Remembers, NEW w \in Worker, TakeBack(w)
  PROVE  Remembers'
<1> DEFINE t == task[w]
           e == [t EXCEPT !.pc = "recalculate"]
<1>1. t.pc = "takeBack" /\ Works(w) /\ Routed(t) /\ Become(w, e)
  BY DEF TakeBack, At, Works, Remembers
<1>2. t \in Task
  BY <1>1, InCharge DEF WithSchedule
<1>3. e.pc = "recalculate" /\ e.then = t.then /\ SameWork(e, t)
  BY <1>2 DEF Task, SameWork
<1> HIDE DEF e
<1>4. task'[w] = e
  BY <1>1 DEF Become, TypeOK
<1>5. Routed(task[w])' /\ Fresh(task[w])'
  BY <1>1, <1>3, <1>4 DEF Routed, SameWork, Fresh, FreshMatch, FreshTarget, FreshSchedule
<1> QED BY <1>1, <1>5, WriterRemembers

\* A server that goes down forgets, and the bootstrap begins with nothing.
LEMMA SystemRemembers ==
  ASSUME TypeOK, Remembers, Restart \/ Crash \/ UNCHANGED <<match, sched, task>>
  PROVE  Remembers'
<1> SUFFICES ASSUME NEW w \in Worker PROVE Routed(task[w])' /\ Fresh(task[w])'
  BY DEF Remembers
<1>1. Routed(task[w]) /\ Fresh(task[w]) /\ (task[w].pc = "settle" => task[w].schedule \in Schedule)
  BY InCharge DEF Remembers, WithSchedule
<1>2. CASE task'[w] = task[w] /\ UNCHANGED <<match, sched>>
  BY <1>1, <1>2, FreshStays DEF Routed
<1>3. ASSUME NEW e, task'[w] = e, e.pc \in {"idle", "sweep"}, e.then = "idle", e.match = None, e.rules = {}
      PROVE  Routed(task[w])' /\ Fresh(task[w])'
  BY <1>3 DEF Routed, Fresh, FreshMatch, FreshTarget, FreshSchedule
<1>4. CASE Restart
  <2> DEFINE e == [Idle EXCEPT !.pc = "sweep", !.cmd = "boot", !.sweep = RunningSchedules]
  <2>1. e.pc = "sweep" /\ e.then = "idle" /\ e.match = None /\ e.rules = {}
    BY DEF Idle
  <2>2. Become(Boot, e) /\ UNCHANGED <<match, sched>>
    BY <1>4 DEF Restart
  <2> HIDE DEF e
  <2>3. task'[w] = IF w = Boot THEN e ELSE task[w]
    BY <2>2 DEF Become, TypeOK
  <2> QED BY <1>2, <1>3, <2>1, <2>2, <2>3
<1>5. CASE Crash
  <2>1. task'[w] = Idle
    BY <1>5 DEF Crash
  <2>2. Idle.pc = "idle" /\ Idle.then = "idle" /\ Idle.match = None /\ Idle.rules = {}
    BY DEF Idle
  <2> QED BY <1>3, <2>1, <2>2
<1> QED BY <1>2, <1>4, <1>5

LEMMA NextRemembers ==
  ASSUME OneRequest, Inv, TypeOK, Remembers, [Next]_vars
  PROVE  Remembers'
<1>1. ASSUME NEW r \in Request, Begin(r) PROVE Remembers'
  <2>1. ReopenTournament(r) => UNCHANGED <<match, sched, task>>
    BY DEF ReopenTournament
  <2> QED BY <1>1, <2>1, BeginCommandRemembers, ControlsRemember, SystemRemembers DEF Begin
<1>2. ASSUME NEW w \in Worker, Proceed(w) PROVE Remembers'
  BY <1>2, GuardRemembers, LoadStepRemembers, ManualRemembers, ApplyRuleRemembers, SaveTargetRemembers,
     RevertedRemembers, SaveRemembers, SavedRemembers, SettleRemembers, DiffRemembers,
     TakeBackRemembers, StopTournamentRemembers, SweepRemembers
     DEF Proceed
<1>3. ASSUME NEW w \in Worker, WithLock(w) PROVE Remembers'
  BY <1>3, RecalculateRemembers, StopRemembers, InterruptRemembers, UpdateRemembers DEF WithLock
<1>4. CASE UNCHANGED vars
  BY <1>4, SystemRemembers DEF vars
<1> QED BY <1>1, <1>2, <1>3, <1>4, SystemRemembers DEF Next

LEMMA MemoryIsFresh == OneRequest => (Spec => []Remembers)
<1> SUFFICES ASSUME OneRequest PROVE Spec => []Remembers
  OBVIOUS
<1>1. Init => Remembers
  BY IdleIsRouted DEF Init, Remembers
<1>2. Inv /\ TypeOK /\ Remembers /\ [Next]_vars => Remembers'
  BY NextRemembers
<1> QED BY <1>1, <1>2, Invariant, TypeCorrect, PTL DEF Spec

-----------------------------------------------------------------------------
(***************************************************************************)
(* What is on a cabinet.                                                   *)
(***************************************************************************)

\* Somebody can put a match on a cabinet by hand, or had before all began.
ByHand == "activate" \in Commands \/ \E m \in Match : \E row \in InitialRows[m] : row.active

\* A running schedule has its current match there at most, from when a start
\* has taken over what was put there by hand; one that does not run has none
\* but by hand.
HeldBy(s) ==
  IF Running(s) THEN (ByHand /\ TakingOver(s)) \/ Active(MatchesOf(s)) \subseteq {sched[s].current}
  ELSE ByHand \/ Active(MatchesOf(s)) = {}

Held == \A s \in Schedule : HeldBy(s)

\* A step that puts no match of this schedule on a cabinet.
PutsNone(s) == \A m \in MatchesOf(s) : match'[m].active => match[m].active

LEMMA HeldByStays ==
  ASSUME Held, NEW s \in Schedule, sched'[s] = sched[s], PutsNone(s),
         ByHand /\ TakingOver(s) => TakingOver(s)' \/ Active(MatchesOf(s))' = {}
  PROVE  HeldBy(s)'
<1>1. Active(MatchesOf(s))' \subseteq Active(MatchesOf(s))
  BY DEF PutsNone, Active, MatchesOf
<1>2. HeldBy(s)
  BY DEF Held
<1>3. Running(s)' = Running(s)
  BY DEF Running
<1>4. CASE Running(s)
  <2>1. \/ ByHand /\ TakingOver(s)'
        \/ Active(MatchesOf(s))' \subseteq {sched'[s].current}
    BY <1>1, <1>2, <1>4 DEF HeldBy
  <2> QED BY <1>3, <1>4, <2>1 DEF HeldBy, ByHand
<1>5. CASE ~Running(s)
  BY <1>1, <1>2, <1>3, <1>5 DEF HeldBy, ByHand
<1> QED BY <1>4, <1>5

\* The one at work is the one that takes over.
LEMMA WhoTakesOver ==
  ASSUME OneRequest, Inv, NEW w \in Worker, Works(w), ~At(w, "takeBack"), NEW s
  PROVE  ~TakingOver(s)
BY NobodyElse DEF TakingOver, At, Inv

\* A verdict takes off what it walks past, and puts on what it stops at.
LEMMA VerdictHolds ==
  ASSUME TypeOK, NEW s \in Schedule, Running(s), Active(MatchesOf(s)) \subseteq {sched[s].current},
         NEW n \in 1..Len(Entries[s]) + 1, WalkStopsAt(s, n), NEW v, v = Verdict(s, n)
  PROVE  /\ v.on \subseteq MatchesOf(s)
         /\ \/ /\ v.srow.status = "running"
               /\ Active(MatchesOf(s)) \ v.off \subseteq {v.srow.current} /\ v.on \subseteq {v.srow.current}
            \/ v.srow.status = "completed" /\ Active(MatchesOf(s)) \subseteq v.off /\ v.on = {}
<1>1. /\ DOMAIN Entries[s] = 1..Len(Entries[s]) /\ Len(Entries[s]) \in Nat
      /\ \A i \in DOMAIN Entries[s] : Entries[s][i] \in Match
      /\ \A i \in DOMAIN Entries[s] : Pos(s, Entries[s][i]) = i
  BY EntryType
<1>2. sched[s] \in ScheduleRow /\ sched[s].current \in Standing(s)
  BY DEF TypeOK
<1>3. n \in WalkFrom(s)..Len(Entries[s]) + 1 /\ WalkFrom(s) \in Nat \ {0}
  BY <1>2, WalkType DEF WalkStopsAt
<1>4. ASSUME NEW m \in Active(MatchesOf(s)), m \notin v.off
      PROVE  n <= Len(Entries[s]) /\ m = Entries[s][n]
  <2>1. m = sched[s].current /\ m \in MatchesOf(s) /\ m \in Match /\ match[m].active
    BY <1>1, <1>4 DEF Active, MatchesOf
  <2>2. PICK i \in DOMAIN Entries[s] : m = Entries[s][i]
    BY <2>1 DEF MatchesOf
  <2>3. WalkFrom(s) = i
    BY <1>1, <2>1, <2>2, NamesAssumption DEF WalkFrom
  <2>4. v.off = Active(WalkedPast(s, n))
    BY DEF Verdict
  <2>5. m \notin WalkedPast(s, n)
    BY <1>4, <2>1, <2>4 DEF Active
  <2>6. ~(i \in WalkFrom(s)..n - 1)
    BY <2>2, <2>5 DEF WalkedPast
  <2>7. n = i
    BY <1>1, <1>3, <2>2, <2>3, <2>6
  <2> QED BY <1>1, <2>2, <2>7
<1>5. CASE n > Len(Entries[s])
  <2>1. v.on = {} /\ v.srow = Finished(sched[s])
    BY <1>5 DEF Verdict
  <2>2. v.srow.status = "completed"
    BY <1>2, <2>1 DEF Finished, ScheduleRow
  <2>3. Active(MatchesOf(s)) \subseteq v.off
    BY <1>1, <1>3, <1>4, <1>5
  <2> QED BY <2>1, <2>2, <2>3
<1>6. CASE ~(n > Len(Entries[s]))
  <2> DEFINE m == Entries[s][n]
             why == ReasonToWait(s, m, Active(WalkedPast(s, n)))
  <2>1. v.srow = WaitingAt(sched[s], m, why) /\ v.on \subseteq {m}
    BY <1>6 DEF Verdict
  <2>2. m \in MatchesOf(s)
    BY <1>1, <1>3, <1>6 DEF MatchesOf
  <2> HIDE DEF m, why
  <2>3. v.srow.current = m
    BY <1>2, <2>1 DEF WaitingAt, ScheduleRow
  <2>4. Active(MatchesOf(s)) \ v.off \subseteq {m}
    BY <1>4 DEF m
  <2>5. v.srow.status = "running"
    BY <1>2, <2>1 DEF WaitingAt, ScheduleRow, Running
  <2> QED BY <2>1, <2>2, <2>3, <2>4, <2>5
<1> QED BY <1>5, <1>6

\* A step that writes no schedule, and puts no match on a cabinet.
LEMMA NothingPutOn ==
  ASSUME Held, UNCHANGED sched, \A s \in Schedule : PutsNone(s),
         \A s \in Schedule : ByHand /\ TakingOver(s) => TakingOver(s)' \/ Active(MatchesOf(s))' = {}
  PROVE  Held'
BY HeldByStays DEF Held

\* One handler goes on, and what the others take over they take over still.
LEMMA OthersTakeOver ==
  ASSUME TypeOK, NEW w \in Worker, NEW e, Become(w, e), ~At(w, "takeBack"), NEW s, TakingOver(s)
  PROVE  TakingOver(s)'
BY DEF TakingOver, At, Become, TypeOK

\* The steps that leave every match where it is.
MovesNoMatch(w) ==
  /\ UNCHANGED <<match, sched>>
  /\ \E e : Become(w, e)

LEMMA NoMatchMoved ==
  ASSUME TypeOK, Held, NEW w \in Worker, ~At(w, "takeBack"), MovesNoMatch(w)
  PROVE  Held'
<1>1. \A s \in Schedule : PutsNone(s)
  BY DEF MovesNoMatch, PutsNone
<1> QED BY <1>1, OthersTakeOver, NothingPutOn DEF MovesNoMatch

LEMMA QuietStepsMoveNone ==
  ASSUME TypeOK, Remembers, NEW w \in Worker,
         \/ GuardSchedule(w) \/ Load(w) \/ ManualActivation(w) \/ ApplyRule(w) \/ Reverted(w) \/ Saved(w)
         \/ DiffSchedule(w) \/ StopTournament(w) \/ Sweep(w) \/ Recalculate(w)
  PROVE  MovesNoMatch(w) /\ ~At(w, "takeBack")
<1>1. UNCHANGED <<match, sched>> /\ ~At(w, "takeBack")
  BY DEF GuardSchedule, Load, ManualActivation, ApplyRule, Reverted, Saved, DiffSchedule,
         StopTournament, Sweep, Recalculate, At
<1>2. \E e : Become(w, e)
  <2>1. MatchStep(w) => GoesOn(w)
    BY MatchStepsGoOn
  <2>2. StopTournament(w) \/ Sweep(w) => GoesElsewhere(w)
    BY QuietStepsElsewhere
  <2>3. GoesOn(w) \/ GoesElsewhere(w) => \E e : Become(w, e)
    BY DEF GoesOn, GoesElsewhere
  <2>4. DiffSchedule(w) \/ Recalculate(w) => \E e : Become(w, e)
    BY DEF DiffSchedule, Recalculate
  <2> QED BY <2>1, <2>2, <2>3, <2>4 DEF MatchStep
<1> QED BY <1>1, <1>2 DEF MovesNoMatch

\* A save leaves the match on its cabinet or takes it off, unless by hand.
LEMMA SaveHolds ==
  ASSUME TypeOK, Remembers, Held, NEW w \in Worker, Save(w)
  PROVE  Held'
<1> DEFINE t == task[w]
<1>1. /\ t.pc = "save" /\ match' = [match EXCEPT ![t.match] = t.row] /\ UNCHANGED sched
      /\ ~At(w, "takeBack") /\ (\E e : Become(w, e)) /\ Fresh(t)
  BY DEF Save, At, Remembers
<1>2. t.match \in Match
  BY <1>1, InHand DEF WithMatch
<1>3. match'[t.match] = t.row /\ \A m \in Match \ {t.match} : match'[m] = match[m]
  BY <1>1, <1>2 DEF TypeOK
<1>4. CASE t.row.active => match[t.match].active
  <2>1. \A s \in Schedule : PutsNone(s)
    BY <1>3, <1>4, EntryType DEF PutsNone
  <2> QED BY <1>1, <2>1, OthersTakeOver, NothingPutOn
<1>5. CASE ~(t.row.active => match[t.match].active)
  <2>1. ByHand /\ RunningSchedules = {}
    BY <1>1, <1>5 DEF Fresh, FreshMatch, EditOf, ByHand
  <2> QED BY <1>1, <2>1 DEF Held, HeldBy, Running, RunningSchedules, ByHand
<1> QED BY <1>4, <1>5

LEMMA SaveTargetHolds ==
  ASSUME TypeOK, Remembers, Held, NEW w \in Worker, SaveTarget(w)
  PROVE  Held'
<1> DEFINE t == task[w]
<1>1. /\ t.pc = "target" /\ match' = [match EXCEPT ![t.target] = t.draft] /\ UNCHANGED sched
      /\ ~At(w, "takeBack") /\ (\E e : Become(w, e)) /\ Fresh(t)
  BY DEF SaveTarget, At, Remembers
<1>2. t.target \in Match
  BY <1>1 DEF TypeOK, Handler, WellFormed
<1>3. match'[t.target].active = match[t.target].active
      /\ \A m \in Match \ {t.target} : match'[m] = match[m]
  BY <1>1, <1>2 DEF TypeOK, Fresh, FreshTarget
<1>4. \A s \in Schedule : PutsNone(s)
  BY <1>3, EntryType DEF PutsNone
<1> QED BY <1>1, <1>4, OthersTakeOver, NothingPutOn

LEMMA TakeBackHolds ==
  ASSUME TypeOK, Held, NEW w \in Worker, TakeBack(w)
  PROVE  Held'
<1> DEFINE t == task[w]
<1>1. /\ t.pc = "takeBack" /\ match' = Switched({}, MatchesOf(t.schedule)) /\ UNCHANGED sched
      /\ Become(w, [t EXCEPT !.pc = "recalculate"])
  BY DEF TakeBack, At
<1>2. \A m \in Match : /\ match'[m].active => match[m].active
                       /\ match'[m].active => m \notin MatchesOf(t.schedule)
  <2>1. \A m \in Match : match'[m].active => m \in {} \/ (match[m].active /\ m \notin MatchesOf(t.schedule))
    BY <1>1, SwitchedRow
  <2> QED BY <2>1
<1>3. \A s \in Schedule : PutsNone(s)
  BY <1>2, EntryType DEF PutsNone
<1>4. ASSUME NEW s \in Schedule, TakingOver(s)
      PROVE  TakingOver(s)' \/ Active(MatchesOf(s))' = {}
  <2>1. CASE s = t.schedule
    BY <1>2, <2>1, EntryType DEF Active, MatchesOf
  <2>2. CASE s # t.schedule
    <3>1. PICK v \in Worker : At(v, "takeBack") /\ task[v].schedule = s
      BY <1>4 DEF TakingOver
    <3>2. task'[v] = task[v]
      BY <1>1, <2>2, <3>1 DEF Become, TypeOK
    <3> QED BY <3>1, <3>2 DEF TakingOver, At
  <2> QED BY <2>1, <2>2
<1> QED BY <1>1, <1>3, <1>4, NothingPutOn

\* A step that writes one schedule row, whose schedule then has what it may.
LEMMA OneRowHolds ==
  ASSUME TypeOK, Held, NEW w \in Worker, ~At(w, "takeBack"), NEW e, Become(w, e), NEW s \in Schedule,
         \A x \in Schedule \ {s} : sched'[x] = sched[x] /\ PutsNone(x), HeldBy(s)'
  PROVE  Held'
<1> SUFFICES ASSUME NEW x \in Schedule, x # s PROVE HeldBy(x)'
  BY DEF Held
<1> QED BY HeldByStays, OthersTakeOver

LEMMA StopHolds ==
  ASSUME OneRequest, Inv, TypeOK, Held, NEW w \in Worker, Stop(w)
  PROVE  Held'
<1> DEFINE t == task[w]
           s == t.schedule
<1>1. t.pc = "stop" /\ ~At(w, "takeBack") /\ Works(w)
  BY DEF Stop, At, Works
<1>2. s \in Schedule /\ sched[s] \in ScheduleRow /\ sched[s].current \in Standing(s)
  BY <1>1, InCharge DEF WithSchedule
<1>3. CASE Running(s)
  <2>1. match' = Switched({}, OffCurrent(s)) /\ Become(w, Resumed(t))
    BY <1>3 DEF Stop
  <2>2. PICK code : sched' = [sched EXCEPT ![s] = Stopped(@, code)]
    BY <1>3 DEF Stop
  <2>3. sched'[s].status # "running" /\ \A x \in Schedule \ {s} : sched'[x] = sched[x]
    <3>1. Stopped(sched[s], code).status = "inactive"
      BY <1>2 DEF Stopped, ScheduleRow
    <3> QED BY <1>2, <2>2, <3>1 DEF TypeOK
  <2>4. \A m \in Match : match'[m].active => match[m].active /\ m \notin OffCurrent(s)
    <3>1. \A m \in Match : match'[m].active => m \in {} \/ (match[m].active /\ m \notin OffCurrent(s))
      BY <2>1, SwitchedRow
    <3> QED BY <3>1
  <2>5. Active(MatchesOf(s)) \subseteq {sched[s].current}
    BY <1>1, <1>2, <1>3, WhoTakesOver DEF Held, HeldBy
  <2>6. \A m \in MatchesOf(s) : ~match'[m].active
    <3> SUFFICES ASSUME NEW m \in MatchesOf(s), match'[m].active PROVE FALSE
      OBVIOUS
    <3>1. m \in Match /\ match[m].active /\ m \notin OffCurrent(s)
      BY <1>2, <2>4, EntryType
    <3>2. m = sched[s].current /\ m # None
      BY <2>5, <3>1, NamesAssumption DEF Active
    <3> QED BY <3>1, <3>2 DEF OffCurrent, Active
  <2>7. \A x \in Schedule : Running(x)' => x # s
    BY <2>3 DEF Running
  <2>8. \A x : x = s => HeldBy(x)'
    BY <1>2, <2>6, <2>7 DEF HeldBy, Active, MatchesOf
  <2>9. \A x \in Schedule \ {s} : PutsNone(x)
    BY <2>4, EntryType DEF PutsNone
  <2> QED BY <1>1, <1>2, <2>1, <2>3, <2>8, <2>9, OneRowHolds
<1>4. CASE ~Running(s)
  BY <1>1, <1>4, NoMatchMoved DEF Stop, Answer, MovesNoMatch
<1> QED BY <1>3, <1>4

LEMMA InterruptHolds ==
  ASSUME OneRequest, Inv, TypeOK, Held, NEW w \in Worker, InterruptCompleted(w)
  PROVE  Held'
<1> DEFINE t == task[w]
           s == t.schedule
<1>1. t.pc = "interrupt" /\ ~At(w, "takeBack") /\ UNCHANGED match
  BY DEF InterruptCompleted, At
<1>2. s \in Schedule
  BY <1>1, InCharge DEF WithSchedule
<1>3. CASE sched[s].status = "completed"
  <2>1. sched' = [sched EXCEPT ![s] = Interrupted(@, t.match)] /\ Become(w, Resumed(t))
    BY <1>3 DEF InterruptCompleted
  <2>2. sched'[s].status # "running" /\ \A x \in Schedule \ {s} : sched'[x] = sched[x] /\ PutsNone(x)
    BY <1>1, <1>2, <2>1 DEF TypeOK, Interrupted, PutsNone
  <2>3. ByHand \/ Active(MatchesOf(s)) = {}
    BY <1>2, <1>3 DEF Held, HeldBy, Running
  <2>4. \A x : x = s => HeldBy(x)'
    BY <1>1, <2>2, <2>3 DEF HeldBy, Running, ByHand, Active, MatchesOf
  <2> QED BY <1>1, <1>2, <2>1, <2>2, <2>4, OneRowHolds
<1>4. CASE sched[s].status # "completed"
  BY <1>1, <1>4, NoMatchMoved DEF InterruptCompleted, Answer, MovesNoMatch
<1> QED BY <1>3, <1>4

\* The UPDATE of an edit finds the schedule not running, and that of a start
\* leaves it to be taken over.
LEMMA UpdateHolds ==
  ASSUME OneRequest, Inv, TypeOK, LockDiscipline, Remembers, Held, NEW w \in Worker, UpdateSchedule(w)
  PROVE  Held'
<1> DEFINE t == task[w]
           s == t.schedule
           e == IF t.cmd = "start" THEN [Idle EXCEPT !.pc = "takeBack", !.cmd = t.cmd, !.schedule = s] ELSE Idle
<1>1. t.pc = "update" /\ ~At(w, "takeBack") /\ UNCHANGED match /\ Become(w, e)
  BY DEF UpdateSchedule, At, Answer
<1>2. s \in Schedule /\ ~Running(s)
  BY <1>1, InCharge DEF WithSchedule, Remembers, Fresh, FreshSchedule
<1>3. \A x \in Schedule \ {s} : sched'[x] = sched[x] /\ PutsNone(x)
  BY <1>1 DEF UpdateSchedule, PutsNone
<1>4. t.cmd = "start" => e.pc = "takeBack" /\ e.schedule = s
  BY DEF Idle
<1> HIDE DEF e
<1>5. task'[w] = e
  BY <1>1 DEF Become, TypeOK
<1>6. ByHand \/ Active(MatchesOf(s)) = {}
  BY <1>2 DEF Held, HeldBy
<1>7. ASSUME NEW x, x = s PROVE HeldBy(x)'
  <2>1. Active(MatchesOf(x))' = Active(MatchesOf(x))
    BY <1>1 DEF Active, MatchesOf
  <2>2. CASE Active(MatchesOf(x)) = {}
    BY <2>1, <2>2 DEF HeldBy
  <2>3. CASE ByHand /\ t.cmd = "start"
    <3>1. TakingOver(x)'
      BY <1>4, <1>5, <1>7, <2>3 DEF TakingOver, At
    <3> QED BY <2>3, <3>1 DEF HeldBy, ByHand
  <2>4. CASE ByHand /\ t.cmd # "start"
    <3>1. ~Running(x)'
      BY <1>2, <1>7, <2>4, ArchiveRunsNothing
    <3> QED BY <2>4, <3>1 DEF HeldBy, ByHand
  <2> QED BY <1>6, <1>7, <2>2, <2>3, <2>4
<1> QED BY <1>1, <1>2, <1>3, <1>7, OneRowHolds

LEMMA SettleHolds ==
  ASSUME OneRequest, Inv, TypeOK, LockDiscipline, Remembers, Held, NEW w \in Worker, Settle(w)
  PROVE  Held'
<1> DEFINE t == task[w]
<1>1. /\ t.pc = "settle" /\ ~At(w, "takeBack") /\ Works(w) /\ match' = Switched(t.on, t.off)
      /\ sched' = [sched EXCEPT ![t.schedule] = t.srow] /\ Become(w, Resumed(t))
  BY DEF Settle, At, Works
<1> SUFFICES ASSUME NEW s, s = t.schedule PROVE Held'
  OBVIOUS
<1>2. s \in Schedule /\ sched[s] \in ScheduleRow /\ sched[s].current \in Standing(s)
  BY <1>1, InCharge DEF WithSchedule
<1>3. sched'[s] = t.srow /\ \A x \in Schedule \ {s} : sched'[x] = sched[x]
  BY <1>1, <1>2 DEF TypeOK
<1>4. Running(s)
  BY <1>1 DEF LockDiscipline, HolderWalksOn, WalksOn, At
<1>5. Active(MatchesOf(s)) \subseteq {sched[s].current}
  BY <1>1, <1>2, <1>4, WhoTakesOver DEF Held, HeldBy
<1>6. /\ t.on \subseteq MatchesOf(s)
      /\ \/ /\ t.srow.status = "running"
            /\ Active(MatchesOf(s)) \ t.off \subseteq {t.srow.current} /\ t.on \subseteq {t.srow.current}
         \/ t.srow.status # "running" /\ Active(MatchesOf(s)) \subseteq t.off /\ t.on = {}
  <2>1. IsVerdict(t, s) \/ IsStop(t, s)
    BY <1>1 DEF Remembers, Fresh, FreshSchedule
  <2>2. CASE IsVerdict(t, s)
    <3>1. PICK n \in 1..Len(Entries[s]) + 1 : WalkStopsAt(s, n) /\ Writes(t) = Verdict(s, n)
      BY <2>2 DEF IsVerdict
    <3> DEFINE v == Writes(t)
    <3>2. v.srow = t.srow /\ v.on = t.on /\ v.off = t.off /\ v = Verdict(s, n)
      BY <3>1 DEF Writes
    <3> HIDE DEF v
    <3> QED BY <1>2, <1>4, <1>5, <3>1, <3>2, VerdictHolds
  <2>3. CASE IsStop(t, s)
    <3>1. Active(MatchesOf(s)) \subseteq OffCurrent(s)
      BY <1>2, <1>5, EntryType, NamesAssumption DEF OffCurrent, Active
    <3> QED BY <2>3, <3>1 DEF IsStop
  <2> QED BY <2>1, <2>2, <2>3
<1>7. \A m \in Match : match'[m].active => m \in t.on \/ (match[m].active /\ m \notin t.off)
  BY <1>1, SwitchedRow
<1>8. HeldBy(s)'
  <2>1. Active(MatchesOf(s))' \subseteq t.on \cup (Active(MatchesOf(s)) \ t.off)
    BY <1>2, <1>7, EntryType DEF Active, MatchesOf
  <2> QED BY <1>3, <1>6, <2>1 DEF HeldBy, Running
<1>9. \A x \in Schedule \ {s} : PutsNone(x)
  <2> SUFFICES ASSUME NEW x \in Schedule, x # s, NEW m \in MatchesOf(x), match'[m].active PROVE match[m].active
    BY DEF PutsNone
  <2>1. m \notin MatchesOf(s)
    BY <1>2, EntriesAssumption DEF MatchesOf
  <2> QED BY <1>6, <1>7, <2>1, EntryType
<1> QED BY <1>1, <1>2, <1>3, <1>8, <1>9, OneRowHolds

LEMMA BeginHolds ==
  ASSUME TypeOK, Held, NEW r \in Request, Begin(r)
  PROVE  Held'
<1>1. ReopenTournament(r) \/ (~At(r, "takeBack") /\ MovesNoMatch(r))
  <2>1. ASSUME NEW m \in Match, NEW cmd \in Commands, BeginCommand(r, m, cmd)
        PROVE  ~At(r, "takeBack") /\ MovesNoMatch(r)
    BY <2>1, BeginCommandGoesOn DEF BeginCommand, At, GoesOn, MovesNoMatch
  <2> QED BY <2>1 DEF Begin, BeginStart, BeginArchive, BeginStop, Close, Edits, At, MovesNoMatch
<1>2. CASE ReopenTournament(r)
  BY <1>2 DEF ReopenTournament, Held, HeldBy, Running, TakingOver, At, Active, ByHand
<1>3. CASE ~At(r, "takeBack") /\ MovesNoMatch(r)
  BY <1>3, NoMatchMoved DEF Worker
<1> QED BY <1>1, <1>2, <1>3

\* Between a start's UPDATE and what it takes over the server must not go
\* down, if somebody could have put a match on a cabinet there by hand.
HoldsTogether == MaxCrashes = 0 \/ ~ByHand

LEMMA NextHolds ==
  ASSUME OneRequest, HoldsTogether, Inv, TypeOK, LockDiscipline, Remembers, Held, [Next]_vars
  PROVE  Held'
<1>1. ASSUME NEW w \in Worker, Proceed(w) PROVE Held'
  BY <1>1, QuietStepsMoveNone, NoMatchMoved, SaveHolds, SaveTargetHolds, SettleHolds, TakeBackHolds DEF Proceed
<1>2. ASSUME NEW w \in Worker, WithLock(w) PROVE Held'
  BY <1>2, QuietStepsMoveNone, NoMatchMoved, StopHolds, InterruptHolds, UpdateHolds DEF WithLock
<1>3. CASE Restart
  <2>1. Boot \in Worker /\ ~At(Boot, "takeBack") /\ MovesNoMatch(Boot)
    BY <1>3 DEF Restart, Worker, At, MovesNoMatch
  <2> QED BY <2>1, NoMatchMoved
<1>4. CASE Crash
  <2>1. crashes < MaxCrashes /\ crashes \in 0..MaxCrashes
    BY <1>4 DEF Crash, TypeOK
  <2>2. ~ByHand
    BY <2>1, NamesAssumption DEF HoldsTogether
  <2> QED BY <1>4, <2>2, NothingPutOn DEF Crash, PutsNone
<1>5. CASE UNCHANGED vars
  BY <1>5 DEF vars, Held, HeldBy, Running, TakingOver, At, Active, ByHand
<1> QED BY <1>1, <1>2, <1>3, <1>4, <1>5, BeginHolds DEF Next

LEMMA HeldAtFirst == Init => Held
<1> SUFFICES ASSUME Init, ~ByHand, NEW s \in Schedule, NEW m \in MatchesOf(s), match[m].active PROVE FALSE
  BY DEF Init, Held, HeldBy, Running, NewSchedule, Active
<1>1. m \in Match /\ match[m] \in InitialRows[m]
  BY EntryType DEF Init
<1> QED BY <1>1 DEF ByHand

LEMMA CabinetsHeld == OneRequest /\ HoldsTogether => (Spec => []Held)
<1> SUFFICES ASSUME OneRequest, HoldsTogether PROVE Spec => []Held
  OBVIOUS
<1>1. Inv /\ TypeOK /\ LockDiscipline /\ Remembers /\ Held /\ [Next]_vars => Held'
  BY NextHolds
<1>2. Spec => []Remembers
  BY MemoryIsFresh
<1> QED BY <1>1, <1>2, HeldAtFirst, Invariant, TypeCorrect, LockHolds, PTL DEF Spec

(***************************************************************************)
(* "A schedule holds one active match at a time and decides which"         *)
(* (schedule.commands.ts, start), for requests that come one after         *)
(* another: a running schedule has no match on a cabinet but its current   *)
(* one.  The server may go down at any step unless matches are activated   *)
(* by hand: between the UPDATE of a start and its deactivateEveryMatch a   *)
(* crash leaves those on their cabinets, and the bootstrap recalculates    *)
(* without taking them over.                                               *)
(***************************************************************************)
THEOREM OneMatchActive == OneRequest /\ HoldsTogether => (Spec => []OneActiveMatch)
<1> SUFFICES ASSUME OneRequest, HoldsTogether PROVE Spec => []OneActiveMatch
  OBVIOUS
<1>1. Held => OneActiveMatch
  BY DEF Held, HeldBy, OneActiveMatch
<1> QED BY <1>1, CabinetsHeld, PTL

(***************************************************************************)
(* A schedule that does not run has left no match on a cabinet, for        *)
(* requests that come one after another and nobody who activates by hand,  *)
(* also when the server goes down at any step (schedule.runner.ts, stop    *)
(* and deactivateCurrent).                                                 *)
(***************************************************************************)
THEOREM StopClearsCabinets == OneRequest /\ ~ByHand => (Spec => []StopLeavesNoneActive)
<1> SUFFICES ASSUME OneRequest, ~ByHand PROVE Spec => []StopLeavesNoneActive
  OBVIOUS
<1>1. Held => StopLeavesNoneActive
  BY DEF Held, HeldBy, StopLeavesNoneActive
<1>2. Spec => []Held
  BY CabinetsHeld DEF HoldsTogether
<1> QED BY <1>1, <1>2, PTL

-----------------------------------------------------------------------------
(***************************************************************************)
(* Where a schedule stands.                                                *)
(***************************************************************************)

\* A recalculation would write what is written.
Stands(s) ==
  \A n \in 1..Len(Entries[s]) + 1 :
    WalkStopsAt(s, n) => Verdict(s, n) = [srow |-> sched[s], on |-> {}, off |-> {}]

\* A schedule stands where it stood when nothing changed that its walk sees.
LEMMA StandsStill ==
  ASSUME TypeOK, WalkSeesNothing, NEW s \in Schedule, Stands(s)
  PROVE  Stands(s)'
<1>1. sched[s].current \in Standing(s) /\ sched'[s] = sched[s]
  BY DEF TypeOK, WalkSeesNothing
<1>2. \A n \in 1..Len(Entries[s]) + 1 : (WalkStopsAt(s, n)' <=> WalkStopsAt(s, n)) /\ Verdict(s, n)' = Verdict(s, n)
  BY <1>1, SameVerdict
<1> QED BY <1>1, <1>2 DEF Stands

\* The current match of a schedule that stands is not one its walk would pass.
LEMMA CurrentNotPassed ==
  ASSUME TypeOK, NEW s \in Schedule, Running(s), Stands(s), NEW n \in 1..Len(Entries[s]) + 1, WalkStopsAt(s, n)
  PROVE  /\ n <= Len(Entries[s]) /\ sched[s].current = Entries[s][n]
         /\ ~Passed(match[sched[s].current])
<1>1. sched[s] \in ScheduleRow /\ DOMAIN Entries[s] = 1..Len(Entries[s])
  BY EntryType DEF TypeOK
<1>2. Verdict(s, n) = [srow |-> sched[s], on |-> {}, off |-> {}]
  BY DEF Stands
<1>3. Verdict(s, n).srow = sched[s]
  BY <1>2
<1>4. CASE n > Len(Entries[s])
  <2>1. Finished(sched[s]) = sched[s]
    BY <1>3, <1>4 DEF Verdict
  <2>2. Finished(sched[s]).status = "completed"
    BY <1>1 DEF Finished, ScheduleRow
  <2> QED BY <2>1, <2>2 DEF Running
<1>5. CASE ~(n > Len(Entries[s]))
  <2> DEFINE m == Entries[s][n]
             why == ReasonToWait(s, m, Active(WalkedPast(s, n)))
  <2>1. WaitingAt(sched[s], m, why) = sched[s]
    BY <1>3, <1>5 DEF Verdict
  <2> HIDE DEF m, why
  <2>2. sched[s].current = m
    BY <1>1, <2>1 DEF WaitingAt, ScheduleRow
  <2>3. ~Passed(match[m])
    BY <1>1, <1>5 DEF m, WalkStopsAt
  <2> QED BY <1>5, <2>2, <2>3, EntryType DEF m
<1> QED BY <1>4, <1>5

\* A save that owes no recalculation leaves a schedule standing: the cabinet
\* it may take a match off is not the one of the current match.
LEMMA SaveStands ==
  ASSUME TypeOK, NEW s \in Schedule, Running(s), Stands(s), Active(Match) \subseteq {sched[s].current},
         NEW w \in Worker, task[w].match \in MatchesOf(s), ~task[w].moved, EditOf(task[w], match[task[w].match]),
         match' = [match EXCEPT ![task[w].match] = task[w].row], UNCHANGED sched
  PROVE  Stands(s)'
<1> DEFINE m == task[w].match
           row == task[w].row
<1>1. m \in Match /\ sched[s].current \in Standing(s) /\ row \in Row
  BY EntryType DEF TypeOK, Handler, Task
<1>2. match'[m] = row /\ \A o \in Match \ {m} : match'[o] = match[o]
  BY <1>1 DEF TypeOK
<1>3. AlikeToWalk(row, match[m]) /\ (row.active => match[m].active)
      /\ (row.active = match[m].active \/ Completed(match[m]) \/ ~Reached(m))
  BY DEF EditOf
<1> HIDE DEF row
<1>4. \A o \in Match : AlikeToWalk(match'[o], match[o])
  BY <1>2, <1>3 DEF AlikeToWalk
<1>5. CASE row.active = match[m].active
  <2>1. WalkSeesNothing
    BY <1>2, <1>4, <1>5 DEF WalkSeesNothing
  <2> QED BY <2>1, StandsStill
<1>6. CASE row.active # match[m].active
  <2>1. match[m].active
    BY <1>1, <1>3, <1>6 DEF TypeOK, Row
  <2>2. m = sched[s].current
    BY <1>1, <2>1 DEF Active
  <2>3. PICK i \in DOMAIN Entries[s] : m = Entries[s][i]
    BY DEF MatchesOf
  <2>4. Pos(s, m) \in Nat
    BY <2>3, EntryType
  <2>5. Reached(m)
    BY <2>2, <2>4 DEF Reached
  <2>6. Passed(match[m])
    BY <1>3, <1>6, <2>5 DEF Passed
  <2>7. \A n \in 1..Len(Entries[s]) + 1 : ~WalkStopsAt(s, n)
    BY <2>2, <2>6, CurrentNotPassed
  <2>8. \A n \in 1..Len(Entries[s]) + 1 : ~WalkStopsAt(s, n)'
    BY <1>1, <1>4, <2>7, SameStops DEF AlikeToWalk
  <2> QED BY <2>8 DEF Stands
<1> QED BY <1>5, <1>6

\* A recalculation that has just been written would be written again.
LEMMA VerdictStands ==
  ASSUME TypeOK, NEW s \in Schedule, Running(s), Active(MatchesOf(s)) \subseteq {sched[s].current},
         NEW n \in 1..Len(Entries[s]) + 1, WalkStopsAt(s, n), NEW v, v = Verdict(s, n),
         match' = Switched(v.on, v.off), sched'[s] = v.srow, v.srow.status = "running"
  PROVE  Stands(s)'
<1> DEFINE m == Entries[s][n]
           off == Active(WalkedPast(s, n))
           why == ReasonToWait(s, m, off)
<1>1. /\ DOMAIN Entries[s] = 1..Len(Entries[s]) /\ Len(Entries[s]) \in Nat /\ MatchesOf(s) \subseteq Match
      /\ \A i \in DOMAIN Entries[s] : Entries[s][i] \in Match /\ Pos(s, Entries[s][i]) = i
  BY EntryType
<1>2. sched[s] \in ScheduleRow /\ sched[s].current \in Standing(s)
  BY DEF TypeOK
<1>3. n <= Len(Entries[s])
  <2>1. Finished(sched[s]).status = "completed"
    BY <1>2 DEF Finished, ScheduleRow
  <2> QED BY <1>1, <2>1 DEF Verdict
<1>4. n \in DOMAIN Entries[s] /\ m \in Match /\ m \in MatchesOf(s) /\ m # None /\ Pos(s, m) = n
  BY <1>1, <1>3, NamesAssumption DEF MatchesOf
<1>5. v.srow = WaitingAt(sched[s], m, why) /\ v.on = (IF why = None THEN {m} \ Active(Match) ELSE {}) /\ v.off = off
  BY <1>1, <1>3 DEF Verdict
<1>6. /\ \A i \in WalkFrom(s)..n - 1 : i \in DOMAIN Entries[s]
      /\ WalkFrom(s) \in Nat \ {0} /\ n \in WalkFrom(s)..Len(Entries[s]) + 1 /\ ~Passed(match[m])
  BY <1>2, <1>4, WalkType DEF WalkStopsAt
<1>7. m \notin off
  <2>1. \A i \in WalkFrom(s)..n - 1 : Entries[s][i] # m
    <3> SUFFICES ASSUME NEW i \in WalkFrom(s)..n - 1, Entries[s][i] = m PROVE FALSE
      OBVIOUS
    <3>1. i \in DOMAIN Entries[s] /\ i # n
      BY <1>1, <1>4, <1>6
    <3> QED BY <1>1, <1>4, <3>1
  <2>2. m \notin WalkedPast(s, n)
    BY <2>1 DEF WalkedPast
  <2> QED BY <2>2 DEF Active
<1>8. \A o \in Active(MatchesOf(s)) : o # m => o \in off
  <2> SUFFICES ASSUME NEW o \in Active(MatchesOf(s)), o # m PROVE o \in off
    OBVIOUS
  <2>1. o = sched[s].current /\ o \in MatchesOf(s) /\ match[o].active
    BY DEF Active
  <2>2. PICK i \in DOMAIN Entries[s] : o = Entries[s][i]
    BY <2>1 DEF MatchesOf
  <2>3. WalkFrom(s) = i
    BY <1>1, <2>1, <2>2, NamesAssumption DEF WalkFrom
  <2>4. i \in WalkFrom(s)..n - 1
    BY <1>1, <1>6, <2>2, <2>3
  <2> QED BY <2>1, <2>2, <2>4 DEF WalkedPast, Active
<1>9. match[m].active => m = sched[s].current
  BY <1>4 DEF Active
<1> HIDE DEF off
<1>10. \A o \in Match : /\ match'[o].active <=> (o \in v.on \/ (match[o].active /\ o \notin off))
                        /\ match'[o].state = match[o].state /\ match'[o].players = match[o].players
                        /\ match'[o].rounds = match[o].rounds
  <2>1. \A o \in Match : /\ match'[o].active <=> (o \in v.on \/ (match[o].active /\ o \notin v.off))
                         /\ match'[o].state = match[o].state /\ match'[o].players = match[o].players
                         /\ match'[o].rounds = match[o].rounds
    BY SwitchedRow
  <2> QED BY <1>5, <2>1
<1>11. \A o \in Match : Completed(match'[o]) = Completed(match[o]) /\ Passed(match'[o]) = Passed(match[o])
  BY <1>10 DEF Completed, Passed, AwaitingCommit
<1>12. sched'[s].current = m /\ WalkFrom(s)' = n
  <2> HIDE DEF m, why
  <2>1. v.srow.current = m
    BY <1>2, <1>5 DEF WaitingAt, ScheduleRow
  <2> QED BY <1>4, <2>1 DEF WalkFrom, Pos
<1>13. \A o \in Match \ {m} : match'[o].active <=> match[o].active /\ o \notin off
  BY <1>5, <1>10
<1>14. ASSUME NEW o, o = m, NEW none, none = {} PROVE ReasonToWait(s, o, none)' = why
  <2>1. Blockers(o, none)' = Blockers(m, off)
    BY <1>4, <1>14, <1>10, <1>13 DEF Blockers, Active
  <2>2. {rule \in RulesInto(o) : ~Completed(match[rule.source])}'
          = {rule \in RulesInto(m) : ~Completed(match[rule.source])}
    BY <1>11, <1>14, RulesAssumption DEF RulesInto
  <2>3. match'[m].players = match[m].players /\ match'[m].rounds = match[m].rounds
    BY <1>4, <1>10
  <2>4. ~(match[m].active /\ sched[s].current # m) /\ ~(match'[m].active /\ sched'[s].current # m)
    BY <1>9, <1>12
  <2> QED BY <1>14, <2>1, <2>2, <2>3, <2>4 DEF ReasonToWait
<1>15. why = None => match'[m].active
  BY <1>4, <1>5, <1>7, <1>10 DEF Active
<1> HIDE DEF why, m
<1>16. WaitingAt(sched'[s], m, why) = sched'[s]
  BY <1>2, <1>5 DEF WaitingAt, ScheduleRow
<1> SUFFICES ASSUME NEW k \in 1..Len(Entries[s]) + 1, WalkStopsAt(s, k)'
             PROVE  Verdict(s, k)' = [srow |-> sched'[s], on |-> {}, off |-> {}]
  BY DEF Stands
<1>17. k = n
  <2>1. k \in n..Len(Entries[s]) + 1 /\ \A i \in n..k - 1 : Passed(match'[Entries[s][i]])
    BY <1>12 DEF WalkStopsAt
  <2>2. ~Passed(match'[Entries[s][n]])
    BY <1>4, <1>6, <1>11 DEF m
  <2>3. ~(n \in n..k - 1)
    BY <2>1, <2>2
  <2> QED BY <1>1, <2>1, <2>3
<1>18. Active(WalkedPast(s, k))' = {}
  <2>1. WalkedPast(s, k)' = {}
    BY <1>12, <1>17 DEF WalkedPast
  <2> QED BY <2>1 DEF Active
<1>19. ReasonToWait(s, Entries[s][k], Active(WalkedPast(s, k)))' = why
  BY <1>14, <1>17, <1>18 DEF m
<1>20. Verdict(s, k)' = [srow |-> WaitingAt(sched'[s], m, why),
                         on |-> IF why = None THEN {m} \ Active(Match)' ELSE {}, off |-> {}]
  <2>1. ~(k > Len(Entries[s])) /\ Entries[s][k] = m
    BY <1>1, <1>3, <1>17 DEF m
  <2>2. WaitingAt(sched[s], Entries[s][k], ReasonToWait(s, Entries[s][k], Active(WalkedPast(s, k))))'
          = WaitingAt(sched'[s], m, why)
    BY <1>19, <2>1 DEF WaitingAt
  <2> QED BY <1>18, <1>19, <2>1, <2>2 DEF Verdict
<1>21. why = None => {m} \ Active(Match)' = {}
  BY <1>4, <1>15 DEF Active
<1> QED BY <1>16, <1>20, <1>21

\* One schedule that plays every match of the tournament.
OneList == OneSchedule /\ \A m \in Match, s \in Schedule : m \in MatchesOf(s)

\* This handler has a recalculation of s to come before it answers.
Owes(t, s) ==
  \/ t.pc \in {"takeBack", "recalculate", "settle"}
  \/ (t.pc = "advancing" \/ (t.pc = "target" /\ t.then = "advancing")) /\ t.moved
  \/ t.pc = "sweep" /\ t.cmd = "boot" /\ s \in t.sweep

\* A running schedule stands where it should, or a handler is about to see to it.
Abides == BootOwesAll \/ \A s \in RunningSchedules : Stands(s) \/ \E w \in Worker : Owes(task[w], s)

\* The one at work is the one that owes.
LEMMA WhoOwes ==
  ASSUME OneRequest, Inv, Abides, NEW w \in Worker, Works(w), NEW s \in RunningSchedules
  PROVE  Stands(s) \/ Owes(task[w], s)
<1>1. ~BootOwesAll
  BY DEF Works, Inv, Shifts, BootOwesAll, At, Worker
<1>2. \A v \in Worker : Owes(task[v], s) => task[v].pc # "idle"
  BY DEF Owes
<1>3. \A v \in Worker : Owes(task[v], s) => v = w
  BY <1>2, NobodyElse DEF Inv
<1> QED BY <1>1, <1>3 DEF Abides

\* A step that writes nothing, and forgets no recalculation.
LEMMA NothingForgotten ==
  ASSUME OneRequest, Inv, TypeOK, Abides, NEW w \in Worker, Works(w), UNCHANGED <<match, sched>>,
         \A s \in RunningSchedules : Owes(task[w], s) => Owes(task'[w], s)
  PROVE  Abides'
<1> SUFFICES ASSUME NEW s \in RunningSchedules' PROVE Stands(s)' \/ Owes(task'[w], s)
  BY DEF Abides
<1>1. s \in RunningSchedules /\ s \in Schedule /\ WalkSeesNothing
  BY NothingSeen DEF RunningSchedules, Running
<1> QED BY <1>1, WhoOwes, StandsStill

\* A step after which the only schedule does not run, or is to be recalculated.
LEMMA SeenTo ==
  ASSUME NEW w \in Worker, \A s \in Schedule : Running(s)' => Owes(task'[w], s)
  PROVE  Abides'
BY DEF Abides, RunningSchedules

\* The steps of a command on a match that save nothing.
LEMMA MatchStepsAbide ==
  ASSUME OneRequest, OneList, Inv, TypeOK, Abides, NEW w \in Worker,
         \/ GuardSchedule(w) \/ Load(w) \/ ManualActivation(w) \/ Reverted(w)
         \/ DiffSchedule(w) \/ StopTournament(w)
  PROVE  Abides'
<1>1. /\ task[w].pc \in {"guard", "load", "manual", "reverting", "diff", "closing"}
      /\ UNCHANGED <<match, sched>> /\ Works(w)
  BY DEF GuardSchedule, Load, ManualActivation, Reverted, DiffSchedule, StopTournament, At, Works
<1>2. \A s : ~Owes(task[w], s)
  BY <1>1 DEF Owes
<1> QED BY <1>1, <1>2, NothingForgotten

LEMMA ApplyRuleAbides ==
  ASSUME OneRequest, Inv, TypeOK, Abides, NEW w \in Worker, ApplyRule(w)
  PROVE  Abides'
<1> DEFINE t == task[w]
           rest(rule) == [t EXCEPT !.rules = @ \ {rule}]
           wrote(rule, draft) == [rest(rule) EXCEPT !.pc = "target", !.then = t.pc,
                                                    !.target = rule.target, !.draft = draft]
<1>1. t.pc \in {"reverting", "advancing"} /\ UNCHANGED <<match, sched>> /\ Works(w)
  BY DEF ApplyRule, At, Works
<1>2. t \in Task
  BY <1>1, InHand DEF WithMatch
<1>3. (\E rule : Become(w, rest(rule))) \/ (\E rule, draft : Become(w, wrote(rule, draft)))
  <2> HIDE DEF t
  <2> QED BY DEF ApplyRule, t
<1>4. \A e, rule : e = rest(rule) => e.pc = t.pc /\ e.moved = t.moved
  BY <1>2 DEF Task
<1>5. \A e, rule, draft : e = wrote(rule, draft) => e.pc = "target" /\ e.then = t.pc /\ e.moved = t.moved
  BY <1>2 DEF Task
<1>6. \A s : Owes(t, s) => t.pc = "advancing" /\ t.moved
  BY <1>1 DEF Owes
<1> HIDE DEF rest, wrote
<1>7. PICK e : Become(w, e) /\ e.moved = t.moved /\ (e.pc = t.pc \/ (e.pc = "target" /\ e.then = t.pc))
  BY <1>3, <1>4, <1>5
<1>8. task'[w] = e
  BY <1>7 DEF Become, TypeOK
<1>9. \A s : Owes(t, s) => Owes(task'[w], s)
  BY <1>6, <1>7, <1>8 DEF Owes
<1> QED BY <1>1, <1>9, NothingForgotten

\* The only schedule plays the match that was saved, and is recalculated for it.
LEMMA ForScheduleOwes ==
  ASSUME OneList, TypeOK, NEW w \in Worker, task[w] \in Task, NEW m \in Match, NEW then \in Return,
         Become(w, ForSchedule(task[w], m, "recalculate", then)), NEW s \in Schedule
  PROVE  Owes(task'[w], s)
<1> DEFINE e == ForSchedule(task[w], m, "recalculate", then)
<1>1. m \in MatchesOf(s)
  BY DEF OneList
<1>2. e.pc = "recalculate"
  <2>1. "recalculate" \in PC /\ e = ForSchedule(task[w], m, "recalculate", then)
    BY DEF PC
  <2> HIDE DEF e
  <2> QED BY <1>1, <2>1, ForScheduleTask
<1>3. Become(w, e)
  OBVIOUS
<1> HIDE DEF e
<1>4. task'[w] = e
  BY <1>3 DEF Become, TypeOK
<1> QED BY <1>2, <1>4 DEF Owes

LEMMA SavedAbides ==
  ASSUME OneRequest, OneList, Inv, TypeOK, Abides, NEW w \in Worker, Saved(w)
  PROVE  Abides'
<1> DEFINE t == task[w]
<1>1. t.pc = "advancing" /\ UNCHANGED <<match, sched>> /\ Works(w)
  BY DEF Saved, At, Works
<1>2. t \in Task /\ t.match \in Match
  BY <1>1, InHand DEF WithMatch
<1>3. CASE t.moved
  <2>1. Become(w, ForSchedule(t, t.match, "recalculate", "idle"))
    BY <1>3 DEF Saved
  <2> QED BY <1>2, <2>1, ForScheduleOwes, SeenTo DEF Return
<1>4. CASE ~t.moved
  <2>1. \A s : ~Owes(t, s)
    BY <1>1, <1>4 DEF Owes
  <2> QED BY <1>1, <2>1, NothingForgotten
<1> QED BY <1>3, <1>4

LEMMA SaveTargetAbides ==
  ASSUME OneList, TypeOK, NEW w \in Worker, SaveTarget(w)
  PROVE  Abides'
<1>1. /\ task[w] \in Task /\ task[w].target \in Match /\ task[w].then \in Return
      /\ Become(w, ForSchedule(task[w], task[w].target, "recalculate", task[w].then))
  BY DEF SaveTarget, At, TypeOK, Handler, WellFormed, Task
<1> QED BY <1>1, ForScheduleOwes, SeenTo

LEMMA SaveAbides ==
  ASSUME OneRequest, OneList, Inv, TypeOK, Remembers, Held, Abides, NEW w \in Worker, Save(w)
  PROVE  Abides'
<1> DEFINE t == task[w]
           rules == IF t.cmd = "commit" THEN RulesFrom(t.match) ELSE {}
           e == [t EXCEPT !.pc = "advancing", !.rules = rules]
<1>1. /\ t.pc = "save" /\ match' = [match EXCEPT ![t.match] = t.row] /\ UNCHANGED sched
      /\ Works(w) /\ ~At(w, "takeBack") /\ Become(w, e) /\ Fresh(t)
  BY DEF Save, At, Works, Remembers
<1>2. t \in Task /\ t.match \in Match
  BY <1>1, InHand DEF WithMatch
<1> HIDE DEF rules
<1>3. e.pc = "advancing" /\ e.moved = t.moved
  BY <1>2 DEF Task
<1> HIDE DEF e
<1>4. task'[w] = e
  BY <1>1 DEF Become, TypeOK
<1>5. CASE t.moved
  BY <1>3, <1>4, <1>5, SeenTo DEF Owes
<1>6. CASE ~t.moved
  <2> SUFFICES ASSUME NEW s \in Schedule, Running(s)' PROVE Stands(s)'
    BY DEF Abides, RunningSchedules
  <2>1. Running(s) /\ s \in RunningSchedules
    BY <1>1 DEF Running, RunningSchedules
  <2>2. EditOf(t, match[t.match])
    BY <1>1, <2>1 DEF Fresh, FreshMatch
  <2>3. Stands(s)
    BY <1>1, <2>1, WhoOwes DEF Owes
  <2>4. Active(Match) \subseteq {sched[s].current}
    BY <1>1, <2>1, WhoTakesOver DEF Held, HeldBy, OneList, Active
  <2> QED BY <1>1, <1>2, <1>6, <2>1, <2>2, <2>3, <2>4, SaveStands DEF OneList
<1> QED BY <1>5, <1>6

LEMMA SweepAbides ==
  ASSUME OneRequest, OneList, Inv, TypeOK, Abides, NEW w \in Worker, Sweep(w)
  PROVE  Abides'
<1> DEFINE t == task[w]
           pc == IF t.cmd = "boot" THEN "recalculate" ELSE "stop"
           e(s) == [t EXCEPT !.pc = pc, !.then = "sweep", !.schedule = s, !.sweep = @ \ {s}]
<1>1. t.pc = "sweep" /\ UNCHANGED <<match, sched>> /\ Works(w) /\ t \in Task
  BY DEF Sweep, At, Works, TypeOK, Handler
<1>2. \A s : Owes(t, s) => t.cmd = "boot" /\ s \in t.sweep
  BY <1>1 DEF Owes
<1>3. CASE t.sweep = {}
  BY <1>1, <1>2, <1>3, NothingForgotten
<1>4. CASE t.sweep # {}
  <2>1. PICK s : Become(w, e(s))
    BY <1>4 DEF Sweep
  <2>2. e(s).pc = pc
    BY <1>1 DEF Task
  <2>3. task'[w].pc = pc
    <3> HIDE DEF e
    <3> QED BY <2>1, <2>2 DEF Become, TypeOK
  <2>4. \A x : Owes(t, x) => Owes(task'[w], x)
    BY <1>2, <2>3 DEF Owes
  <2> QED BY <1>1, <2>4, NothingForgotten
<1> QED BY <1>3, <1>4

LEMMA RecalculateAbides ==
  ASSUME OneRequest, OneList, Inv, TypeOK, Abides, NEW w \in Worker, Recalculate(w)
  PROVE  Abides'
<1> DEFINE t == task[w]
           s == t.schedule
           holding(v) == [t EXCEPT !.pc = "settle", !.srow = v.srow, !.on = v.on, !.off = v.off]
<1>1. t.pc = "recalculate" /\ UNCHANGED <<match, sched>>
  BY DEF Recalculate, At
<1>2. t \in Task /\ s \in Schedule
  BY <1>1, InCharge DEF WithSchedule
<1>3. CASE Running(s)
  <2>1. \E v : Become(w, holding(v))
    BY <1>3 DEF Recalculate
  <2>2. \A v : holding(v).pc = "settle"
    BY <1>2 DEF Task
  <2> HIDE DEF holding
  <2>3. task'[w].pc = "settle"
    BY <2>1, <2>2 DEF Become, TypeOK
  <2> QED BY <2>3, SeenTo DEF Owes
<1>4. CASE ~Running(s)
  BY <1>1, <1>2, <1>4, SeenTo DEF OneList, OneSchedule, Running
<1> QED BY <1>3, <1>4

LEMMA SettleAbides ==
  ASSUME OneRequest, OneList, Inv, TypeOK, LockDiscipline, Remembers, Held, NEW w \in Worker, Settle(w)
  PROVE  Abides'
<1> DEFINE t == task[w]
<1>1. /\ t.pc = "settle" /\ ~At(w, "takeBack") /\ Works(w) /\ match' = Switched(t.on, t.off)
      /\ sched' = [sched EXCEPT ![t.schedule] = t.srow]
  BY DEF Settle, At, Works
<1> SUFFICES ASSUME NEW s, s = t.schedule PROVE Abides'
  OBVIOUS
<1>2. s \in Schedule
  BY <1>1, InCharge DEF WithSchedule
<1>3. sched'[s] = t.srow
  BY <1>1, <1>2 DEF TypeOK
<1>4. Running(s)
  BY <1>1 DEF LockDiscipline, HolderWalksOn, WalksOn, At
<1>5. Active(MatchesOf(s)) \subseteq {sched[s].current}
  BY <1>1, <1>2, <1>4, WhoTakesOver DEF Held, HeldBy
<1>6. t.srow.status = "running" => Stands(s)'
  <2> SUFFICES ASSUME t.srow.status = "running" PROVE Stands(s)'
    OBVIOUS
  <2>1. IsVerdict(t, s)
    BY <1>1 DEF Remembers, Fresh, FreshSchedule, IsStop
  <2>2. PICK n \in 1..Len(Entries[s]) + 1 : WalkStopsAt(s, n) /\ Writes(t) = Verdict(s, n)
    BY <2>1 DEF IsVerdict
  <2> DEFINE v == Writes(t)
  <2>3. v.srow = t.srow /\ v.on = t.on /\ v.off = t.off /\ v = Verdict(s, n)
    BY <2>2 DEF Writes
  <2> HIDE DEF v
  <2>4. match' = Switched(v.on, v.off) /\ sched'[s] = v.srow /\ v.srow.status = "running"
    BY <1>1, <1>3, <2>3
  <2> QED BY <1>2, <1>4, <1>5, <2>2, <2>3, <2>4, VerdictStands
<1>7. \A x \in Schedule : x = s
  BY <1>2 DEF OneList, OneSchedule
<1>8. \A x \in RunningSchedules' : Stands(x)'
  <2> SUFFICES ASSUME NEW x \in Schedule, Running(x)' PROVE Stands(x)'
    BY DEF RunningSchedules
  <2>1. x = s
    BY <1>7
  <2>2. Stands(s)'
    BY <1>3, <1>6, <2>1 DEF Running
  <2> QED BY <2>1, <2>2 DEF Stands
<1> QED BY <1>8 DEF Abides

LEMMA StopAbides ==
  ASSUME OneRequest, OneList, Inv, TypeOK, NEW w \in Worker, Stop(w)
  PROVE  Abides'
<1> DEFINE s == task[w].schedule
<1>1. s \in Schedule /\ sched[s] \in ScheduleRow
  BY InCharge DEF WithSchedule, Stop, At
<1>2. sched'[s].status # "running"
  <2>1. CASE Running(s)
    <3>1. PICK code : sched' = [sched EXCEPT ![s] = Stopped(@, code)]
      BY <2>1 DEF Stop
    <3>2. Stopped(sched[s], code).status = "inactive"
      BY <1>1 DEF Stopped, ScheduleRow
    <3> QED BY <1>1, <3>1, <3>2 DEF TypeOK
  <2>2. CASE ~Running(s)
    BY <2>2 DEF Stop, Running
  <2> QED BY <2>1, <2>2
<1> QED BY <1>1, <1>2, SeenTo DEF OneList, OneSchedule, Running

LEMMA InterruptAbides ==
  ASSUME OneRequest, OneList, Inv, TypeOK, Abides, NEW w \in Worker, InterruptCompleted(w)
  PROVE  Abides'
<1> DEFINE t == task[w]
           s == t.schedule
<1>1. s \in Schedule
  BY InCharge DEF WithSchedule, InterruptCompleted, At
<1>2. CASE sched[s].status = "completed"
  <2>1. sched' = [sched EXCEPT ![s] = Interrupted(@, t.match)]
    BY <1>2 DEF InterruptCompleted
  <2>2. sched'[s].status # "running"
    BY <1>1, <2>1 DEF TypeOK, Interrupted
  <2> QED BY <1>1, <2>2, SeenTo DEF OneList, OneSchedule, Running
<1>3. CASE sched[s].status # "completed"
  <2>1. t.pc = "interrupt" /\ UNCHANGED <<match, sched>> /\ Works(w)
    BY <1>3 DEF InterruptCompleted, At, Works
  <2>2. \A x : ~Owes(t, x)
    BY <2>1 DEF Owes
  <2> QED BY <2>1, <2>2, NothingForgotten
<1> QED BY <1>2, <1>3

LEMMA UpdateAbides ==
  ASSUME OneRequest, OneList, Inv, TypeOK, LockDiscipline, Remembers, NEW w \in Worker, UpdateSchedule(w)
  PROVE  Abides'
<1> DEFINE t == task[w]
           s == t.schedule
           e == [Idle EXCEPT !.pc = "takeBack", !.cmd = t.cmd, !.schedule = s]
<1>1. t.pc = "update"
  BY DEF UpdateSchedule, At
<1>2. s \in Schedule /\ ~Running(s)
  BY <1>1, InCharge DEF WithSchedule, Remembers, Fresh, FreshSchedule
<1>3. CASE t.cmd = "start"
  <2>1. Become(w, e) /\ e.pc = "takeBack"
    BY <1>3 DEF UpdateSchedule, Idle
  <2> HIDE DEF e
  <2>2. task'[w].pc = "takeBack"
    BY <2>1 DEF Become, TypeOK
  <2> QED BY <2>2, SeenTo DEF Owes
<1>4. CASE t.cmd # "start"
  <2>1. \A x \in Schedule : x = s
    BY <1>2 DEF OneList, OneSchedule
  <2>2. \A x \in Schedule : ~Running(x)'
    BY <1>2, <1>4, <2>1, ArchiveRunsNothing
  <2> QED BY <2>2, SeenTo
<1> QED BY <1>3, <1>4

LEMMA TakeBackAbides ==
  ASSUME TypeOK, NEW w \in Worker, TakeBack(w)
  PROVE  Abides'
<1> DEFINE e == [task[w] EXCEPT !.pc = "recalculate"]
<1>1. Become(w, e) /\ e.pc = "recalculate"
  BY DEF TakeBack, TypeOK, Handler, Task
<1> HIDE DEF e
<1>2. task'[w].pc = "recalculate"
  BY <1>1 DEF Become, TypeOK
<1> QED BY <1>2, SeenTo DEF Owes

LEMMA BeginAbides ==
  ASSUME OneRequest, Inv, TypeOK, Abides, NEW r \in Request, Begin(r)
  PROVE  Abides'
<1>1. r \in Worker /\ task[r].pc = "idle" /\ up /\ UNCHANGED <<match, sched>>
  BY DEF Begin, BeginCommand, BeginStart, BeginArchive, BeginStop, Close, ReopenTournament, Edits, At,
         Admitted, Worker
<1>2. Works(r) /\ \A s : ~Owes(task[r], s)
  BY <1>1 DEF Works, Owes
<1> QED BY <1>1, <1>2, NothingForgotten

\* A server that goes down owes everything to its next bootstrap, which
\* visits whatever runs.
LEMMA SystemAbides ==
  ASSUME Inv, TypeOK, Abides, Restart \/ Crash \/ UNCHANGED vars
  PROVE  Abides'
<1>1. CASE Restart
  <2> DEFINE e == [Idle EXCEPT !.pc = "sweep", !.cmd = "boot", !.sweep = RunningSchedules]
  <2>1. e.pc = "sweep" /\ e.cmd = "boot" /\ e.sweep = RunningSchedules
    BY DEF Idle
  <2>2. Become(Boot, e) /\ UNCHANGED sched /\ Boot \in Worker
    BY <1>1 DEF Restart, Worker
  <2> HIDE DEF e
  <2>3. task'[Boot] = e
    BY <2>2 DEF Become, TypeOK
  <2>4. \A s \in Schedule : Running(s)' => Owes(task'[Boot], s)
    BY <2>1, <2>2, <2>3 DEF Owes, RunningSchedules, Running
  <2> QED BY <2>2, <2>4, SeenTo
<1>2. CASE Crash
  BY <1>2 DEF Crash, Abides, BootOwesAll, At, Idle, Worker
<1>3. CASE UNCHANGED vars
  <2>1. WalkSeesNothing /\ UNCHANGED <<sched, task, up>>
    BY <1>3, NothingSeen DEF vars
  <2>2. CASE BootOwesAll
    BY <2>1, <2>2 DEF Abides, BootOwesAll, At
  <2>3. CASE ~BootOwesAll
    <3> SUFFICES ASSUME NEW s \in Schedule, Running(s)'
                 PROVE  Stands(s)' \/ \E w \in Worker : Owes(task'[w], s)
      BY DEF Abides, RunningSchedules
    <3>1. Stands(s) \/ \E w \in Worker : Owes(task[w], s)
      BY <2>1, <2>3 DEF Abides, RunningSchedules, Running
    <3> QED BY <2>1, <3>1, StandsStill
  <2> QED BY <2>2, <2>3
<1> QED BY <1>1, <1>2, <1>3

LEMMA NextAbides ==
  ASSUME OneRequest, OneList, Inv, TypeOK, LockDiscipline, Remembers, Held, Abides, [Next]_vars
  PROVE  Abides'
<1>1. ASSUME NEW w \in Worker, Proceed(w) PROVE Abides'
  BY <1>1, MatchStepsAbide, ApplyRuleAbides, SaveTargetAbides, SaveAbides, SavedAbides, SettleAbides,
     TakeBackAbides, SweepAbides DEF Proceed
<1>2. ASSUME NEW w \in Worker, WithLock(w) PROVE Abides'
  BY <1>2, RecalculateAbides, StopAbides, InterruptAbides, UpdateAbides DEF WithLock
<1> QED BY <1>1, <1>2, BeginAbides, SystemAbides DEF Next

(***************************************************************************)
(* When every request has been answered, a running schedule stands where   *)
(* a recalculation would put it (match.commands.ts,                        *)
(* recalculateScheduleIfMoved), for requests that come one after another   *)
(* in a tournament whose matches one schedule plays; also when the server  *)
(* goes down at any step, unless matches are activated by hand.            *)
(***************************************************************************)
THEOREM StandsByItself == OneRequest /\ OneList /\ HoldsTogether => (Spec => []StandsWhereItShould)
<1> SUFFICES ASSUME OneRequest, OneList, HoldsTogether PROVE Spec => []StandsWhereItShould
  OBVIOUS
<1>1. Init => Abides
  BY DEF Init, Abides, RunningSchedules, Running, NewSchedule
<1>2. Inv /\ TypeOK /\ LockDiscipline /\ Remembers /\ Held /\ Abides /\ [Next]_vars => Abides'
  BY NextAbides
<1>3. Abides => StandsWhereItShould
  BY DEF Abides, BootOwesAll, StandsWhereItShould, Stands, Quiet, Owes, At
<1>4. Spec => []Remembers
  BY MemoryIsFresh
<1>5. Spec => []Held
  BY CabinetsHeld
<1> QED BY <1>1, <1>2, <1>3, <1>4, <1>5, Invariant, TypeCorrect, LockHolds, PTL DEF Spec

-----------------------------------------------------------------------------
(***************************************************************************)
(* Two matches on a cabinet share no player.                               *)
(***************************************************************************)

\* Nobody joins a match but before it is put on a cabinet by its schedule.
NobodyJoins == ~ByHand /\ Rules = {} /\ Commands \cap {"addEntrant", "replaceEntrants"} = {}

\* A step that puts no match on a cabinet, and nobody into one that is there.
Thins ==
  \A m \in Match : match'[m].active => match[m].active /\ match'[m].players \subseteq match[m].players

LEMMA ThinsKeeps ==
  ASSUME OneCabinetPerPlayer, Thins
  PROVE  OneCabinetPerPlayer'
BY DEF OneCabinetPerPlayer, Thins, Active

LEMMA SaveThins ==
  ASSUME TypeOK, NobodyJoins, Remembers, NEW w \in Worker, Save(w)
  PROVE  Thins
<1> DEFINE t == task[w]
<1>1. t.pc = "save" /\ match' = [match EXCEPT ![t.match] = t.row] /\ Routed(t) /\ Fresh(t)
  BY DEF Save, At, Remembers
<1>2. t.match \in Match /\ t.cmd \in Commands
  BY <1>1, InHand, NamesAssumption DEF WithMatch, Routed
<1>3. match'[t.match] = t.row /\ \A m \in Match \ {t.match} : match'[m] = match[m]
  BY <1>1, <1>2 DEF TypeOK
<1>4. t.row.active => match[t.match].active /\ t.row.players \subseteq match[t.match].players
  BY <1>1, <1>2 DEF Fresh, FreshMatch, EditOf, NobodyJoins, ByHand
<1> QED BY <1>3, <1>4 DEF Thins

\* A schedule puts on a match whose players are nowhere else.
LEMMA SettleSpreads ==
  ASSUME TypeOK, Remembers, OneCabinetPerPlayer, NEW w \in Worker, Settle(w)
  PROVE  OneCabinetPerPlayer'
<1> DEFINE t == task[w]
           s == t.schedule
<1>1. t.pc = "settle" /\ match' = Switched(t.on, t.off)
  BY DEF Settle, At
<1>2. s \in Schedule
  BY <1>1, InCharge DEF WithSchedule
<1>3. \A m \in Match : /\ match'[m].active => m \in t.on \/ (match[m].active /\ m \notin t.off)
                       /\ match'[m].players = match[m].players
  BY <1>1, SwitchedRow
<1>4. CASE t.on = {}
  BY <1>3, <1>4, ThinsKeeps DEF Thins
<1>5. CASE t.on # {}
  <2>1. IsVerdict(t, s)
    BY <1>1, <1>5 DEF Remembers, Fresh, FreshSchedule, IsStop
  <2>2. PICK n \in 1..Len(Entries[s]) + 1 : WalkStopsAt(s, n) /\ Writes(t) = Verdict(s, n)
    BY <2>1 DEF IsVerdict
  <2> DEFINE m == Entries[s][n]
             off == Active(WalkedPast(s, n))
             why == ReasonToWait(s, m, off)
  <2>3. t.on = Verdict(s, n).on /\ t.off = Verdict(s, n).off
    BY <2>2 DEF Writes
  <2>4. ~(n > Len(Entries[s])) /\ t.off = off /\ why = None /\ t.on \subseteq {m}
    BY <1>5, <2>3 DEF Verdict
  <2>5. m \in Match
    BY <1>2, <2>4, EntryType
  <2>6. Blockers(m, off) = {}
    BY <2>4, NullAssumption DEF ReasonToWait, StaleCode
  <2> HIDE DEF m, off, why
  <2>7. \A o \in Match \ {m} :
          match'[o].active => match[o].active /\ match[o].players \cap match[m].players = {}
    BY <1>3, <2>4, <2>6 DEF Blockers, Active
  <2> QED BY <1>3, <2>5, <2>7 DEF OneCabinetPerPlayer, Active
<1> QED BY <1>4, <1>5

LEMMA SwitchedOffThins ==
  ASSUME TypeOK, NEW off, match' = Switched({}, off)
  PROVE  Thins
<1>1. \A m \in Match : /\ match'[m].active => m \in {} \/ (match[m].active /\ m \notin off)
                       /\ match'[m].players = match[m].players
  BY SwitchedRow
<1> QED BY <1>1 DEF Thins

LEMMA NextSpreads ==
  ASSUME NobodyJoins, TypeOK, Remembers, OneCabinetPerPlayer, [Next]_vars
  PROVE  OneCabinetPerPlayer'
<1>1. UNCHANGED match => OneCabinetPerPlayer'
  BY DEF OneCabinetPerPlayer, Active
<1>2. ASSUME NEW w \in Worker, Proceed(w) PROVE OneCabinetPerPlayer'
  <2>1. ~SaveTarget(w)
    BY DEF NobodyJoins, Remembers, Fresh, FreshTarget, SaveTarget, At
  <2>2. CASE TakeBack(w)
    BY <2>2, SwitchedOffThins, ThinsKeeps DEF TakeBack
  <2>3. Save(w) \/ Settle(w) \/ TakeBack(w) \/ UNCHANGED match
    BY <1>2, <2>1 DEF Proceed, GuardSchedule, Load, ManualActivation, ApplyRule, Reverted, Saved,
         DiffSchedule, StopTournament, Sweep
  <2> QED BY <1>1, <2>2, <2>3, SaveThins, ThinsKeeps, SettleSpreads
<1>3. ASSUME NEW w \in Worker, WithLock(w) PROVE OneCabinetPerPlayer'
  <2>1. (\E off : match' = Switched({}, off)) \/ UNCHANGED match
    BY <1>3 DEF WithLock, Recalculate, Stop, InterruptCompleted, UpdateSchedule
  <2> QED BY <1>1, <2>1, SwitchedOffThins, ThinsKeeps
<1>4. ASSUME NEW r \in Request, Begin(r) PROVE UNCHANGED match
  BY <1>4 DEF Begin, BeginCommand, BeginStart, BeginArchive, BeginStop, Close, ReopenTournament, Edits
<1> QED BY <1>1, <1>2, <1>3, <1>4 DEF Next, Restart, Crash, vars

(***************************************************************************)
(* "A player cannot be sent to two cabinets at once" (schedule.runner.ts,  *)
(* ACTIVE_CONFLICTS), for requests that come one after another in a        *)
(* tournament where nobody is added to a match, by hand or by an           *)
(* advancement rule, and matches are activated by their schedules alone.   *)
(***************************************************************************)
THEOREM PlayersAreAtOneCabinet == OneRequest /\ NobodyJoins => (Spec => []OneCabinetPerPlayer)
<1> SUFFICES ASSUME OneRequest, NobodyJoins PROVE Spec => []OneCabinetPerPlayer
  OBVIOUS
<1>1. Init => OneCabinetPerPlayer
  BY DEF Init, OneCabinetPerPlayer, Active, NobodyJoins, ByHand
<1>2. TypeOK /\ Remembers /\ OneCabinetPerPlayer /\ [Next]_vars => OneCabinetPerPlayer'
  BY NextSpreads
<1>3. Spec => []Remembers
  BY MemoryIsFresh
<1> QED BY <1>1, <1>2, <1>3, TypeCorrect, PTL DEF Spec

================================================================================
