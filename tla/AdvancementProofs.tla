--------------------------- MODULE AdvancementProofs ---------------------------
(***************************************************************************)
(* A pool whose matches all have a result is completed, for any structure  *)
(* of matches, pools and rules, any number of requests and any crashes.    *)
(***************************************************************************)
EXTENDS AdvancementProperties, TLAPS

-----------------------------------------------------------------------------
(***************************************************************************)
(* The inductive invariant.                                                *)
(***************************************************************************)

Stateful(row) == "state" \in DOMAIN row

Targets == {rule.target : rule \in Rules}

\* The rows have a state; of the pools too.
Stores ==
  /\ DOMAIN rows = Match /\ \A m \in Match : Stateful(rows[m])
  /\ DOMAIN pools = Pool /\ \A g \in Pool : Stateful(pools[g])

JobFields == {"cmd", "match", "at", "copy", "doubt", "todo", "write", "held", "pool", "moved"}

\* What a request holds: whatever it has loaded has a state, it writes where a
\* rule points to, and it holds no target when it is about to save its match.
Holds(job) ==
  /\ DOMAIN job = JobFields
  /\ job.at = "idle" => job = Free
  /\ job.at # "idle" => job.match \in Match /\ job.cmd \in {"commit", "reopen"} /\ job.at \in At
  /\ job.at \in {"idle", "asked", "decide"} => job.todo = {} /\ job.held = None
  /\ job.at \in {"revert", "revertPool", "decide", "advance", "advancePool"} => Stateful(job.copy)
  /\ job.at \in {"revertPool", "advancePool"} => Stateful(job.pool)
  /\ \A write \in job.todo : write.to \in Targets
  /\ job.held # None => Stateful(job.held) /\ job.write.to \in Targets

Working(r) == jobs[r].at # "idle"

\* While every command runs alone, what is held is what is stored.
Fresh(r) ==
  jobs[r].held # None =>
    jobs[r].held = IF jobs[r].write.to \in Match THEN rows[jobs[r].write.to] ELSE pools[jobs[r].write.to]

\* The pool about to be closed is decided, and that of a match about to be
\* reopened is open.
OnItsWay(r) ==
  /\ jobs[r].at = "advancePool" => isDecided(PoolOf(jobs[r].match))
  /\ jobs[r].at = "decide" /\ jobs[r].cmd = "reopen" => pools[PoolOf(jobs[r].match)].state # "completed"

\* A request is at work on a match of the pool, or one was left midway.
Unfinished(g) ==
  \/ \E r \in Request : Working(r) /\ jobs[r].match \in Member[g]
  \/ owed \cap Member[g] # {}

Alone == \A q, r \in Request : Working(q) /\ Working(r) => q = r

\* Whoever has not closed a decided pool is still to close it or take it back.
Closing ==
  \A g \in Pool : (clean \/ Untouched(g)) /\ isDecided(g) => pools[g].state = "completed" \/ Unfinished(g)

Serial ==
  clean => /\ Alone
           /\ \A r \in Request : Fresh(r) /\ OnItsWay(r)
           /\ \A g \in Pool : pools[g].state = "completed" => isDecided(g)

Held == DOMAIN jobs = Request /\ \A r \in Request : Holds(jobs[r])

IInv == Stores /\ Held /\ clean \in BOOLEAN /\ Serial /\ Closing

-----------------------------------------------------------------------------
(***************************************************************************)
(* Rows, pools and walks.                                                  *)
(***************************************************************************)

\* Whoever enters or leaves a match, a result stays a result.
LEMMA JudgedAgain ==
  ASSUME NEW row, Stateful(row), NEW new \in Rejudged(row)
  PROVE  Stateful(new) /\ (Completed(new) <=> Completed(row))
<1>1. PICK st : new = [row EXCEPT !.state = st]
                /\ st \in IF row.state \in {"open", "completed"} THEN {row.state} ELSE UncommittedStates(row)
  BY DEF Rejudged
<1>2. "completed" \notin UncommittedStates(row)
  BY DEF UncommittedStates, MatchState
<1>3. new.state = st /\ Stateful(new)
  BY <1>1 DEF Stateful
<1> QED BY <1>1, <1>2, <1>3 DEF Completed

LEMMA MovedAgain ==
  ASSUME NEW row, Stateful(row), NEW p, NEW new \in Placed(row, p) \cup Released(row, p)
  PROVE  Stateful(new) /\ (Completed(new) <=> Completed(row))
<1>1. PICK players : new \in Rejudged([row EXCEPT !.players = players])
  BY DEF Placed, Released
<1> DEFINE before == [row EXCEPT !.players = players]
<1>2. Stateful(before) /\ before.state = row.state
  BY DEF Stateful
<1>3. Stateful(new) /\ (Completed(new) <=> Completed(before))
  BY <1>1, <1>2, JudgedAgain
<1> QED BY <1>2, <1>3 DEF Completed

\* A commit leaves a completed match, ...
LEMMA CommitCompletes ==
  ASSUME NEW row, Stateful(row), NEW new \in Effect("commit", row)
  PROVE  Stateful(new) /\ Completed(new)
<1>1. Effect("commit", row) \subseteq
        {[row EXCEPT !.state = "completed", !.active = FALSE, !.result = places] : places \in Placings(row.players)}
  BY DEF Effect
<1>2. PICK places : new = [row EXCEPT !.state = "completed", !.active = FALSE, !.result = places]
  BY <1>1
<1> QED BY <1>2 DEF Stateful, Completed

\* ... and a match that is reopened, or played, has no result.
LEMMA ReopenUncompletes ==
  ASSUME NEW row, Stateful(row), NEW new \in Effect("reopen", row)
  PROVE  Stateful(new) /\ ~Completed(new)
<1>1. Effect("reopen", row) =
        {[row EXCEPT !.active = FALSE, !.result = NoResult, !.state = st] :
           st \in IF Completed(row) THEN UncommittedStates(row) ELSE {row.state}}
  BY DEF Effect
<1>2. PICK st \in IF Completed(row) THEN UncommittedStates(row) ELSE {row.state} :
        new = [row EXCEPT !.active = FALSE, !.result = NoResult, !.state = st]
  BY <1>1
<1>3. "completed" \notin UncommittedStates(row)
  BY DEF UncommittedStates, MatchState
<1>4. Stateful(new) /\ new.state = st
  BY <1>2 DEF Stateful
<1> QED BY <1>2, <1>3, <1>4 DEF Completed

LEMMA ScoreUncompletes ==
  ASSUME NEW row, Stateful(row), Editable("score", row), NEW new \in Effect("score", row)
  PROVE  Stateful(new) /\ ~Completed(row) /\ ~Completed(new)
<1>1. ~Completed(row)
  BY DEF Editable
<1>2. Effect("score", row) \subseteq Scored(row)
  BY DEF Effect
<1>3. PICK st \in UncommittedStates(row) : new = [row EXCEPT !.state = st]
  BY <1>1, <1>2 DEF Scored
<1>4. "completed" \notin UncommittedStates(row)
  BY DEF UncommittedStates, MatchState
<1>5. Stateful(new) /\ new.state = st
  BY <1>3 DEF Stateful
<1> QED BY <1>1, <1>3, <1>4, <1>5 DEF Completed

\* A match is in one pool.
LEMMA OnePool ==
  ASSUME NEW m \in Match
  PROVE  PoolOf(m) \in Pool /\ m \in Member[PoolOf(m)] /\ \A g \in Pool : m \in Member[g] => g = PoolOf(m)
<1>1. PICK h \in Pool : \A g \in Pool : m \in Member[g] <=> g = h
  BY AdvancementAssumption
<1>2. PoolOf(m) \in Pool /\ m \in Member[PoolOf(m)]
  BY <1>1 DEF PoolOf
<1> QED BY <1>1, <1>2

\* A walk writes where rules point to.
LEMMA WalkFollowsRules ==
  ASSUME NEW source, NEW order, NEW write \in Walk(source, order)
  PROVE  write.to \in Targets
<1> DEFINE leaving == Leaving(source, order)
           Write(target, rules) ==
             [to |-> target, first |-> Min({r.placement : r \in rules}),
              who |-> [p \in {order[r.placement] : r \in rules} |-> CHOOSE r \in rules : order[r.placement] = p]]
<1>1. leaving \subseteq Rules
  BY DEF Leaving
<1>2. \A target, rules : Write(target, rules).to = target
  OBVIOUS
<1>3. Walk(source, order) =
        {Write(r.target, {r}) : r \in {s \in leaving : s.target \in Match}}
          \cup {Write(g, {r \in leaving : r.target = g}) : g \in Pool \cap {r.target : r \in leaving}}
  BY DEF Walk
<1> HIDE DEF leaving, Write
<1>4. \E r \in leaving : write.to = r.target
  <2>1. CASE \E r \in leaving : write = Write(r.target, {r})
    <3>1. PICK r \in leaving : write = Write(r.target, {r})
      BY <2>1
    <3> QED BY <3>1, <1>2
  <2>2. CASE \E g \in {r.target : r \in leaving} : write = Write(g, {r \in leaving : r.target = g})
    <3>1. PICK g \in {r.target : r \in leaving} : write = Write(g, {r \in leaving : r.target = g})
      BY <2>2
    <3> DEFINE into == {r \in leaving : r.target = g}
    <3> HIDE DEF into
    <3>2. Write(g, into).to = g
      BY <1>2
    <3> QED BY <3>1, <3>2 DEF into
  <2>3. (\E r \in leaving : write = Write(r.target, {r}))
        \/ \E g \in {r.target : r \in leaving} : write = Write(g, {r \in leaving : r.target = g})
    BY <1>3, Zenon
  <2> QED BY <2>1, <2>2, <2>3
<1> QED BY <1>1, <1>4 DEF Targets

LEMMA TargetsAreStored == Targets \subseteq Match \cup Pool
BY AdvancementAssumption DEF Targets

\* Nobody is placed in, or taken out of, an untouched pool.
LEMMA UntouchedByRules ==
  ASSUME NEW g \in Pool, Untouched(g), NEW target \in Targets
  PROVE  target # g /\ target \notin Member[g]
BY DEF Untouched, Targets

\* Placing and releasing leave the state of a pool.
LEMMA SeatsOnly ==
  ASSUME NEW pool, Stateful(pool), NEW who
  PROVE  /\ Stateful(place(pool, who)) /\ place(pool, who).state = pool.state
         /\ Stateful(release(pool, who)) /\ release(pool, who).state = pool.state
BY DEF place, release, Stateful

\* What a write makes of a target is completed if the target is.
LEMMA WrittenStays ==
  ASSUME NEW job, Stateful(job.held), NEW new \in Written(job)
  PROVE  /\ Stateful(new)
         /\ job.write.to \in Match => (Completed(new) <=> Completed(job.held))
         /\ job.write.to \notin Match => new.state = job.held.state
<1>1. CASE job.write.to \in Match
  <2>1. PICK p : new \in Placed(job.held, p) \cup Released(job.held, p)
    BY <1>1 DEF Written, Shown
  <2> QED BY <1>1, <2>1, MovedAgain
<1>2. CASE job.write.to \notin Match
  <2>1. new = place(job.held, job.write.who) \/ new = release(job.held, job.write.who)
    BY <1>2 DEF Written
  <2> QED BY <1>2, <2>1, SeatsOnly
<1> QED BY <1>1, <1>2

-----------------------------------------------------------------------------
(***************************************************************************)
(* What a step of one request leaves as it was.                            *)
(***************************************************************************)

LEMMA FreeHolds == Holds(Free) /\ Free.at = "idle" /\ Free.held = None
BY DEF Holds, Free, JobFields

\* Who does not work holds nothing.
LEMMA IdleIsFree ==
  ASSUME Held, NEW r \in Request, ~Working(r)
  PROVE  jobs[r] = Free
BY DEF Held, Holds, Working

LEMMA HeldKept ==
  ASSUME Held, NEW r \in Request, NEW job, Holds(job), jobs' = [jobs EXCEPT ![r] = job]
  PROVE  Held' /\ jobs'[r] = job /\ \A q \in Request : q # r => jobs'[q] = jobs[q]
<1>1. DOMAIN jobs' = Request /\ jobs'[r] = job /\ \A q \in Request : q # r => jobs'[q] = jobs[q]
  BY DEF Held
<1>2. \A q \in Request : Holds(jobs'[q])
  <2>1. TAKE q \in Request
  <2> QED BY <1>1 DEF Held
<1> QED BY <1>1, <1>2 DEF Held

\* A pool is decided by the results of its own matches.
LEMMA DecidedByItsOwn ==
  ASSUME NEW g \in Pool, \A n \in Member[g] : Completed(rows[n])' <=> Completed(rows[n])
  PROVE  isDecided(g)' <=> isDecided(g)
BY DEF isDecided, Completed

\* A pool no match of which is at hand is no more decided, and no less
\* completed, than before: whoever was to close it still is.
Elsewhere(m) ==
  \A g \in Pool : m \notin Member[g] /\ isDecided(g)' /\ (clean' \/ Untouched(g)) =>
                    isDecided(g) /\ pools'[g].state = pools[g].state

LEMMA ClosingElsewhere ==
  ASSUME Held, Closing, NEW r \in Request, NEW job, Holds(job), jobs' = [jobs EXCEPT ![r] = job], clean' => clean,
         NEW m, Working(r) => jobs[r].match = m, owed \ {m} \subseteq owed', Elsewhere(m),
         NEW g \in Pool, m \notin Member[g], clean' \/ Untouched(g), isDecided(g)'
  PROVE  (pools[g].state = "completed" \/ Unfinished(g))'
<1>1. isDecided(g) /\ pools'[g].state = pools[g].state
  BY DEF Elsewhere
<1>2. pools[g].state = "completed" \/ Unfinished(g)
  BY <1>1 DEF Closing
<1>3. CASE pools[g].state = "completed"
  BY <1>1, <1>3
<1>4. CASE \E q \in Request : Working(q) /\ jobs[q].match \in Member[g]
  <2>1. PICK q \in Request : Working(q) /\ jobs[q].match \in Member[g]
    BY <1>4
  <2>2. q # r
    BY <2>1
  <2>3. jobs'[q] = jobs[q]
    BY <2>2, HeldKept
  <2> QED BY <2>1, <2>3 DEF Unfinished, Working
<1>5. CASE owed \cap Member[g] # {}
  <2>1. owed' \cap Member[g] # {}
    BY <1>5
  <2> QED BY <2>1 DEF Unfinished
<1> QED BY <1>2, <1>3, <1>4, <1>5 DEF Unfinished

\* A request that goes on with its match answers for the pool of that match.
LEMMA ClosingKept ==
  ASSUME Held, Closing, NEW r \in Request, NEW job, Holds(job), jobs' = [jobs EXCEPT ![r] = job], clean' => clean,
         job.at # "idle", Working(r) => jobs[r].match = job.match, owed \subseteq owed', Elsewhere(job.match)
  PROVE  Closing'
<1> SUFFICES ASSUME NEW g \in Pool, clean' \/ Untouched(g), isDecided(g)'
             PROVE  (pools[g].state = "completed" \/ Unfinished(g))'
  BY DEF Closing, Untouched
<1>1. CASE job.match \in Member[g]
  <2>1. jobs'[r] = job
    BY HeldKept
  <2>2. Unfinished(g)'
    BY <1>1, <2>1 DEF Unfinished, Working
  <2> QED BY <2>2
<1>2. CASE job.match \notin Member[g]
  <2>1. owed \ {job.match} \subseteq owed'
    OBVIOUS
  <2> QED BY <1>2, <2>1, ClosingElsewhere
<1> QED BY <1>1, <1>2

\* A request that is done with its match leaves its pool completed, undecided,
\* or with the match owed.
LEMMA ClosingEnds ==
  ASSUME Held, Closing, NEW r \in Request, Working(r), jobs' = [jobs EXCEPT ![r] = Free], clean' => clean,
         owed \ {jobs[r].match} \subseteq owed', Elsewhere(jobs[r].match),
         \A g \in Pool : g = PoolOf(jobs[r].match) /\ isDecided(g)' =>
                            pools'[g].state = "completed" \/ jobs[r].match \in owed'
  PROVE  Closing'
<1> DEFINE m == jobs[r].match
<1>1. m \in Match
  BY DEF Held, Holds, Working
<1> SUFFICES ASSUME NEW g \in Pool, clean' \/ Untouched(g), isDecided(g)'
             PROVE  (pools[g].state = "completed" \/ Unfinished(g))'
  BY DEF Closing, Untouched
<1>2. CASE m \in Member[g]
  <2>1. g = PoolOf(m)
    BY <1>1, <1>2, OnePool
  <2>2. pools'[g].state = "completed" \/ m \in owed'
    BY <2>1
  <2>3. m \in owed' => Unfinished(g)'
    BY <1>2 DEF Unfinished
  <2> QED BY <2>2, <2>3
<1>3. CASE m \notin Member[g]
  BY <1>3, FreeHolds, ClosingElsewhere
<1> QED BY <1>2, <1>3

\* While commands run alone, what the one request does is all there is.
LEMMA SerialKept ==
  ASSUME Held, Serial, NEW r \in Request, NEW job, Holds(job), jobs' = [jobs EXCEPT ![r] = job],
         clean' => clean /\ (Idle \/ Working(r)),
         clean' => (Fresh(r) /\ OnItsWay(r) /\ \A g \in Pool : pools[g].state = "completed" => isDecided(g))'
  PROVE  Serial'
<1> SUFFICES ASSUME clean'
             PROVE  /\ Alone'
                    /\ \A q \in Request : Fresh(q)' /\ OnItsWay(q)'
                    /\ \A g \in Pool : (pools[g].state = "completed" => isDecided(g))'
  BY DEF Serial
<1>1. \A q \in Request : q # r => ~Working(q)
  BY FreeHolds DEF Serial, Alone, Idle, Working
<1>2. \A q \in Request : q # r => jobs'[q] = Free
  BY <1>1, IdleIsFree, HeldKept
<1>3. Alone'
  BY <1>2, FreeHolds DEF Alone, Working
<1>4. ASSUME NEW q \in Request
      PROVE  Fresh(q)' /\ OnItsWay(q)'
  <2>1. CASE q = r
    BY <2>1
  <2>2. CASE q # r
    <3>1. jobs'[q].held = None /\ jobs'[q].at = "idle"
      BY <1>2, <2>2, FreeHolds
    <3> QED BY <3>1 DEF Fresh, OnItsWay
  <2> QED BY <2>1, <2>2
<1> QED BY <1>3, <1>4

-----------------------------------------------------------------------------
(***************************************************************************)
(* The steps of a request.                                                 *)
(***************************************************************************)

LEMMA InitHolds == Init => IInv
<1> SUFFICES ASSUME Init PROVE IInv
  OBVIOUS
<1>1. Stores
  BY DEF Init, Stores, Stateful, EmptyRow
<1>2. \A r \in Request : jobs[r] = Free
  BY DEF Init
<1>3. Held
  BY <1>2, FreeHolds DEF Init, Held
<1>4. \A g \in Pool : pools[g].state # "completed" /\ ~isDecided(g)
  <2>1. TAKE g \in Pool
  <2>2. pools[g].state = "pending"
    BY DEF Init
  <2>3. \A m \in Match : rows[m].state = "open"
    BY DEF Init, EmptyRow
  <2>4. Member[g] \subseteq Match
    BY AdvancementAssumption
  <2> QED BY <2>2, <2>3, <2>4 DEF isDecided, Completed
<1>5. Serial
  BY <1>2, <1>4, FreeHolds DEF Serial, Alone, Working, Fresh, OnItsWay
<1>6. Closing
  BY <1>4 DEF Closing
<1> QED BY <1>1, <1>3, <1>5, <1>6 DEF IInv, Init

\* A step that changes nothing but what the request holds.
LEMMA JobOnly ==
  ASSUME IInv, NEW r \in Request, Working(r), NEW job, Holds(job), jobs' = [jobs EXCEPT ![r] = job],
         job.at # "idle", job.match = jobs[r].match, UNCHANGED <<rows, pools, owed, clean>>,
         clean => /\ job.held # None =>
                       job.held = IF job.write.to \in Match THEN rows[job.write.to] ELSE pools[job.write.to]
                  /\ job.at = "advancePool" => isDecided(PoolOf(job.match))
                  /\ job.at = "decide" /\ job.cmd = "reopen" => pools[PoolOf(job.match)].state # "completed"
  PROVE  IInv'
<1>1. Stores'
  BY DEF IInv, Stores
<1>2. Held' /\ jobs'[r] = job
  BY HeldKept DEF IInv
<1>3. \A g \in Pool : isDecided(g)' <=> isDecided(g)
  BY DEF isDecided
<1>4. isDecided(PoolOf(job.match)) => isDecided(PoolOf(job.match))'
  BY DEF isDecided
<1>5. clean' => Fresh(r)'
  BY <1>2 DEF Fresh
<1>6. clean' => OnItsWay(r)'
  BY <1>2, <1>4 DEF OnItsWay
<1>7. clean => \A g \in Pool : pools[g].state = "completed" => isDecided(g)
  BY DEF IInv, Serial
<1>8. clean' => \A g \in Pool : (pools[g].state = "completed" => isDecided(g))'
  BY <1>3, <1>7
<1>9. Serial'
  BY <1>5, <1>6, <1>8, SerialKept DEF IInv
<1>10. Elsewhere(job.match)
  BY <1>3 DEF Elsewhere
<1>11. Closing'
  BY <1>10, ClosingKept DEF IInv
<1> QED BY <1>1, <1>2, <1>9, <1>11 DEF IInv

\* A match that was loaded to be committed or reopened: if it had no result, its
\* pool is not completed.
LEMMA LoadedHolds ==
  ASSUME Stores, NEW cmd \in {"commit", "reopen"}, NEW m \in Match, NEW order
  PROVE  LET job == Loaded(cmd, m, order)
         IN  /\ Holds(job) /\ job.at \in {"revert", "decide"} /\ job.match = m /\ job.cmd = cmd /\ job.held = None
             /\ job.at = "decide" => ~Completed(rows[m])
<1> DEFINE job == Loaded(cmd, m, order)
           done == Completed(rows[m])
           at == IF done THEN "revert" ELSE "decide"
           todo == IF done THEN Walk(m, order) ELSE {}
<1>1. \A write \in todo : write.to \in Targets
  BY WalkFollowsRules
<1>2. Stateful(rows[m])
  BY DEF Stores
<1> HIDE DEF done
<1>3. at \in {"revert", "decide"} /\ (at = "decide" => ~done /\ todo = {})
  OBVIOUS
<1>4. job = [Free EXCEPT !.cmd = cmd, !.match = m, !.copy = rows[m], !.doubt = m \in stale, !.at = at, !.todo = todo]
  BY DEF Loaded, done
<1> HIDE DEF at, todo
<1>5. /\ DOMAIN job = JobFields /\ job.cmd = cmd /\ job.match = m /\ job.copy = rows[m] /\ job.at = at
      /\ job.todo = todo /\ job.held = None
  BY <1>4 DEF Free, JobFields
<1> HIDE DEF job
<1>6. Holds(job)
  BY <1>1, <1>2, <1>3, <1>5 DEF Holds, At
<1> QED BY <1>3, <1>5, <1>6 DEF job, done

\* A match without a result: its pool is not completed while commands run alone.
LEMMA OpenPool ==
  ASSUME Serial, clean, NEW m \in Match, ~Completed(rows[m])
  PROVE  pools[PoolOf(m)].state # "completed"
BY OnePool DEF Serial, isDecided

LEMMA ReloadKept ==
  ASSUME IInv, NEW r \in Request, Reload(r)
  PROVE  IInv'
<1> DEFINE m == jobs[r].match
<1>1. Working(r) /\ m \in Match
  BY DEF IInv, Held, Holds, Reload, Working
<1>2. PICK order : jobs' = [jobs EXCEPT ![r] = Loaded("reopen", m, order)]
  BY DEF Reload, IInv, Held
<1> DEFINE job == Loaded("reopen", m, order)
<1>3. /\ Holds(job) /\ job.at \in {"revert", "decide"} /\ job.match = m /\ job.cmd = "reopen" /\ job.held = None
      /\ job.at = "decide" => ~Completed(rows[m])
  BY <1>1, LoadedHolds DEF IInv
<1>4. clean /\ job.at = "decide" => pools[PoolOf(m)].state # "completed"
  BY <1>1, <1>3, OpenPool DEF IInv
<1> HIDE DEF job
<1>5. jobs' = [jobs EXCEPT ![r] = job] /\ UNCHANGED <<rows, pools, owed, clean>>
  BY <1>2 DEF job, Reload
<1> QED BY <1>1, <1>3, <1>4, <1>5, JobOnly

LEMMA LoadTargetKept ==
  ASSUME IInv, NEW r \in Request, LoadTarget(r)
  PROVE  IInv'
<1>1. PICK write \in jobs[r].todo :
        LET target == IF write.to \in Match THEN rows[write.to] ELSE pools[write.to]
            rest == jobs[r].todo \ {write}
        IN  jobs' = [jobs EXCEPT ![r] = [jobs[r] EXCEPT !.todo = rest, !.write = write, !.held = target]]
  BY DEF LoadTarget
<1> DEFINE held == IF write.to \in Match THEN rows[write.to] ELSE pools[write.to]
           rest == jobs[r].todo \ {write}
           job == [jobs[r] EXCEPT !.todo = rest, !.write = write, !.held = held]
<1>2. Holds(jobs[r])
  BY DEF IInv, Held
<1>3. Working(r) /\ jobs[r].at \notin {"asked", "decide"}
  BY <1>2 DEF Holds, Working
<1>4. write.to \in Targets
  BY <1>2 DEF Holds
<1>5. Stateful(held)
  BY <1>4, TargetsAreStored DEF IInv, Stores
<1> HIDE DEF held
<1>6. /\ DOMAIN job = JobFields /\ job.cmd = jobs[r].cmd /\ job.match = jobs[r].match /\ job.at = jobs[r].at
      /\ job.copy = jobs[r].copy /\ job.pool = jobs[r].pool
      /\ job.todo \subseteq jobs[r].todo /\ job.write = write /\ job.held = held
  BY <1>2 DEF Holds, JobFields
<1>7. jobs' = [jobs EXCEPT ![r] = job] /\ UNCHANGED <<rows, pools, owed, clean>>
  BY <1>1 DEF LoadTarget, held
<1> HIDE DEF job
<1>8. Holds(job)
  <2>1. \A w \in job.todo : w.to \in Targets
    BY <1>2, <1>6 DEF Holds
  <2>2. job.at # "idle" /\ job.at \notin {"asked", "decide"}
    BY <1>3, <1>6 DEF Working
  <2>3. job.match \in Match /\ job.cmd \in {"commit", "reopen"} /\ job.at \in At
    BY <1>2, <1>3, <1>6 DEF Holds, Working
  <2>4. /\ job.at \in {"revert", "revertPool", "decide", "advance", "advancePool"} => Stateful(job.copy)
        /\ job.at \in {"revertPool", "advancePool"} => Stateful(job.pool)
    BY <1>2, <1>6 DEF Holds
  <2>5. Stateful(job.held) /\ job.write.to \in Targets
    BY <1>4, <1>5, <1>6
  <2> QED BY <1>6, <2>1, <2>2, <2>3, <2>4, <2>5 DEF Holds
<1>9. clean => OnItsWay(r)
  BY DEF IInv, Serial
<1>10. job.at # "idle"
  BY <1>3, <1>6 DEF Working
<1>11. clean => /\ job.held = IF job.write.to \in Match THEN rows[job.write.to] ELSE pools[job.write.to]
                /\ job.at = "advancePool" => isDecided(PoolOf(job.match))
                /\ job.at # "decide"
  BY <1>3, <1>6, <1>9 DEF OnItsWay, held
<1> QED BY <1>3, <1>6, <1>7, <1>8, <1>10, <1>11, JobOnly

\* Saving a target moves people; whether it is completed stays as it was when
\* the target was loaded.
LEMMA SaveTargetKept ==
  ASSUME IInv, NEW r \in Request, SaveTarget(r)
  PROVE  IInv'
<1> DEFINE job == jobs[r]
           to == job.write.to
           after == [job EXCEPT !.write = None, !.held = None]
<1>1. Holds(job) /\ job.held # None
  BY DEF IInv, Held, SaveTarget
<1>2. Working(r) /\ job.at \notin {"asked", "decide"}
  BY <1>1 DEF Holds, Working
<1>3. Stateful(job.held) /\ to \in Targets
  BY <1>1 DEF Holds
<1>4. /\ DOMAIN after = JobFields /\ after.cmd = job.cmd /\ after.match = job.match /\ after.at = job.at
      /\ after.copy = job.copy /\ after.pool = job.pool /\ after.todo = job.todo /\ after.held = None
  BY <1>1 DEF Holds, JobFields
<1>5. jobs' = [jobs EXCEPT ![r] = after] /\ UNCHANGED <<owed, clean>>
  BY DEF SaveTarget
<1> HIDE DEF after
<1>6. Holds(after)
  BY <1>1, <1>2, <1>4 DEF Holds, Working
<1>7. \/ UNCHANGED <<rows, pools>>
      \/ /\ to \in Match /\ UNCHANGED pools
         /\ \E new \in Written(job) : rows' = [rows EXCEPT ![to] = new]
      \/ /\ to \notin Match /\ UNCHANGED rows
         /\ \E new \in Written(job) : pools' = [pools EXCEPT ![to] = new]
  BY DEF SaveTarget
<1>8. ASSUME NEW new \in Written(job)
      PROVE  /\ Stateful(new)
             /\ to \in Match => (Completed(new) <=> Completed(job.held))
             /\ to \notin Match => new.state = job.held.state
  BY <1>3, <1>8, WrittenStays
<1>9. clean => job.held = IF to \in Match THEN rows[to] ELSE pools[to]
  BY <1>1 DEF IInv, Serial, Fresh
<1>10. Stores'
  <2>1. CASE UNCHANGED <<rows, pools>>
    BY <2>1 DEF IInv, Stores
  <2>2. ASSUME to \in Match, UNCHANGED pools, NEW new \in Written(job), rows' = [rows EXCEPT ![to] = new]
        PROVE  Stores'
    BY <1>8, <2>2 DEF IInv, Stores
  <2>3. ASSUME to \notin Match, UNCHANGED rows, NEW new \in Written(job), pools' = [pools EXCEPT ![to] = new]
        PROVE  Stores'
    BY <1>8, <2>3 DEF IInv, Stores
  <2> QED BY <1>7, <2>1, <2>2, <2>3
<1>11. ASSUME NEW g \in Pool, clean \/ Untouched(g)
       PROVE  (isDecided(g)' <=> isDecided(g)) /\ pools'[g].state = pools[g].state
  <2>1. (to # g /\ to \notin Member[g]) \/ clean
    BY <1>3, <1>11, UntouchedByRules
  <2>2. Member[g] \subseteq Match
    BY AdvancementAssumption
  <2>3. CASE UNCHANGED <<rows, pools>>
    BY <2>3 DEF isDecided
  <2>4. ASSUME to \in Match, UNCHANGED pools, NEW new \in Written(job), rows' = [rows EXCEPT ![to] = new]
        PROVE  (isDecided(g)' <=> isDecided(g)) /\ pools'[g].state = pools[g].state
    <3>1. clean => (Completed(new) <=> Completed(rows[to]))
      BY <1>8, <1>9, <2>4
    <3>2. \A n \in Member[g] : Completed(rows[n])' <=> Completed(rows[n])
      <4>1. TAKE n \in Member[g]
      <4>2. n \in Match /\ rows'[n] = IF n = to THEN new ELSE rows[n]
        BY <2>2, <2>4 DEF IInv, Stores
      <4> QED BY <2>1, <3>1, <4>2 DEF Completed
    <3> QED BY <2>4, <3>2, DecidedByItsOwn
  <2>5. ASSUME to \notin Match, UNCHANGED rows, NEW new \in Written(job), pools' = [pools EXCEPT ![to] = new]
        PROVE  (isDecided(g)' <=> isDecided(g)) /\ pools'[g].state = pools[g].state
    <3>1. clean => new.state = pools[to].state
      BY <1>8, <1>9, <2>5
    <3>2. pools'[g] = IF g = to THEN new ELSE pools[g]
      BY <2>5 DEF IInv, Stores
    <3> QED BY <2>1, <2>5, <3>1, <3>2 DEF isDecided
  <2> QED BY <1>7, <2>3, <2>4, <2>5
<1>12. Held' /\ jobs'[r] = after
  BY <1>5, <1>6, HeldKept DEF IInv
<1>13. Elsewhere(after.match)
  BY <1>5, <1>11 DEF Elsewhere
<1>14. Closing'
  BY <1>2, <1>4, <1>5, <1>6, <1>13, ClosingKept DEF IInv, Working
<1>15. Fresh(r)'
  BY <1>4, <1>12 DEF Fresh
<1>16. clean => OnItsWay(r)'
  <2> SUFFICES ASSUME clean PROVE OnItsWay(r)'
    OBVIOUS
  <2>1. OnItsWay(r)
    BY DEF IInv, Serial
  <2>2. PICK g \in Pool : g = PoolOf(job.match)
    BY <1>1, <1>2, OnePool DEF Holds, Working
  <2>3. isDecided(g) => isDecided(g)'
    BY <1>11
  <2>4. g = PoolOf(jobs'[r].match)
    BY <1>4, <1>12, <2>2
  <2>5. jobs'[r].at = "advancePool" => isDecided(g)'
    BY <1>4, <1>12, <2>1, <2>2, <2>3 DEF OnItsWay
  <2> QED BY <1>2, <1>4, <1>12, <2>4, <2>5 DEF OnItsWay, isDecided
<1>17. clean => \A g \in Pool : (pools[g].state = "completed" => isDecided(g))'
  BY <1>11 DEF IInv, Serial
<1>18. Serial'
  BY <1>2, <1>5, <1>6, <1>15, <1>16, <1>17, SerialKept DEF IInv
<1> QED BY <1>5, <1>10, <1>12, <1>14, <1>18 DEF IInv

\* The pool is loaded: an undecided one is left alone, which ends the commit.
LEMMA LoadPoolKept ==
  ASSUME IInv, NEW r \in Request, LoadPool(r)
  PROVE  IInv'
<1> DEFINE job == jobs[r]
           g == PoolOf(job.match)
           walk == Walk(g, placements(g))
<1>1. Working(r) /\ Holds(job) /\ Walked(job) /\ job.at \in {"revert", "advance"}
  BY DEF IInv, Held, LoadPool, Working
<1>2. job.match \in Match
  BY <1>1 DEF Holds, Working
<1>3. g \in Pool
  BY <1>2, OnePool
<1>4. CASE job.at = "advance" /\ ~Decides(r)
  <2>1. jobs' = [jobs EXCEPT ![r] = Free] /\ owed' = owed \ {job.match} /\ UNCHANGED <<rows, pools, clean>>
    BY <1>4 DEF LoadPool, Finish
  <2>2. Stores'
    BY <2>1 DEF IInv, Stores
  <2>3. Held' /\ jobs'[r] = Free
    BY <2>1, FreeHolds, HeldKept DEF IInv
  <2>4. \A h \in Pool : isDecided(h)' <=> isDecided(h)
    BY <2>1 DEF isDecided
  <2>5. Elsewhere(job.match)
    BY <2>1, <2>4 DEF Elsewhere
  <2>6. \A h \in Pool : h = PoolOf(job.match) => ~isDecided(h)'
    BY <1>4, <2>4 DEF Decides
  <2>7. Closing'
    BY <1>1, <2>1, <2>5, <2>6, ClosingEnds DEF IInv
  <2>8. Fresh(r)' /\ OnItsWay(r)'
    BY <2>3, FreeHolds DEF Fresh, OnItsWay
  <2>9. clean => \A h \in Pool : (pools[h].state = "completed" => isDecided(h))'
    BY <2>1, <2>4 DEF IInv, Serial
  <2>10. Serial'
    BY <1>1, <2>1, <2>8, <2>9, FreeHolds, SerialKept DEF IInv
  <2> QED BY <2>1, <2>2, <2>3, <2>7, <2>10 DEF IInv
<1>5. CASE ~(job.at = "advance" /\ ~Decides(r))
  <2> DEFINE at == IF job.at = "revert" THEN "revertPool" ELSE "advancePool"
             moved == Moved(walk)
             next == [job EXCEPT !.at = at, !.pool = pools[g], !.todo = walk, !.moved = moved]
  <2>1. jobs' = [jobs EXCEPT ![r] = next] /\ UNCHANGED <<rows, pools, owed, clean>>
    BY <1>5 DEF LoadPool
  <2>2. \A write \in walk : write.to \in Targets
    BY WalkFollowsRules
  <2>3. Stateful(pools[g])
    BY <1>3 DEF IInv, Stores
  <2>4. at \in {"revertPool", "advancePool"} /\ (at = "advancePool" => isDecided(g))
    BY <1>1, <1>5 DEF Decides
  <2> HIDE DEF walk, moved, at
  <2>5. /\ DOMAIN next = JobFields /\ next.cmd = job.cmd /\ next.match = job.match /\ next.at = at
        /\ next.copy = job.copy /\ next.pool = pools[g] /\ next.todo = walk /\ next.held = None
    BY <1>1 DEF Holds, JobFields, Walked
  <2> HIDE DEF next
  <2>6. Stateful(job.copy) /\ job.cmd \in {"commit", "reopen"}
    BY <1>1 DEF Holds
  <2>7. Holds(next)
    BY <1>2, <2>2, <2>3, <2>4, <2>5, <2>6 DEF Holds, At
  <2> QED BY <1>1, <2>1, <2>4, <2>5, <2>7, JobOnly
<1> QED BY <1>4, <1>5

\* A pool is written by the request that holds a match of it.
LEMMA PoolWritten ==
  ASSUME Stores, NEW m \in Match, NEW pool, Stateful(pool), pools' = [pools EXCEPT ![PoolOf(m)] = pool],
         UNCHANGED rows
  PROVE  /\ Stores' /\ Elsewhere(m) /\ pools'[PoolOf(m)] = pool
         /\ \A g \in Pool : (isDecided(g)' <=> isDecided(g)) /\ (g # PoolOf(m) => pools'[g] = pools[g])
<1>1. PoolOf(m) \in Pool /\ m \in Member[PoolOf(m)]
  BY OnePool
<1>2. pools'[PoolOf(m)] = pool /\ \A g \in Pool : g # PoolOf(m) => pools'[g] = pools[g]
  BY <1>1 DEF Stores
<1>3. Stores'
  BY <1>1, <1>2 DEF Stores
<1>4. \A g \in Pool : isDecided(g)' <=> isDecided(g)
  BY DEF isDecided
<1>5. Elsewhere(m)
  BY <1>1, <1>2, <1>4 DEF Elsewhere
<1> QED BY <1>2, <1>3, <1>4, <1>5

LEMMA RevertPoolKept ==
  ASSUME IInv, NEW r \in Request, RevertPool(r)
  PROVE  IInv'
<1> DEFINE job == jobs[r]
           pool == Opened(job.pool)
           next == [job EXCEPT !.at = "decide", !.pool = None, !.moved = {}]
<1>1. Working(r) /\ Holds(job) /\ Walked(job) /\ job.at = "revertPool"
  BY DEF IInv, Held, RevertPool, Working
<1>2. job.match \in Match /\ Stateful(job.copy) /\ Stateful(job.pool) /\ job.cmd \in {"commit", "reopen"}
  BY <1>1 DEF Holds
<1>3. Stateful(pool) /\ pool.state = "active"
  BY <1>2 DEF Opened, Stateful
<1>4. /\ DOMAIN next = JobFields /\ next.cmd = job.cmd /\ next.match = job.match /\ next.at = "decide"
      /\ next.copy = job.copy /\ next.todo = {} /\ next.held = None
  BY <1>1 DEF Holds, JobFields, Walked
<1>5. jobs' = [jobs EXCEPT ![r] = next] /\ pools' = [pools EXCEPT ![PoolOf(job.match)] = pool]
      /\ UNCHANGED <<rows, owed, clean>>
  BY DEF RevertPool
<1> HIDE DEF next, pool
<1>6. Holds(next)
  BY <1>2, <1>4 DEF Holds, At
<1>7. Held' /\ jobs'[r] = next
  BY <1>5, <1>6, HeldKept DEF IInv
<1>8. /\ Stores' /\ Elsewhere(job.match) /\ pools'[PoolOf(job.match)] = pool
      /\ \A g \in Pool : (isDecided(g)' <=> isDecided(g)) /\ (g # PoolOf(job.match) => pools'[g] = pools[g])
  BY <1>2, <1>3, <1>5, PoolWritten DEF IInv
<1>9. Closing'
  BY <1>1, <1>4, <1>5, <1>6, <1>8, ClosingKept DEF IInv
<1>10. Fresh(r)' /\ OnItsWay(r)'
  BY <1>3, <1>4, <1>7, <1>8 DEF Fresh, OnItsWay
<1>11. ASSUME clean, NEW g \in Pool, pools'[g].state = "completed"
       PROVE  isDecided(g)'
  <2>1. g # PoolOf(job.match)
    BY <1>3, <1>8, <1>11
  <2> QED BY <1>8, <1>11, <2>1 DEF IInv, Serial
<1>12. Serial'
  BY <1>1, <1>5, <1>6, <1>10, <1>11, SerialKept DEF IInv
<1> QED BY <1>5, <1>7, <1>8, <1>9, <1>12 DEF IInv

LEMMA ClosePoolKept ==
  ASSUME IInv, NEW r \in Request, ClosePool(r)
  PROVE  IInv'
<1> DEFINE job == jobs[r]
           pool == Closed(job.pool, job.moved)
<1>1. Working(r) /\ Holds(job) /\ job.at = "advancePool"
  BY DEF IInv, Held, ClosePool, Working
<1>2. job.match \in Match /\ Stateful(job.pool)
  BY <1>1 DEF Holds
<1>3. Stateful(pool) /\ pool.state = "completed"
  BY <1>2 DEF Closed, Stateful
<1>4. jobs' = [jobs EXCEPT ![r] = Free] /\ pools' = [pools EXCEPT ![PoolOf(job.match)] = pool]
      /\ owed' = owed \ {job.match} /\ UNCHANGED <<rows, clean>>
  BY DEF ClosePool, Finish
<1> HIDE DEF pool
<1>5. Held' /\ jobs'[r] = Free
  BY <1>4, FreeHolds, HeldKept DEF IInv
<1>6. /\ Stores' /\ Elsewhere(job.match) /\ pools'[PoolOf(job.match)] = pool
      /\ \A g \in Pool : (isDecided(g)' <=> isDecided(g)) /\ (g # PoolOf(job.match) => pools'[g] = pools[g])
  BY <1>2, <1>3, <1>4, PoolWritten DEF IInv
<1>7. Closing'
  BY <1>1, <1>3, <1>4, <1>6, ClosingEnds DEF IInv
<1>8. Fresh(r)' /\ OnItsWay(r)'
  BY <1>5, FreeHolds DEF Fresh, OnItsWay
<1>9. ASSUME clean, NEW g \in Pool, pools'[g].state = "completed"
      PROVE  isDecided(g)'
  <2>1. CASE g = PoolOf(job.match)
    <3>1. isDecided(g)
      BY <1>1, <1>9, <2>1 DEF IInv, Serial, OnItsWay
    <3> QED BY <1>6, <3>1
  <2>2. CASE g # PoolOf(job.match)
    BY <1>6, <1>9, <2>2 DEF IInv, Serial
  <2> QED BY <2>1, <2>2
<1>10. Serial'
  BY <1>1, <1>4, <1>8, <1>9, FreeHolds, SerialKept DEF IInv
<1> QED BY <1>4, <1>5, <1>6, <1>7, <1>10 DEF IInv

\* A match is written by the request that was asked for it.
LEMMA MatchWritten ==
  ASSUME Stores, NEW m \in Match, NEW row, Stateful(row), rows' = [rows EXCEPT ![m] = row], UNCHANGED pools
  PROVE  /\ Stores' /\ Elsewhere(m) /\ rows'[m] = row
         /\ \A g \in Pool : m \notin Member[g] => (isDecided(g)' <=> isDecided(g))
         /\ \A g \in Pool : m \in Member[g] /\ Completed(row) /\ isDecided(g) => isDecided(g)'
         /\ \A g \in Pool : m \in Member[g] /\ ~Completed(row) => ~isDecided(g)'
<1>1. rows'[m] = row /\ \A n \in Match : n # m => rows'[n] = rows[n]
  BY DEF Stores
<1>2. Stores'
  BY <1>1 DEF Stores
<1>3. \A g \in Pool : Member[g] \subseteq Match
  BY AdvancementAssumption
<1>4. ASSUME NEW g \in Pool, m \notin Member[g]
      PROVE  isDecided(g)' <=> isDecided(g)
  <2>1. \A n \in Member[g] : Completed(rows[n])' <=> Completed(rows[n])
    BY <1>1, <1>3, <1>4 DEF Completed
  <2> QED BY <2>1, DecidedByItsOwn
<1>5. ASSUME NEW g \in Pool, m \in Member[g], Completed(row), isDecided(g)
      PROVE  isDecided(g)'
  BY <1>1, <1>3, <1>5 DEF isDecided, Completed
<1>6. ASSUME NEW g \in Pool, m \in Member[g], ~Completed(row)
      PROVE  ~isDecided(g)'
  BY <1>1, <1>6 DEF isDecided, Completed
<1>7. Elsewhere(m)
  BY <1>4 DEF Elsewhere
<1> QED BY <1>1, <1>2, <1>4, <1>5, <1>6, <1>7

LEMMA SaveCommitKept ==
  ASSUME IInv, NEW r \in Request, SaveCommit(r)
  PROVE  IInv'
<1> DEFINE job == jobs[r]
           m == job.match
<1>1. Working(r) /\ Holds(job) /\ job.at = "decide" /\ job.cmd = "commit"
  BY DEF IInv, Held, SaveCommit, Working
<1>2. m \in Match /\ Stateful(job.copy) /\ job.held = None
  BY <1>1 DEF Holds
<1>3. PICK row \in CommitEffect(job) : \E order \in Orders(row) :
        /\ rows' = [rows EXCEPT ![m] = row]
        /\ jobs' = [jobs EXCEPT ![r] = [job EXCEPT !.at = "advance", !.todo = Walk(m, order),
                                                   !.copy = row, !.doubt = FALSE]]
  BY DEF SaveCommit
<1>3a. PICK order \in Orders(row) :
        jobs' = [jobs EXCEPT ![r] = [job EXCEPT !.at = "advance", !.todo = Walk(m, order),
                                                !.copy = row, !.doubt = FALSE]]
  BY <1>3
<1> DEFINE walk == Walk(m, order)
           off == FALSE
           next == [job EXCEPT !.at = "advance", !.todo = walk, !.copy = row, !.doubt = off]
<1>4. Stateful(row) /\ Completed(row)
  BY <1>2, CommitCompletes DEF CommitEffect
<1>5. \A write \in walk : write.to \in Targets
  BY WalkFollowsRules
<1>6. jobs' = [jobs EXCEPT ![r] = next] /\ UNCHANGED <<pools, owed, clean>>
  BY <1>3a DEF SaveCommit
<1> HIDE DEF walk, off
<1>7. /\ DOMAIN next = JobFields /\ next.cmd = "commit" /\ next.match = m /\ next.at = "advance"
      /\ next.copy = row /\ next.todo = walk /\ next.held = None
  BY <1>1, <1>2 DEF Holds, JobFields
<1> HIDE DEF next
<1>8. Holds(next)
  BY <1>2, <1>4, <1>5, <1>7 DEF Holds, At
<1>9. Held' /\ jobs'[r] = next
  BY <1>6, <1>8, HeldKept DEF IInv
<1>10. /\ Stores' /\ Elsewhere(m)
       /\ \A g \in Pool : m \notin Member[g] => (isDecided(g)' <=> isDecided(g))
       /\ \A g \in Pool : m \in Member[g] /\ Completed(row) /\ isDecided(g) => isDecided(g)'
  BY <1>2, <1>3, <1>4, <1>6, MatchWritten DEF IInv
<1>11. Closing'
  BY <1>1, <1>6, <1>7, <1>8, <1>10, ClosingKept DEF IInv
<1>12. Fresh(r)' /\ OnItsWay(r)'
  BY <1>7, <1>9 DEF Fresh, OnItsWay
<1>13. ASSUME clean, NEW g \in Pool, pools'[g].state = "completed"
       PROVE  isDecided(g)'
  BY <1>4, <1>6, <1>10, <1>13 DEF IInv, Serial
<1>14. Serial'
  BY <1>1, <1>6, <1>8, <1>12, <1>13, SerialKept DEF IInv
<1> QED BY <1>6, <1>9, <1>10, <1>11, <1>14 DEF IInv

LEMMA RefuseCommitKept ==
  ASSUME IInv, NEW r \in Request, RefuseCommit(r)
  PROVE  IInv'
<1> DEFINE m == jobs[r].match
<1>1. Working(r) /\ jobs' = [jobs EXCEPT ![r] = Free] /\ owed' = owed \cup {m} /\ UNCHANGED <<rows, pools, clean>>
  BY DEF RefuseCommit, Working
<1>2. Stores'
  BY <1>1 DEF IInv, Stores
<1>3. Held' /\ jobs'[r] = Free
  BY <1>1, FreeHolds, HeldKept DEF IInv
<1>4. \A g \in Pool : isDecided(g)' <=> isDecided(g)
  BY <1>1 DEF isDecided
<1>5. Elsewhere(m)
  BY <1>1, <1>4 DEF Elsewhere
<1>6. owed \ {m} \subseteq owed' /\ m \in owed'
  BY <1>1
<1>7. Closing'
  BY <1>1, <1>5, <1>6, ClosingEnds DEF IInv
<1>8. Fresh(r)' /\ OnItsWay(r)'
  BY <1>3, FreeHolds DEF Fresh, OnItsWay
<1>9. clean => \A g \in Pool : (pools[g].state = "completed" => isDecided(g))'
  BY <1>1, <1>4 DEF IInv, Serial
<1>10. Serial'
  BY <1>1, <1>8, <1>9, FreeHolds, SerialKept DEF IInv
<1> QED BY <1>1, <1>2, <1>3, <1>7, <1>10 DEF IInv

LEMMA SaveReopenKept ==
  ASSUME IInv, NEW r \in Request, SaveReopen(r)
  PROVE  IInv'
<1> DEFINE job == jobs[r]
           m == job.match
<1>1. Working(r) /\ Holds(job) /\ job.at = "decide" /\ job.cmd = "reopen"
  BY DEF IInv, Held, SaveReopen, Working
<1>2. m \in Match /\ Stateful(job.copy)
  BY <1>1 DEF Holds
<1>3. PICK row \in Effect("reopen", job.copy) : rows' = [rows EXCEPT ![m] = row]
  BY DEF SaveReopen, Shown
<1>4. Stateful(row) /\ ~Completed(row)
  BY <1>2, ReopenUncompletes
<1>5. jobs' = [jobs EXCEPT ![r] = Free] /\ owed' = owed \ {m} /\ UNCHANGED <<pools, clean>>
  BY DEF SaveReopen, Finish
<1>6. Held' /\ jobs'[r] = Free
  BY <1>5, FreeHolds, HeldKept DEF IInv
<1>7. /\ Stores' /\ Elsewhere(m)
      /\ \A g \in Pool : m \notin Member[g] => (isDecided(g)' <=> isDecided(g))
      /\ \A g \in Pool : m \in Member[g] /\ ~Completed(row) => ~isDecided(g)'
  BY <1>2, <1>3, <1>4, <1>5, MatchWritten DEF IInv
<1>8. \A g \in Pool : g = PoolOf(m) => m \in Member[g]
  BY <1>2, OnePool
<1>9. Closing'
  BY <1>1, <1>4, <1>5, <1>7, <1>8, ClosingEnds DEF IInv
<1>10. Fresh(r)' /\ OnItsWay(r)'
  BY <1>6, FreeHolds DEF Fresh, OnItsWay
<1>11. ASSUME clean, NEW g \in Pool, pools'[g].state = "completed"
       PROVE  isDecided(g)'
  <2>1. g # PoolOf(m)
    BY <1>1, <1>5, <1>11 DEF IInv, Serial, OnItsWay
  <2>2. m \notin Member[g]
    BY <1>2, <2>1, OnePool
  <2> QED BY <1>5, <1>7, <1>11, <2>2 DEF IInv, Serial
<1>12. Serial'
  BY <1>1, <1>5, <1>10, <1>11, FreeHolds, SerialKept DEF IInv
<1> QED BY <1>5, <1>6, <1>7, <1>9, <1>12 DEF IInv

-----------------------------------------------------------------------------
(***************************************************************************)
(* Commands, scores and crashes.                                           *)
(***************************************************************************)

\* A request begins: alone, or with others at work from then on.
LEMMA BeginsKept ==
  ASSUME IInv, NEW r \in Request, NEW job, Holds(job), job.at \notin {"idle", "advancePool"}, job.held = None,
         Begins(r, job), UNCHANGED <<rows, pools, owed>>,
         clean /\ job.at = "decide" /\ job.cmd = "reopen" => pools[PoolOf(job.match)].state # "completed"
  PROVE  IInv'
<1>1. jobs[r] = Free /\ jobs' = [jobs EXCEPT ![r] = job] /\ (clean' => clean /\ Idle) /\ clean' \in BOOLEAN
  BY DEF Begins, IInv
<1>2. ~Working(r)
  BY <1>1, FreeHolds DEF Working
<1>3. Stores'
  BY DEF IInv, Stores
<1>4. Held' /\ jobs'[r] = job
  BY <1>1, HeldKept DEF IInv
<1>5. \A g \in Pool : isDecided(g)' <=> isDecided(g)
  BY DEF isDecided
<1>6. Elsewhere(job.match)
  BY <1>1, <1>5 DEF Elsewhere
<1>7. Closing'
  BY <1>1, <1>2, <1>6, ClosingKept DEF IInv
<1>8. clean' => Fresh(r)' /\ OnItsWay(r)'
  BY <1>1, <1>4 DEF Fresh, OnItsWay
<1>9. clean => \A g \in Pool : (pools[g].state = "completed" => isDecided(g))'
  BY <1>5 DEF IInv, Serial
<1>10. Serial'
  BY <1>1, <1>8, <1>9, SerialKept DEF IInv
<1> QED BY <1>1, <1>3, <1>4, <1>7, <1>10 DEF IInv

LEMMA CommitKept ==
  ASSUME IInv, NEW r \in Request, NEW m \in Match, Commit(r, m)
  PROVE  IInv'
<1>1. PICK order \in Orders(rows[m]) : Begins(r, Loaded("commit", m, order))
  BY DEF Commit
<1> DEFINE job == Loaded("commit", m, order)
<1>2. Holds(job) /\ job.at \in {"revert", "decide"} /\ job.cmd = "commit" /\ job.held = None
  BY LoadedHolds DEF IInv
<1>3. Begins(r, job) /\ UNCHANGED <<rows, pools, owed>>
  BY <1>1 DEF Commit
<1> HIDE DEF job
<1> QED BY <1>2, <1>3, BeginsKept

LEMMA AskReopenKept ==
  ASSUME IInv, NEW r \in Request, NEW m \in Match, AskReopen(r, m)
  PROVE  IInv'
<1> DEFINE job == [Free EXCEPT !.cmd = "reopen", !.match = m, !.at = "asked"]
<1>1. /\ DOMAIN job = JobFields /\ job.cmd = "reopen" /\ job.match = m /\ job.at = "asked"
      /\ job.todo = {} /\ job.held = None
  BY DEF Free, JobFields
<1>2. Begins(r, job) /\ UNCHANGED <<rows, pools, owed>>
  BY DEF AskReopen
<1> HIDE DEF job
<1>3. Holds(job)
  BY <1>1 DEF Holds, At
<1> QED BY <1>1, <1>2, <1>3, BeginsKept

\* A score neither gives a match a result nor takes it away.
LEMMA ScoreKept ==
  ASSUME IInv, NEW m \in Match, Score(m)
  PROVE  IInv'
<1>1. PICK row \in Effect("score", rows[m]) : rows' = [rows EXCEPT ![m] = row]
  BY DEF Score, Shown
<1>2. Stateful(row) /\ ~Completed(rows[m]) /\ ~Completed(row)
  BY ScoreUncompletes DEF IInv, Stores, Score
<1>3. UNCHANGED <<pools, jobs, owed>> /\ clean /\ (clean' => Idle) /\ clean' \in BOOLEAN
  BY DEF Score, IInv
<1>4. Stores'
  BY <1>1, <1>2, <1>3 DEF IInv, Stores
<1>5. Held'
  BY <1>3 DEF IInv, Held
<1>6. ASSUME NEW g \in Pool
      PROVE  isDecided(g)' <=> isDecided(g)
  <2>1. Member[g] \subseteq Match
    BY AdvancementAssumption
  <2>2. ASSUME NEW n \in Member[g]
        PROVE  Completed(rows[n])' <=> Completed(rows[n])
    <3>1. rows'[n] = IF n = m THEN row ELSE rows[n]
      BY <1>1, <2>1 DEF IInv, Stores
    <3> QED BY <1>2, <3>1 DEF Completed
  <2> QED BY <2>2, DecidedByItsOwn
<1>7. \A g \in Pool : Unfinished(g)' <=> Unfinished(g)
  BY <1>3 DEF Unfinished, Working
<1>8. Closing'
  BY <1>3, <1>6, <1>7 DEF IInv, Closing, Untouched
<1>9. clean' => \A r \in Request : ~Working(r)' /\ jobs'[r] = Free
  BY <1>3, FreeHolds DEF Idle, Working
<1>10. Serial'
  <2>1. clean' => Alone' /\ \A r \in Request : Fresh(r)' /\ OnItsWay(r)'
    BY <1>9, FreeHolds DEF Alone, Fresh, OnItsWay
  <2>2. \A g \in Pool : (pools[g].state = "completed" => isDecided(g))'
    BY <1>3, <1>6 DEF IInv, Serial
  <2> QED BY <2>1, <2>2 DEF Serial
<1> QED BY <1>3, <1>4, <1>5, <1>8, <1>10 DEF IInv

\* What a crash cuts short is owed.
LEMMA CrashKept ==
  ASSUME IInv, Crash
  PROVE  IInv'
<1>1. /\ jobs' = [r \in Request |-> Free] /\ UNCHANGED <<rows, pools, clean>>
      /\ owed' = owed \cup {jobs[r].match : r \in {q \in Request : jobs[q] # Free}}
  BY DEF Crash
<1>2. Stores'
  BY <1>1 DEF IInv, Stores
<1>3. Held'
  BY <1>1, FreeHolds DEF Held
<1>4. \A g \in Pool : isDecided(g)' <=> isDecided(g)
  BY <1>1 DEF isDecided
<1>5. ASSUME NEW g \in Pool, Unfinished(g)
      PROVE  Unfinished(g)'
  <2>1. CASE \E r \in Request : Working(r) /\ jobs[r].match \in Member[g]
    <3>1. PICK r \in Request : Working(r) /\ jobs[r].match \in Member[g]
      BY <2>1
    <3>2. jobs[r] # Free
      BY <3>1, FreeHolds DEF Working
    <3>3. jobs[r].match \in owed'
      BY <1>1, <3>2
    <3> QED BY <3>1, <3>3 DEF Unfinished
  <2>2. CASE owed \cap Member[g] # {}
    <3>1. owed' \cap Member[g] # {}
      BY <1>1, <2>2
    <3> QED BY <3>1 DEF Unfinished
  <2> QED BY <1>5, <2>1, <2>2 DEF Unfinished
<1>6. Closing'
  BY <1>1, <1>4, <1>5 DEF IInv, Closing, Untouched
<1>7. \A r \in Request : jobs'[r].at = "idle" /\ jobs'[r].held = None
  BY <1>1, FreeHolds
<1>8. Serial'
  <2>1. Alone' /\ \A r \in Request : Fresh(r)' /\ OnItsWay(r)'
    BY <1>7 DEF Alone, Working, Fresh, OnItsWay
  <2>2. clean' => \A g \in Pool : (pools[g].state = "completed" => isDecided(g))'
    BY <1>1, <1>4 DEF IInv, Serial
  <2> QED BY <2>1, <2>2 DEF Serial
<1> QED BY <1>1, <1>2, <1>3, <1>6, <1>8 DEF IInv

LEMMA NextKept ==
  ASSUME IInv, [Next]_vars
  PROVE  IInv'
<1>1. ASSUME NEW m \in Contested, Score(m)
      PROVE  IInv'
  BY <1>1, ScoreKept, AdvancementAssumption
<1>2. ASSUME NEW m \in Contested, NEW r \in Request, Commit(r, m) \/ AskReopen(r, m)
      PROVE  IInv'
  BY <1>2, CommitKept, AskReopenKept, AdvancementAssumption
<1>3. ASSUME NEW r \in Request, Step(r)
      PROVE  IInv'
  BY <1>3, ReloadKept, LoadTargetKept, SaveTargetKept, LoadPoolKept, RevertPoolKept, ClosePoolKept,
     SaveCommitKept, RefuseCommitKept, SaveReopenKept DEF Step
<1>4. CASE UNCHANGED vars
  <2>1. Stores' /\ Held' /\ clean' \in BOOLEAN
    BY <1>4 DEF vars, IInv, Stores, Held
  <2>2. \A g \in Pool : (isDecided(g)' <=> isDecided(g)) /\ (Unfinished(g)' <=> Unfinished(g))
    BY <1>4 DEF vars, isDecided, Unfinished, Working
  <2>3. Closing'
    BY <1>4, <2>2 DEF vars, IInv, Closing, Untouched
  <2>4. \A r \in Request : Fresh(r) /\ OnItsWay(r) => Fresh(r)' /\ OnItsWay(r)'
    BY <1>4 DEF vars, Fresh, OnItsWay, isDecided
  <2>5. Alone => Alone'
    BY <1>4 DEF vars, Alone, Working
  <2>6. Serial'
    BY <1>4, <2>2, <2>4, <2>5 DEF vars, IInv, Serial
  <2> QED BY <2>1, <2>3, <2>6 DEF IInv
<1> QED BY <1>1, <1>2, <1>3, <1>4, CrashKept DEF Next

(***************************************************************************)
(* However commits and reopenings overlap, crash and come again, the last  *)
(* of them leaves the pool of its match completed if each match in it has  *)
(* a result (advancement.runner.ts, updatePhaseGroupCompletion), and while *)
(* they come one after another a pool is completed only then.              *)
(***************************************************************************)
THEOREM DecidedPoolsAreCompleted == Spec => []DecidedPoolIsCompleted
<1>1. Init => IInv
  BY InitHolds
<1>2. IInv /\ [Next]_vars => IInv'
  BY NextKept
<1>3. IInv => DecidedPoolIsCompleted
  <2> SUFFICES ASSUME IInv, Idle, owed = {}, NEW g \in Pool
               PROVE  /\ clean => (pools[g].state = "completed" <=> isDecided(g))
                      /\ Untouched(g) /\ isDecided(g) => pools[g].state = "completed"
    BY DEF DecidedPoolIsCompleted
  <2>1. \A r \in Request : ~Working(r)
    BY FreeHolds DEF Idle, Working
  <2>2. ~Unfinished(g)
    BY <2>1 DEF Unfinished
  <2> QED BY <2>2 DEF IInv, Closing, Serial
<1> QED BY <1>1, <1>2, <1>3, PTL DEF Spec

=============================================================================
