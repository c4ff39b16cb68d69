---------------------------- MODULE Advancement ----------------------------
(***************************************************************************)
(* Where the entrants of a finished match go next: commitResult and        *)
(* reopenResult of MatchCommands, the AdvancementRunner both walk, the     *)
(* pools (PhaseGroupAggregate) it fills and closes, and the guard that     *)
(* asks whether a result may be taken back.                                *)
(*                                                                         *)
(* Nothing here is one transaction.  A command loads its match, then loads *)
(* and saves one target after another, each whole, then its pool; Requests *)
(* interleave between any two of those, and the server may go down there.  *)
(* The recalculation of a schedule after each save is ControlRoom's.       *)
(*                                                                         *)
(* A definition under a comment "Slip:" is not the code but the definition *)
(* that follows it with a plausible mistake in it.                         *)
(***************************************************************************)
EXTENDS MatchRow, Sequences, SequencesExt, FiniteSetsExt, Functions, TLC

CONSTANTS
  Match, Pool, \* what the structure of the tournament holds
  Member,      \* the matches of each pool
  Rules,       \* [source, placement, target]: who comes where goes there
  Field,       \* who is in each match before anybody advances
  Seated,      \* who is seated in each pool before anybody advances
  Contested,   \* the matches that are played in this instance
  Judged,      \* bound: the states told apart of a match without a result
  Request,     \* the requests served at once
  ByHand,      \* the rule of a seat that no rule gave
  None,        \* nothing held
  MaxCrashes   \* bound: how often the server goes down

\* assertValidAdvancementRules, and every match in one pool.
ASSUME AdvancementAssumption ==
  /\ Rules \subseteq [source: Match \cup Pool, placement: Nat \ {0}, target: Match \cup Pool]
  /\ \A r \in Rules : r.source # r.target
  /\ \A r, s \in Rules : r.source = s.source /\ r.placement = s.placement => r = s
  /\ Match \cap Pool = {} /\ \A g \in Pool : Member[g] \subseteq Match
  /\ \A m \in Match : \E g \in Pool : \A h \in Pool : m \in Member[h] <=> h = g
  /\ Player \subseteq Nat /\ Contested \subseteq Match
  /\ \A m \in Match : {"open", "ready"} \subseteq Judged[m] /\ Judged[m] \subseteq MatchState

VARIABLES
  rows,    \* the rows of the matches
  pools,   \* the rows of the pools, with their seats
  jobs,    \* what each request is in the middle of
  stale,   \* completed matches whose field changed since their result
  owed,    \* history: matches whose last command on the result stopped midway
  clean,   \* history: every command ran alone, and finished what was owed first
  crashes
vars == <<rows, pools, jobs, stale, owed, clean, crashes>>

-----------------------------------------------------------------------------
(***************************************************************************)
(* Matches and pools as the walk reads them.                               *)
(***************************************************************************)

\* Of the rows an edit may leave, those this instance tells apart.
Shown(m, some) == {row \in some : row.state \in Judged[m] \cup {"completed"}}

PoolOf(m) == CHOOSE g \in Pool : m \in Member[g]

\* entrantsByPlacement: those of the result, then the others as they come.
Orders(row) ==
  LET placed == {p \in row.players : row.result[p] > 0}
      First(p, q) == row.result[p] < row.result[q]
  IN  {SetToSortSeq(placed, First) \o others : others \in SetToSeqs(row.players \ placed)}

isDecided(g) == Member[g] # {} /\ \A m \in Member[g] : Completed(rows[m])

\* The points of a result are taken to follow its order: data the walk only
\* compares.
PointsOf(row, p) ==
  IF p \notin row.players \/ row.result[p] = 0 THEN 0 ELSE 1 + Cardinality(Player) - row.result[p]

\* poolTotals: best total first, an equal total by the id of the entrant.
placements(g) ==
  LET entrants == UNION {rows[m].players : m \in Member[g]}
      total == [p \in entrants |-> MapThenSumSet(LAMBDA m : PointsOf(rows[m], p), Member[g])]
      Better(p, q) == total[p] > total[q] \/ (total[p] = total[q] /\ p < q)
  IN  SetToSortSeq(entrants, Better)

place(pool, who)   == [pool EXCEPT !.seats = who @@ @]
release(pool, who) == [pool EXCEPT !.seats = Restrict(@, DOMAIN @ \ DOMAIN who), !.advanced = @ \ DOMAIN who]

\* Slip: everybody the rules moved is marked, seated here or not.
ClosedForAll(pool, moved) == [pool EXCEPT !.state = "completed", !.advanced = moved]

\* complete and reopen, with the seats that markAdvanced names.
Closed(pool, moved) == [pool EXCEPT !.state = "completed", !.advanced = DOMAIN pool.seats \cap moved]
Opened(pool)        == [pool EXCEPT !.state = "active", !.advanced = {}]

-----------------------------------------------------------------------------
(***************************************************************************)
(* The walk over the rules that leave a competition.                       *)
(***************************************************************************)

\* findBySource, and the rules whose placement somebody holds.
Leaving(source, order) == {r \in Rules : r.source = source /\ r.placement <= Len(order)}

\* applyRules: a write per rule that ends in a match and one per pool, each with
\* the entrants it moves, the rules that move them and the first of these.
Walk(source, order) ==
  LET leaving == Leaving(source, order)
      Write(target, rules) ==
        [to |-> target, first |-> Min({r.placement : r \in rules}),
         who |-> [p \in {order[r.placement] : r \in rules} |-> CHOOSE r \in rules : order[r.placement] = p]]
  IN  {Write(r.target, {r}) : r \in {s \in leaving : s.target \in Match}}
      \cup {Write(g, {r \in leaving : r.target = g}) : g \in Pool \cap {r.target : r \in leaving}}

\* The matches are written before the pools, each in the order of the rules.
Ahead(write, other) ==
  \/ write.to \in Match /\ other.to \in Pool
  \/ (write.to \in Match <=> other.to \in Match) /\ write.first < other.first

\* What a walk moved.
Moved(walk) == UNION {DOMAIN write.who : write \in walk}

\* The target of one write after it: the rows or the pools it may become.
Written(job) ==
  LET write == job.write
      p == CHOOSE q \in DOMAIN write.who : TRUE
      placing == job.at \in {"advance", "advancePool"}
  IN  IF write.to \in Match
      THEN Shown(write.to, IF placing THEN Placed(job.held, p) ELSE Released(job.held, p))
      ELSE {IF placing THEN place(job.held, write.who) ELSE release(job.held, write.who)}

\* writeTargetMatch saves nothing when there is nobody to remove.
NobodyToRemove(job) ==
  /\ job.at \in {"revert", "revertPool"} /\ job.write.to \in Match
  /\ DOMAIN job.write.who \cap job.held.players = {}

-----------------------------------------------------------------------------
(***************************************************************************)
(* The guard of a rollback.                                                *)
(***************************************************************************)

\* impactsOf: the rules that would be undone, with whom they moved.  The rules
\* of the pool count only once it is completed.
impactsOf(m, order) ==
  LET of(source, at) == {<<r, at[r.placement]>> : r \in Leaving(source, at)}
      g == PoolOf(m)
  IN  of(m, order) \cup (IF pools[g].state = "completed" THEN of(g, placements(g)) ELSE {})

\* Slip: only a committed result counts as progress.
ProgressedByResult(m) == Completed(rows[m])

\* PROGRESSED_MATCHES and PROGRESSED_POOLS: every state above open is evidence.
Progressed(m) == rows[m].state # "open"

\* blockingMatches and blockingPhaseGroups.
Blocked(m, order) ==
  \E impact \in impactsOf(m, order) :
    LET rule == impact[1]  p == impact[2]  target == rule.target
    IN  \/ target \in Match /\ p \in rows[target].players /\ Progressed(target)
        \/ /\ target \in Pool
           /\ \E q \in DOMAIN pools[target].seats : pools[target].seats[q] = rule
           /\ \E n \in Member[target] : Progressed(n)

-----------------------------------------------------------------------------
Free == [cmd |-> None, match |-> None, at |-> "idle", copy |-> None, doubt |-> FALSE,
         todo |-> {}, write |-> None, held |-> None, pool |-> None, moved |-> {}]

Idle == \A r \in Request : jobs[r] = Free

Init ==
  /\ rows = [m \in Match |-> [EmptyRow EXCEPT !.players = Field[m], !.rounds = TRUE]]
  /\ pools = [g \in Pool |-> [state |-> "pending", seats |-> [p \in Seated[g] |-> ByHand], advanced |-> {}]]
  /\ jobs = [r \in Request |-> Free]
  /\ stale = {} /\ owed = {} /\ clean = TRUE /\ crashes = 0

\* A command begins: alone or not, and on what is owed or on something else.
\* Bound: commands overlap once, then nobody plays and the server stays up.
Begins(r, job) ==
  /\ jobs[r] = Free /\ (Idle \/ (clean /\ crashes = 0))
  /\ jobs' = [jobs EXCEPT ![r] = job]
  /\ clean' = (clean /\ Idle /\ owed \subseteq {job.match})

\* Slip: nothing is taken back before the new result.
LoadedAsNew(cmd, m, order) ==
  [Free EXCEPT !.cmd = cmd, !.match = m, !.copy = rows[m], !.doubt = m \in stale, !.at = "decide"]

\* The match as it was loaded: a completed one is taken back first.
Loaded(cmd, m, order) ==
  LET done == Completed(rows[m])
  IN  [Free EXCEPT !.cmd = cmd, !.match = m, !.copy = rows[m], !.doubt = m \in stale,
                   !.at = IF done THEN "revert" ELSE "decide", !.todo = IF done THEN Walk(m, order) ELSE {}]

\* commitResult, up to the first write.  A match that can neither be committed
\* nor was is refused where nothing has changed.
Commit(r, m) ==
  /\ Passed(rows[m])
  /\ \E order \in Orders(rows[m]) : Begins(r, Loaded("commit", m, order))
  /\ UNCHANGED <<rows, pools, stale, owed, crashes>>

\* reopenResult asks first, ...
AskReopen(r, m) ==
  /\ \E order \in Orders(rows[m]) : Completed(rows[m]) => ~Blocked(m, order)
  /\ Begins(r, [Free EXCEPT !.cmd = "reopen", !.match = m, !.at = "asked"])
  /\ UNCHANGED <<rows, pools, stale, owed, crashes>>

\* ... and loads the match again for the rest.
Reload(r) ==
  /\ jobs[r].at = "asked"
  /\ \E order \in Orders(rows[jobs[r].match]) :
       jobs' = [jobs EXCEPT ![r] = Loaded("reopen", @.match, order)]
  /\ UNCHANGED <<rows, pools, stale, owed, clean, crashes>>

LoadTarget(r) ==
  /\ jobs[r].held = None
  /\ \E write \in jobs[r].todo :
       LET target == IF write.to \in Match THEN rows[write.to] ELSE pools[write.to]
           rest == jobs[r].todo \ {write}
       IN  /\ \A other \in rest : Ahead(write, other)
           /\ jobs' = [jobs EXCEPT ![r] = [jobs[r] EXCEPT !.todo = rest, !.write = write, !.held = target]]
  /\ UNCHANGED <<rows, pools, stale, owed, clean, crashes>>

\* The rest of writeTargetMatch and writeTargetPool: the target is saved whole.
SaveTarget(r) ==
  LET job == jobs[r]  to == job.write.to
  IN  /\ job.held # None
      /\ IF NobodyToRemove(job) THEN UNCHANGED <<rows, pools, stale>>
         ELSE \E new \in Written(job) :
                IF to \in Match
                THEN /\ rows' = [rows EXCEPT ![to] = new]
                     /\ stale' = IF Completed(new) /\ new.players # job.held.players THEN stale \cup {to} ELSE stale
                     /\ UNCHANGED pools
                ELSE pools' = [pools EXCEPT ![to] = new] /\ UNCHANGED <<rows, stale>>
      /\ jobs' = [jobs EXCEPT ![r] = [job EXCEPT !.write = None, !.held = None]]
      /\ UNCHANGED <<owed, clean, crashes>>

Finish(r) ==
  /\ jobs' = [jobs EXCEPT ![r] = Free]
  /\ owed' = owed \ {jobs[r].match}

Walked(job) == job.todo = {} /\ job.held = None

\* Slip: a pool is closed the first time only.
DecidesOnce(r) == LET g == PoolOf(jobs[r].match) IN isDecided(g) /\ pools[g].state = "pending"

\* What updatePhaseGroupCompletion asks of the pool it has just loaded.
Decides(r) == isDecided(PoolOf(jobs[r].match))

\* updatePhaseGroupCompletion and revertPhaseGroupCompletion: the pool is
\* loaded and its own rules are walked; an undecided pool is left alone.
LoadPool(r) ==
  LET job == jobs[r]  g == PoolOf(job.match)  walk == Walk(g, placements(g))
  IN  /\ job.at \in {"revert", "advance"} /\ Walked(job)
      /\ IF job.at = "advance" /\ ~Decides(r) THEN Finish(r)
         ELSE /\ jobs' = [jobs EXCEPT ![r] = [job EXCEPT !.at = IF job.at = "revert" THEN "revertPool" ELSE "advancePool",
                                                         !.pool = pools[g], !.todo = walk, !.moved = Moved(walk)]]
              /\ UNCHANGED owed
      /\ UNCHANGED <<rows, pools, stale, clean, crashes>>

RevertPool(r) ==
  /\ jobs[r].at = "revertPool" /\ Walked(jobs[r])
  /\ pools' = [pools EXCEPT ![PoolOf(jobs[r].match)] = Opened(jobs[r].pool)]
  /\ jobs' = [jobs EXCEPT ![r] = [jobs[r] EXCEPT !.at = "decide", !.pool = None, !.moved = {}]]
  /\ UNCHANGED <<rows, stale, owed, clean, crashes>>

ClosePool(r) ==
  /\ jobs[r].at = "advancePool" /\ Walked(jobs[r])
  /\ pools' = [pools EXCEPT ![PoolOf(jobs[r].match)] = Closed(jobs[r].pool, jobs[r].moved)]
  /\ Finish(r)
  /\ UNCHANGED <<rows, stale, clean, crashes>>

\* The result the aggregate may decide on: a repeated commit over an unchanged
\* field finds the same, and one over a changed field any or none.
CommitEffect(job) ==
  IF Completed(job.copy) /\ ~job.doubt THEN {job.copy} ELSE Effect("commit", job.copy)

SaveCommit(r) ==
  LET job == jobs[r]  m == job.match
  IN  /\ job.at = "decide" /\ job.cmd = "commit"
      /\ \E row \in CommitEffect(job) : \E order \in Orders(row) :
           /\ rows' = [rows EXCEPT ![m] = row]
           /\ jobs' = [jobs EXCEPT ![r] = [job EXCEPT !.at = "advance", !.todo = Walk(m, order),
                                                      !.copy = row, !.doubt = FALSE]]
      /\ stale' = stale \ {m}
      /\ UNCHANGED <<pools, owed, clean, crashes>>

\* commit throws: what the first result gave is taken back, and stays so.
RefuseCommit(r) ==
  /\ jobs[r].at = "decide" /\ jobs[r].cmd = "commit" /\ jobs[r].doubt
  /\ jobs' = [jobs EXCEPT ![r] = Free]
  /\ owed' = owed \cup {jobs[r].match}
  /\ UNCHANGED <<rows, pools, stale, clean, crashes>>

SaveReopen(r) ==
  LET job == jobs[r]
  IN  /\ job.at = "decide" /\ job.cmd = "reopen"
      /\ \E row \in Shown(job.match, Effect("reopen", job.copy)) : rows' = [rows EXCEPT ![job.match] = row]
      /\ stale' = stale \ {job.match}
      /\ Finish(r)
      /\ UNCHANGED <<pools, clean, crashes>>

\* Somebody plays a match; its own races are ControlRoom's.
Score(m) ==
  /\ clean /\ Editable("score", rows[m])
  /\ \E row \in Shown(m, Effect("score", rows[m])) : row # rows[m] /\ rows' = [rows EXCEPT ![m] = row]
  /\ clean' = (clean /\ Idle)
  /\ UNCHANGED <<pools, jobs, stale, owed, crashes>>

Crash ==
  /\ crashes < MaxCrashes /\ ~Idle /\ clean
  /\ crashes' = crashes + 1
  /\ owed' = owed \cup {jobs[r].match : r \in {q \in Request : jobs[q] # Free}}
  /\ jobs' = [r \in Request |-> Free]
  /\ UNCHANGED <<rows, pools, stale, clean>>

Step(r) ==
  \/ Reload(r) \/ LoadTarget(r) \/ SaveTarget(r) \/ LoadPool(r) \/ RevertPool(r) \/ ClosePool(r)
  \/ SaveCommit(r) \/ RefuseCommit(r) \/ SaveReopen(r)

Next ==
  \/ \E m \in Contested : Score(m) \/ \E r \in Request : Commit(r, m) \/ AskReopen(r, m)
  \/ \E r \in Request : Step(r)
  \/ Crash

Spec == Init /\ [][Next]_vars
=============================================================================
