------------------------ MODULE AdvancementProperties ------------------------
(***************************************************************************)
(* What advancement promises about the matches and pools that rules fill.  *)
(***************************************************************************)
EXTENDS Advancement

PoolRow ==
  [state: {"pending", "active", "completed"},
   seats: UNION {[ps -> Rules \cup {ByHand}] : ps \in SUBSET Player}, advanced: SUBSET Player]

At == {"idle", "asked", "revert", "revertPool", "decide", "advance", "advancePool"}

\* Every row is one its store can hold, a seat marked as advanced is a seat,
\* and a request that holds a target has a write to make with it.
TypeOK ==
  /\ rows \in [Match -> Row] /\ stale \cup owed \subseteq Match
  /\ pools \in [Pool -> PoolRow]
  /\ \A g \in Pool : pools[g].advanced \subseteq DOMAIN pools[g].seats
  /\ \A r \in Request :
       /\ jobs[r].at \in At
       /\ jobs[r].held # None <=> jobs[r].write # None
       /\ jobs[r].pool # None <=> jobs[r].at \in {"revertPool", "advancePool"}
  /\ clean \in BOOLEAN /\ crashes \in 0..MaxCrashes

-----------------------------------------------------------------------------
SourceDecided(source) == IF source \in Match THEN Completed(rows[source]) ELSE isDecided(source)

OrderOf(source) == IF source \in Match THEN CHOOSE order \in Orders(rows[source]) : TRUE ELSE placements(source)

\* The players whom the results in force send to a target.
Earned(target) ==
  {OrderOf(r.source)[r.placement] :
     r \in {s \in Rules : s.target = target /\ SourceDecided(s.source) /\ s.placement <= Len(OrderOf(s.source))}}

\* Nothing is under way, nothing was left midway, no two commands overlapped.
Quiet == Idle /\ owed = {} /\ clean

\* Between commands, each target holds exactly the entrants it started with and
\* those the results in force send there.  A command that a crash cut short is
\* repaired by committing or reopening its match again.  (Of two stages: nothing
\* carries a corrected result on through a match that was itself committed.)
TargetsHoldTheEarned ==
  Quiet =>
    /\ \A m \in Match : rows[m].players = Field[m] \cup Earned(m)
    /\ \A g \in Pool : DOMAIN pools[g].seats = Seated[g] \cup Earned(g)

\* No rule writes this pool or a match in it.
Untouched(g) == \A r \in Rules : r.target # g /\ r.target \notin Member[g]

\* Once nothing is under way and nothing was left midway: if commands came one
\* after another, a pool is completed exactly when each match in it has a result;
\* and whatever commands overlapped, crashed or came again, an untouched pool
\* whose matches all have a result is completed: the last of several commands
\* closes it, none waits for another.  (In a pool that rules write to, a target
\* saved as it was loaded may bring back a state, or a result, that was just
\* taken back, and nobody closes or opens the pool after it.)
DecidedPoolIsCompleted ==
  Idle /\ owed = {} =>
    \A g \in Pool :
      /\ clean => (pools[g].state = "completed" <=> isDecided(g))
      /\ Untouched(g) /\ isDecided(g) => pools[g].state = "completed"

\* The targets a request changes the field of in this step.
Changes(r) ==
  {m \in Match : rows'[m].players # rows[m].players}
    \cup UNION {Member[g] : g \in {h \in Pool : DOMAIN pools'[h].seats # DOMAIN pools[h].seats}}

\* A result that is taken back with nothing else going on changes the field of
\* no match, and the seats of no pool, where somebody has already scored.  (After
\* a crash it may: the guard looks at the rules of a pool only once the pool is
\* completed, and a crash leaves a pool that moved people on and never closed.)
ReopenSparesProgress ==
  [][\A r \in Request :
       jobs[r].cmd = "reopen" /\ clean /\ crashes = 0 => \A m \in Changes(r) : rows[m].state = "open"]_vars
=============================================================================
