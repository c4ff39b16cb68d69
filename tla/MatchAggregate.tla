--------------------------- MODULE MatchAggregate ---------------------------
(***************************************************************************)
(* One match, edited by MatchCommands: who plays, the rounds and what was  *)
(* scored in them, the tiebreak attempts, and the committed result.  Every *)
(* command but a change of the advancement rules loads the match, edits it *)
(* and saves it whole, and is one action here; ControlRoom interleaves     *)
(* them.  A save writes the state column, which is all that the schedule,  *)
(* the tree and the rollback guard read of a match.                        *)
(*                                                                         *)
(* An invalidated attempt is never read again: invalidating drops it.      *)
(***************************************************************************)
EXTENDS Placement, Functions

CONSTANTS
  Song,          \* songs a round can be played on
  Hand,          \* the source of the round that is scored by hand
  Points,        \* the points a person can state
  Routings,      \* the routings the rules of the match may give: placements to outcomes
  Late,          \* TRUE: a song may be applied to a match that changed since its lookup
  Overlap,       \* TRUE: a command may run between the two halves of refreshState
  MaxAttempts,   \* bound: attempts that are valid at a time
  MaxRuns        \* bound: runs of one completed song

ASSUME AggregateAssumption ==
  /\ Hand \notin Song /\ IsFiniteSet(Song)
  /\ Points \subseteq Nat /\ 0 \in Points
  /\ Late \in BOOLEAN /\ Overlap \in BOOLEAN
  /\ MaxAttempts \in Nat /\ MaxRuns \in Nat

VARIABLES
  match,    \* the aggregate
  route,    \* outcomeOf each placement, by the advancement rules
  column,   \* match."state"
  refresh,  \* the state that refreshState has read and not written, or Idle
  told      \* ghost: what the last recalculation of its schedule read

vars == <<match, route, column, refresh, told>>

NoScore == [percentage |-> Null, failed |-> FALSE]
Idle == "idle"

\* A standing of a round, an attempt of a tiebreak, and what a commit froze:
\* the place of each player, nothing while there is none.
Standing == [score: Score \cup {NoScore}, points: Nat]
Evidence == [score: Score \cup {NoScore}, points: Points]
Attempt == [song: BOOLEAN, standings: UNION {[ps -> Evidence] : ps \in SUBSET Player}]
NotCommitted == <<>>

-----------------------------------------------------------------------------
(***************************************************************************)
(* What the aggregate answers.                                             *)
(***************************************************************************)

isCompleted(m) == m.result # NotCommitted

HandScored(m) == Hand \in DOMAIN m.rounds

isRoundComplete(m, standings) == m.players # {} /\ m.players \subseteq DOMAIN standings

RoundSettled(m, s) ==
  IF s = Hand THEN \E p \in DOMAIN m.rounds[s] : m.rounds[s][p].points > 0
              ELSE isRoundComplete(m, m.rounds[s])

hasEvidence(m) ==
  \E s \in DOMAIN m.rounds : \E p \in DOMAIN m.rounds[s] :
    m.rounds[s][p].score # NoScore \/ m.rounds[s][p].points > 0

\* calculatePoints, once every round is settled.
PointsOf(m, p) ==
  Total([s \in DOMAIN m.rounds |-> IF p \in DOMAIN m.rounds[s] THEN m.rounds[s][p].points ELSE 0])

calculatePoints(m) == [p \in m.players |-> PointsOf(m, p)]

\* averagePercentageOf: over the runs that did not fail.
averagePercentageOf(m, p) ==
  LET played == {s \in DOMAIN m.rounds :
                   p \in DOMAIN m.rounds[s] /\ m.rounds[s][p].score # NoScore /\ ~m.rounds[s][p].score.failed}
  IN  Average([s \in played |-> m.rounds[s][p].score.percentage])

isTiebreakComplete(t) ==
  /\ Cardinality(DOMAIN t.standings) >= 2
  /\ IF t.song THEN \A p \in DOMAIN t.standings : t.standings[p].score # NoScore
               ELSE \E p \in DOMAIN t.standings : t.standings[p].points > 0

\* tiebreakPlacementInputs: the resolver skips the attempts that are not
\* complete, here the evidence of nobody.
tiebreakPlacementInputs(m) ==
  LET entry(t, p) == IF t.song THEN [failed |-> t.standings[p].score.failed, value |-> t.standings[p].score.percentage]
                               ELSE [failed |-> FALSE, value |-> t.standings[p].points]
  IN  [i \in DOMAIN m.attempts |->
         IF isTiebreakComplete(m.attempts[i])
         THEN [p \in DOMAIN m.attempts[i].standings |-> entry(m.attempts[i], p)]
         ELSE <<>>]

Settles(m) == m.players # {} /\ DOMAIN m.rounds # {} /\ \A s \in DOMAIN m.rounds : RoundSettled(m, s)

calculatedResultState(m, r) ==
  IF ~Settles(m) THEN [status |-> "incomplete", place |-> NotCommitted, ambiguousTies |-> {}]
  ELSE LET done == resolvePlacements(calculatePoints(m), tiebreakPlacementInputs(m), r,
                                     [p \in m.players |-> averagePercentageOf(m, p)])
       IN  [status |-> IF done.ambiguousTies = {} THEN "ready" ELSE "tiebreak_required",
            place |-> done.place, ambiguousTies |-> done.ambiguousTies]

\* The getter `state`.
state(m, r) ==
  IF isCompleted(m) THEN "completed"
  ELSE LET status == calculatedResultState(m, r).status
       IN  IF status # "incomplete" THEN status ELSE IF hasEvidence(m) THEN "partial" ELSE "open"

\* What a schedule reads of a match: recalculateScheduleIfMoved compares it.
Verdict(st) == [completed |-> st = "completed", awaitingCommit |-> st = "ready"]

-----------------------------------------------------------------------------
(***************************************************************************)
(* Edits in memory.  Each answers the set of matches it may produce.       *)
(***************************************************************************)

\* Slip: an attempt stands until somebody removes it.
KeepAttempts(m) == m

invalidateTiebreaks(m) == [m EXCEPT !.attempts = <<>>]

\* rankIfComplete
Ranked(m, standings) ==
  IF ~isRoundComplete(m, standings) THEN {standings}
  ELSE {[p \in DOMAIN standings |-> [standings[p] EXCEPT !.points = points[p]]] :
          points \in Awards(m.system, [p \in DOMAIN standings |-> standings[p].score])}

Zeroed(standings) == [p \in DOMAIN standings |-> [standings[p] EXCEPT !.points = 0]]

\* Slip: a round that is still complete keeps the points it has.
ResettledAsItWas(m, s) ==
  LET kept == Restrict(m.rounds[s], m.players \cap DOMAIN m.rounds[s])
  IN  IF s = Hand \/ isRoundComplete(m, kept) THEN {kept} ELSE {Zeroed(kept)}

\* resettle, of one round.
ResettledRound(m, s) ==
  LET kept == Restrict(m.rounds[s], m.players \cap DOMAIN m.rounds[s])
  IN  IF s = Hand THEN {kept}
      ELSE IF isRoundComplete(m, kept) THEN Ranked(m, kept) ELSE {Zeroed(kept)}

resettle(m) ==
  LET rounds == {f \in [DOMAIN m.rounds -> UNION {ResettledRound(m, s) : s \in DOMAIN m.rounds}] :
                   \A s \in DOMAIN m.rounds : f[s] \in ResettledRound(m, s)}
  IN  {[invalidateTiebreaks(m) EXCEPT !.rounds = f] : f \in rounds}

WithPlayers(m, players) == resettle([m EXCEPT !.players = players])

\* What new says, and standings where it says nothing (writeStanding, of the
\* scores or points of some players).
Written(standings, new) ==
  [p \in DOMAIN new \cup DOMAIN standings |-> IF p \in DOMAIN new THEN new[p] ELSE standings[p]]

\* The songs of a round source; the database refuses a song twice.
WithRounds(m, sources) ==
  [invalidateTiebreaks(m) EXCEPT !.rounds = Written(@, [s \in sources |-> <<>>])]

WithoutRound(m, s) ==
  [invalidateTiebreaks(m) EXCEPT !.rounds = Restrict(@, DOMAIN @ \ {s})]

\* upsertScore, once for each run.
WithScores(m, s, runs) ==
  {invalidateTiebreaks([m EXCEPT !.rounds[s] = ranked]) :
     ranked \in Ranked(m, Written(m.rounds[s], [p \in DOMAIN runs |-> [score |-> runs[p], points |-> 0]]))}

WithPoints(m, p, points) ==
  invalidateTiebreaks([m EXCEPT !.rounds[Hand] = Written(@, [q \in {p} |-> [score |-> NoScore, points |-> points]])])

WithoutStanding(m, s, p) ==
  LET rest == Restrict(m.rounds[s], DOMAIN m.rounds[s] \ {p})
  IN  invalidateTiebreaks([m EXCEPT !.rounds[s] = IF s = Hand THEN rest ELSE Zeroed(rest)])

\* assertRoundSourceAllowed, for songs and for the round that is scored by hand.
RoundSourceAllowed(m, sources) == IF sources \subseteq Song THEN ~HandScored(m) ELSE DOMAIN m.rounds = {}

\* removeRound keeps the scores of a song.
RemovableRounds(m) == {s \in DOMAIN m.rounds : s = Hand \/ DOMAIN m.rounds[s] = {}}

\* addTiebreak, for one of the ties that block the match.
WithAttempt(m, r, song) ==
  IF \A i \in DOMAIN m.attempts : isTiebreakComplete(m.attempts[i])
  THEN {[m EXCEPT !.attempts = Append(@, [song |-> song, standings |-> [p \in tie |-> [score |-> NoScore, points |-> 0]]])] :
          tie \in calculatedResultState(m, r).ambiguousTies}
  ELSE {}

\* upsertTiebreakScore, upsertTiebreakPoints and clearTiebreakStanding.
WithEvidence(m, i, p, score, points) ==
  [m EXCEPT !.attempts[i].standings[p] = [score |-> score, points |-> points]]

\* Slip: a match is committed as soon as its rounds are played.
CommitAnyway(m, r) ==
  LET current == calculatedResultState(m, r)
  IN  IF current.status # "incomplete" THEN {[m EXCEPT !.result = current.place, !.active = FALSE]} ELSE {}

\* commit, of a completed match as well.
commit(m, r) ==
  LET current == calculatedResultState(m, r)
  IN  IF current.status = "ready" THEN {[m EXCEPT !.result = current.place, !.active = FALSE]} ELSE {}

reopen(m) == [m EXCEPT !.result = NotCommitted, !.active = FALSE]

-----------------------------------------------------------------------------
(***************************************************************************)
(* Commands.                                                               *)
(***************************************************************************)

Init ==
  \E players \in SUBSET Player, songs \in SUBSET Song, system \in System :
    /\ match = [players |-> players, system |-> system, rounds |-> [s \in songs |-> <<>>],
                attempts |-> <<>>, active |-> FALSE, result |-> NotCommitted]
    /\ route \in Routings
    /\ column = "open" /\ refresh = Idle /\ told = Verdict("open")

\* Slip: only a result that is written or taken back moves the schedule.
SaveOnResult(edited, always) ==
  \E m \in edited : \E after \in {state(m, route)} :
    /\ match' = m
    /\ column' = after
    /\ told' = IF always \/ Verdict(column).completed # Verdict(after).completed THEN Verdict(after) ELSE told
    /\ UNCHANGED <<route, refresh>>

\* MatchStore.save of one of these matches, and then the recalculation of the
\* schedule: always, or when what it reads of the match moved since the load
\* (the column is the getter there, unless a write of refreshState was pending).
Save(edited, always) ==
  \E m \in edited : \E after \in {state(m, route)} :
    /\ match' = m
    /\ column' = after
    /\ told' = IF always \/ Verdict(column) # Verdict(after) THEN Verdict(after) ELSE told
    /\ UNCHANGED <<route, refresh>>

assertEditable == ~isCompleted(match)

SetActive(active) ==
  /\ active => ~isCompleted(match)
  /\ match' = [match EXCEPT !.active = active]
  /\ column' = state(match, route)
  /\ UNCHANGED <<route, refresh, told>>

ChangeScoringSystem(system) ==
  /\ assertEditable /\ system # match.system
  /\ Save(resettle([match EXCEPT !.system = system]), TRUE)

ReplaceEntrants(players) == assertEditable /\ Save(WithPlayers(match, players), TRUE)

AddEntrant(p) == assertEditable /\ p \notin match.players /\ Save(WithPlayers(match, match.players \cup {p}), TRUE)

RemoveEntrant(p) == assertEditable /\ p \in match.players /\ Save(WithPlayers(match, match.players \ {p}), TRUE)

\* writeTargetMatch: advancement asks nobody whether the match is editable.
PlaceEntrant(p) == Save(WithPlayers(match, match.players \cup {p}), TRUE)
TakeBackEntrant(p) == p \in match.players /\ Save(WithPlayers(match, match.players \ {p}), TRUE)

AddRounds(sources) ==
  /\ assertEditable /\ RoundSourceAllowed(match, sources)
  /\ sources \cap DOMAIN match.rounds = {}
  /\ Save({WithRounds(match, sources)}, TRUE)

RemoveRound(s) ==
  /\ assertEditable /\ s \in RemovableRounds(match)
  /\ Save({WithoutRound(match, s)}, TRUE)

ReplaceRoundSong(s, sources) ==
  /\ assertEditable /\ s \in RemovableRounds(match)
  /\ LET without == WithoutRound(match, s)
     IN  /\ RoundSourceAllowed(without, sources) /\ sources \cap DOMAIN without.rounds = {}
         /\ Save({WithRounds(without, sources)}, TRUE)

\* Of any player: nobody asks whether the match holds the one who scored.
UpsertScore(s, p, score) ==
  /\ assertEditable /\ s \in DOMAIN match.rounds \cap Song
  /\ Save(WithScores(match, s, [q \in {p} |-> score]), FALSE)

\* liveTargetsForSong: the match was being played, by these players, and there
\* was nothing yet where their runs belong.
StillLive(ps, taken) == Late \/ (match.active /\ ps \subseteq match.players \ taken)

\* applyCompletedSong: a song the cabinets finished, for a round or for an
\* attempt of a tiebreak.  It does not ask whether the match is editable.
ApplyCompletedSong(s, runs) ==
  /\ s \in DOMAIN match.rounds \cap Song
  /\ StillLive(DOMAIN runs, DOMAIN match.rounds[s])
  /\ Save(WithScores(match, s, runs), FALSE)

ApplyCompletedTiebreak(i, runs) ==
  /\ i \in DOMAIN match.attempts /\ match.attempts[i].song
  /\ DOMAIN runs \subseteq DOMAIN match.attempts[i].standings
  /\ StillLive(DOMAIN runs, {p \in DOMAIN runs : match.attempts[i].standings[p].score # NoScore})
  /\ Save({[match EXCEPT !.attempts[i].standings = Written(@, [p \in DOMAIN runs |-> [score |-> runs[p], points |-> 0]])]}, FALSE)

UpsertPoints(p, points) ==
  /\ assertEditable /\ HandScored(match)
  /\ Save({WithPoints(match, p, points)}, FALSE)

RemoveStanding(s, p) ==
  /\ assertEditable /\ s \in DOMAIN match.rounds /\ p \in DOMAIN match.rounds[s]
  /\ Save({WithoutStanding(match, s, p)}, FALSE)

AddTiebreak(song) ==
  /\ assertEditable /\ Len(match.attempts) < MaxAttempts
  /\ Save(WithAttempt(match, route, song), FALSE)

RemoveTiebreak(i) ==
  /\ assertEditable /\ i \in DOMAIN match.attempts
  /\ Save({[match EXCEPT !.attempts = RemoveAt(@, i)]}, FALSE)

UpsertTiebreakScore(i, p, score) ==
  /\ assertEditable /\ i \in DOMAIN match.attempts /\ match.attempts[i].song
  /\ p \in DOMAIN match.attempts[i].standings
  /\ Save({WithEvidence(match, i, p, score, 0)}, FALSE)

UpsertTiebreakPoints(i, p, points) ==
  /\ assertEditable /\ i \in DOMAIN match.attempts /\ ~match.attempts[i].song
  /\ p \in DOMAIN match.attempts[i].standings
  /\ Save({WithEvidence(match, i, p, NoScore, points)}, FALSE)

ClearTiebreakStanding(i, p) ==
  /\ assertEditable /\ i \in DOMAIN match.attempts /\ p \in DOMAIN match.attempts[i].standings
  /\ Save({WithEvidence(match, i, p, NoScore, 0)}, FALSE)

CommitResult == Save(commit(match, route), FALSE)

ReopenResult == Save({reopen(match)}, FALSE)

\* updateForSource: the rules are written, and refreshState then loads the
\* match and rewrites its column alone.  The schedule of the match is not told.
UpdateRules(r) ==
  /\ refresh = Idle /\ r # route
  /\ route' = r
  /\ refresh' = state(match, r)
  /\ UNCHANGED <<match, column, told>>

RefreshState ==
  /\ refresh # Idle
  /\ column' = refresh /\ refresh' = Idle
  /\ UNCHANGED <<match, route, told>>

\* What a person does to the field of the match, and advancement after them.
FieldCommand ==
  \/ \E p \in Player : AddEntrant(p) \/ RemoveEntrant(p) \/ PlaceEntrant(p) \/ TakeBackEntrant(p)
  \/ \E players \in SUBSET Player : ReplaceEntrants(players)
  \/ \E system \in System : ChangeScoringSystem(system)
  \/ \E active \in BOOLEAN : SetActive(active)

RoundCommand ==
  \E sources \in ((SUBSET Song) \cup {{Hand}}) \ {{}} :
    \/ AddRounds(sources)
    \/ \E s \in Song \cup {Hand} : ReplaceRoundSong(s, sources)

\* The runs of the players of a lobby.
Runs == UNION {[ps -> Score] : ps \in {q \in SUBSET Player : Cardinality(q) \in 1..MaxRuns}}

ScoreCommand ==
  \/ \E s \in Song, p \in Player, score \in Score : UpsertScore(s, p, score)
  \/ \E s \in Song, runs \in Runs : ApplyCompletedSong(s, runs)
  \/ \E p \in Player, points \in Points : UpsertPoints(p, points)
  \/ \E s \in Song \cup {Hand}, p \in Player : RemoveStanding(s, p)
  \/ \E s \in Song \cup {Hand} : RemoveRound(s)

TiebreakCommand ==
  \/ \E song \in BOOLEAN : AddTiebreak(song)
  \/ \E i \in DOMAIN match.attempts :
       \/ RemoveTiebreak(i)
       \/ \E p \in Player, score \in Score : UpsertTiebreakScore(i, p, score)
       \/ \E p \in Player, points \in Points : UpsertTiebreakPoints(i, p, points)
       \/ \E p \in Player : ClearTiebreakStanding(i, p)
       \/ \E runs \in Runs : ApplyCompletedTiebreak(i, runs)

Command ==
  \/ FieldCommand \/ RoundCommand \/ ScoreCommand \/ TiebreakCommand
  \/ CommitResult \/ ReopenResult

Next ==
  \/ (Overlap \/ refresh = Idle) /\ Command
  \/ \E r \in Routings : UpdateRules(r)
  \/ RefreshState

Spec == Init /\ [][Next]_vars
=============================================================================
