------------------------------ MODULE MatchRow ------------------------------
(***************************************************************************)
(* What the rest of the system reads of a match, and how each command of   *)
(* MatchCommands may change it.                                            *)
(*                                                                         *)
(* A schedule and an advancement rule read a row of a match: whether it is *)
(* on a cabinet, the lifecycle column written on every save, who plays in  *)
(* it, whether it has rounds and in which order a committed result placed  *)
(* its players.  Effect states, command by command, which rows one         *)
(* in-memory edit of the aggregate can produce; it is nondeterministic     *)
(* exactly where the answer depends on scores.                             *)
(*                                                                         *)
(* A definition under a comment "Slip:" is not the code but the definition *)
(* that follows it with a plausible mistake in it.                         *)
(***************************************************************************)
EXTENDS Naturals, FiniteSets

CONSTANT Player  \* the people who play

ASSUME PlayerAssumption == IsFiniteSet(Player)

MatchState == {"open", "partial", "ready", "tiebreak_required", "completed"}

\* A committed result: the place it gave each player, 0 to those not in it.
Result == [Player -> Nat]
NoResult == [p \in Player |-> 0]

Row == [active: BOOLEAN, state: MatchState, players: SUBSET Player, rounds: BOOLEAN, result: Result]

EmptyRow == [active |-> FALSE, state |-> "open", players |-> {}, rounds |-> FALSE, result |-> NoResult]

-----------------------------------------------------------------------------

Completed(row) == row.state = "completed"

\* poolState.awaitingCommit: the result could be written as it stands.
AwaitingCommit(row) == row.state = "ready"

\* The two states a schedule walks past.
Passed(row) == Completed(row) \/ AwaitingCommit(row)

Settled(row) == row.state \in {"ready", "tiebreak_required"}

\* The lifecycle states the getter `state` can answer for an uncommitted match
\* with these players and rounds: nothing is settled without both, and without
\* rounds there is no evidence either.
UncommittedStates(row) ==
  IF ~row.rounds THEN {"open"}
  ELSE IF row.players = {} THEN {"open", "partial"}
  ELSE MatchState \ {"completed"}

\* The row after its players or rounds changed: an untouched match stays
\* untouched, a completed one keeps its result, any other is judged again.
Rejudged(row) ==
  {[row EXCEPT !.state = st] :
     st \in IF row.state \in {"open", "completed"} THEN {row.state} ELSE UncommittedStates(row)}

\* A score, a stated point or a tiebreak attempt: there is evidence now, and
\* what was settled stays settled.
Scored(row) ==
  {[row EXCEPT !.state = st] :
     st \in IF Completed(row) THEN {"completed"}
            ELSE UncommittedStates(row) \ (IF Settled(row) THEN {"open", "partial"} ELSE {"open"})}

\* The results a commit can write: everybody has a place of their own.
Placings(players) ==
  {places \in [Player -> 0..Cardinality(players)] :
     /\ \A p \in Player : places[p] = 0 <=> p \notin players
     /\ \A p, q \in players : places[p] = places[q] => p = q}

\* entrantsByPlacement: those the result placed, in its order, then whoever
\* else is in the match.  The entrants that can stand at place k.
PlacedAt(row, k) ==
  LET placed == {p \in row.players : row.result[p] > 0}
      ahead(p) == {q \in placed : row.result[q] <= row.result[p]}
  IN  {p \in row.players :
         IF p \in placed THEN k = Cardinality(ahead(p))
         ELSE Cardinality(placed) < k /\ k <= Cardinality(row.players)}

-----------------------------------------------------------------------------
(***************************************************************************)
(* The commands that load a match, edit it and save it whole.              *)
(***************************************************************************)

ManualCommand == {"activate", "deactivate"}
ScoreCommand  == {"score", "applyCompletedSong", "removeStanding"}
FieldCommand  == {"addEntrant", "removeEntrant", "replaceEntrants", "changeScoringSystem"}
RoundCommand  == {"addRound", "removeRound"}
ResultCommand == {"commit", "reopen"}
MatchCommand  == ManualCommand \cup ScoreCommand \cup FieldCommand \cup RoundCommand \cup ResultCommand

\* assertEditable, and activate's own refusal; a completed song does not ask,
\* and the two commands on the result are about completed matches.
Editable(cmd, row) ==
  cmd \in {"deactivate", "applyCompletedSong", "commit", "reopen"} \/ ~Completed(row)

\* placeEntrant and removeEntrant on the target of an advancement rule.
Placed(row, p)   == Rejudged([row EXCEPT !.players = @ \cup {p}])
Released(row, p) == Rejudged([row EXCEPT !.players = @ \ {p}])

Effect(cmd, row) ==
  CASE cmd = "activate"   -> {[row EXCEPT !.active = TRUE]}
    [] cmd = "deactivate" -> {[row EXCEPT !.active = FALSE]}
    [] cmd \in {"score", "applyCompletedSong"} -> IF row.rounds THEN Scored(row) ELSE {}
    [] cmd = "removeStanding" ->
         IF row.rounds THEN {[row EXCEPT !.state = st] : st \in UncommittedStates(row)} ELSE {}
    [] cmd = "addEntrant" -> UNION {Placed(row, p) : p \in Player \ row.players}
    [] cmd = "removeEntrant" -> UNION {Released(row, p) : p \in row.players}
    [] cmd = "replaceEntrants" ->
         UNION {Rejudged([row EXCEPT !.players = ps]) :
                  ps \in {q \in SUBSET Player : ~(row.players \subseteq q)}}
    [] cmd = "changeScoringSystem" -> Rejudged(row)
    [] cmd = "addRound" ->
         {[row EXCEPT !.rounds = TRUE, !.state = IF @ = "open" THEN "open" ELSE "partial"]}
    [] cmd = "removeRound" ->
         IF row.rounds
         THEN Rejudged(row) \cup {[row EXCEPT !.rounds = FALSE, !.state = "open"]}
         ELSE {}
    [] cmd = "commit" ->
         IF Passed(row)
         THEN {[row EXCEPT !.state = "completed", !.active = FALSE, !.result = places] :
                 places \in Placings(row.players)}
         ELSE {}
    [] cmd = "reopen" ->
         {[row EXCEPT !.active = FALSE, !.result = NoResult, !.state = st] :
            st \in IF Completed(row) THEN UncommittedStates(row) ELSE {row.state}}

\* protectRollback and prepareResultReopen: the commands that ask whether they
\* would take something back from a schedule.
AsksSchedule(cmd, row) ==
  \/ cmd \in {"removeRound", "replaceEntrants", "reopen"}
  \/ cmd \in {"addRound", "removeStanding"} /\ AwaitingCommit(row)

\* Slip: only a result that is written or taken back is worth a recalculation.
OwesOnResult(cmd, before, after) ==
  cmd \in FieldCommand \cup RoundCommand \/ Completed(before) # Completed(after)

\* Slip: only the lifecycle is compared, whatever the command.
OwesOnMove(cmd, before, after) ==
  cmd \in MatchCommand /\ (Completed(before) # Completed(after) \/ AwaitingCommit(before) # AwaitingCommit(after))

\* recalculateScheduleIfMoved, the unconditional recalculation of the commands
\* that change rounds or entrants, and none after a manual activation.
OwesRecalculation(cmd, before, after) ==
  \/ cmd \in FieldCommand \cup RoundCommand
  \/ /\ cmd \in ScoreCommand \cup ResultCommand
     /\ Completed(before) # Completed(after) \/ AwaitingCommit(before) # AwaitingCommit(after)
=============================================================================
