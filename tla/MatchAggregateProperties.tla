---------------------- MODULE MatchAggregateProperties ----------------------
(***************************************************************************)
(* What MatchAggregate must keep to, and that it implements MatchLife.     *)
(***************************************************************************)
EXTENDS MatchAggregate

\* The row of the match.  The committed result is the list of its entries, in
\* which equals follow their ids.
Row ==
  [active |-> match.active, state |-> column, players |-> match.players,
   rounds |-> DOMAIN match.rounds # {},
   result |-> [p \in Player |-> IF p \in DOMAIN match.result THEN Index(match.result, p) ELSE 0]]

Life == INSTANCE MatchLife WITH row <- Row

\* The aggregate implements MatchLife: whatever the scores, the attempts and
\* the rules, an edit changes the row of a match in no other way than the
\* control room expects of the command.
ImplementsMatchLife == Life!Spec

\* match is an aggregate the store can load, and column a state it can write.
TypeOK ==
  /\ match.players \subseteq Player /\ match.system \in System /\ match.active \in BOOLEAN
  /\ DOMAIN match.rounds \subseteq Song \/ DOMAIN match.rounds = {Hand}
  /\ \A s \in DOMAIN match.rounds :
       DOMAIN match.rounds[s] \subseteq Player /\ Range(match.rounds[s]) \subseteq Standing
  /\ \A i \in DOMAIN match.attempts : match.attempts[i] \in Attempt
  /\ DOMAIN match.result \subseteq Player /\ Range(match.result) \subseteq Nat
  /\ route \in Routings
  /\ column \in Life!MatchState /\ refresh \in Life!MatchState \cup {Idle}

\* A valid attempt is always about a tie of the match as it stands: its players
\* are in the match and have equal points.  Every edit that moves a point or the
\* field has to invalidate the attempts (match.aggregate.ts:685).
AttemptsAreOfATie ==
  \A i \in DOMAIN match.attempts : \A p, q \in DOMAIN match.attempts[i].standings :
    p \in match.players /\ PointsOf(match, p) = PointsOf(match, q)

\* The points of a round are what the scoring system of the match gives these
\* runs in this field, or nothing while a run is missing.
IsCurrent(m, s) ==
  LET standings == m.rounds[s]
      points == [p \in DOMAIN standings |-> standings[p].points]
  IN  IF isRoundComplete(m, standings)
      THEN points \in Awards(m.system, [p \in DOMAIN standings |-> standings[p].score])
      ELSE \A p \in DOMAIN standings : points[p] = 0

\* A step takes the standing of somebody who is not in the match, and the
\* points of the others with it.
LosesAnOutsider(s) ==
  /\ \E p \in DOMAIN match.rounds[s] \ match.players : DOMAIN match'.rounds[s] = DOMAIN match.rounds[s] \ {p}
  /\ \A p \in DOMAIN match'.rounds[s] : match'.rounds[s][p].points = 0

\* Whatever happens to the field, the runs and the scoring system, an edit that
\* touches a song round leaves it with the points its runs earn in the field as
\* it then stands (resettle, rankIfComplete, removeStanding).  The one exception
\* is the removal of a standing of somebody who is not in the match: the others
\* lose their points with it (match.aggregate.ts:439).
EditsSettlePoints ==
  [][\A s \in DOMAIN match'.rounds \cap Song :
       \/ IsCurrent(match', s)
       \/ /\ s \in DOMAIN match.rounds
          /\ \/ LosesAnOutsider(s)
             \/ /\ match'.players = match.players /\ match'.system = match.system
                /\ match'.rounds[s] = match.rounds[s]]_vars

\* Every song round has the points its runs earn: after the removal of a
\* standing the round is incomplete again, says match.aggregate.ts:437.  It does
\* not hold, since the standing of an outsider can be removed.
PointsAreCurrent == \A s \in DOMAIN match.rounds \cap Song : IsCurrent(match, s)

\* The evidence of an attempt for two of these players or more.
PossibleEvidence(players) ==
  UNION {[ps -> [failed: {FALSE}, value: {1, 2}]] : ps \in {q \in SUBSET players : Cardinality(q) >= 2}}

\* Whatever two attempts are made before the commit, places are a ranking: one more than
\* the number of players placed ahead, with more points always ahead.  An attempt
\* for a group that another one has split since moves nobody (placement.resolver.ts:60).
PlacesAreARanking ==
  LET average == [p \in match.players |-> averagePercentageOf(match, p)]
      points == calculatePoints(match)
  IN  refresh = Idle /\ assertEditable /\ Settles(match) /\ match.attempts = <<>> =>
        \A first, second \in PossibleEvidence(match.players) :
          \A place \in {resolvePlacements(points, <<first, second>>, route, average).place} :
            \A p \in match.players :
              /\ place[p] = 1 + Cardinality({q \in match.players : place[q] < place[p]})
              /\ \A q \in match.players : points[p] > points[q] => place[p] < place[q]

\* p won a valid attempt against q.
WonTiebreak(p, q) ==
  \E t \in Range(tiebreakPlacementInputs(match)) : {p, q} \subseteq DOMAIN t /\ Better(t[p], t[q])

\* Who advances is played for: when a result can be committed and two players
\* would be sent different ways, the one ahead has more points or won a
\* tiebreak; an average or an id never decides it (placement.resolver.ts:127).
AdvancementIsPlayedFor ==
  LET current == calculatedResultState(match, route)
      at(p) == Index(current.place, p)
  IN  refresh = Idle /\ current.status = "ready" =>
        \A p, q \in match.players :
          at(p) < at(q) /\ route[at(p)] # route[at(q)] =>
            \/ PointsOf(match, p) > PointsOf(match, q)
            \/ PointsOf(match, p) = PointsOf(match, q) /\ WonTiebreak(p, q)

\* Every save that moves what a schedule reads of the match makes the schedule
\* read it again (recalculateScheduleIfMoved); only a change of rules does not.
MovesAreTold ==
  [][told = Verdict(column) /\ refresh = Idle => told' = Verdict(column')]_vars

\* The column and the getter agree whenever no write of the column is pending,
\* as match.aggregate.ts:158 asks.
ColumnAgrees == refresh = Idle => column = state(match, route)

\* A schedule has read the match as it stands (match.commands.ts:424).
ScheduleIsTold == told = Verdict(column)
=============================================================================
