------------------------------ MODULE Placement ------------------------------
(***************************************************************************)
(* How the scores of a match become places: the scoring systems that give  *)
(* the points of one round, and resolvePlacements, which orders the        *)
(* players by their points, lets each tiebreak attempt split the group it  *)
(* was played for, and settles by average only the ties that send nobody   *)
(* anywhere.                                                               *)
(*                                                                         *)
(* A list of groups is a function that gives each player the place of the  *)
(* first of its group: one more than the number of players ahead.          *)
(***************************************************************************)
EXTENDS Integers, FiniteSets, FiniteSetsExt, Sequences, SequencesExt

CONSTANTS
  Player,      \* people, by their ids
  Score,       \* the runs: a percentage in hundredths, and whether it failed
  NoRule,      \* the outcome of a placement that no rule names
  System       \* the scoring systems a match may have

ASSUME PlacementAssumption ==
  /\ Player \subseteq Nat /\ IsFiniteSet(Player)
  /\ Score \subseteq [percentage: Nat, failed: BOOLEAN]
  /\ System \subseteq {"PlacementPointsWithFailZero", "PlacementPointsIncludingFails", "RoundWinner"}

\* No average: every run failed, or no song was played.
Null == -1

-----------------------------------------------------------------------------
(***************************************************************************)
(* Scoring systems.  runs gives each player of the round a score.          *)
(***************************************************************************)

\* awardPlacementPoints: the best gets the size of the field, equals share.
Award(runs, includeFails) ==
  LET ranked == {p \in DOMAIN runs : includeFails \/ ~runs[p].failed}
  IN  [p \in DOMAIN runs |->
         IF p \notin ranked THEN 0
         ELSE Cardinality(DOMAIN runs)
              - Cardinality({q \in ranked : runs[q].percentage > runs[p].percentage})]

\* What recalc may write.  RoundWinner sorts the standings in the order the
\* database returned them: any of the best may come first.
Awards(system, runs) ==
  CASE system = "PlacementPointsWithFailZero"   -> {Award(runs, FALSE)}
    [] system = "PlacementPointsIncludingFails" -> {Award(runs, TRUE)}
    [] system = "RoundWinner" ->
         {[p \in DOMAIN runs |-> IF p = first THEN 1 ELSE 0] :
            first \in {p \in DOMAIN runs : \A q \in DOMAIN runs : runs[q].percentage <= runs[p].percentage}}

\* Sums.
Total(f) == MapThenSumSet(LAMBDA x : f[x], DOMAIN f)

\* comparableAverage of averagePercentageOf, over a bag of percentages given as
\* a function from something to percentages.
Average(percentages) ==
  LET n == Cardinality(DOMAIN percentages)
  IN  IF n = 0 THEN Null ELSE (200 * Total(percentages) + n) \div (2 * n)

-----------------------------------------------------------------------------
(***************************************************************************)
(* resolvePlacements.  An attempt is the evidence of its players, the      *)
(* attempts are in sequence, and one without players splits no group.      *)
(***************************************************************************)

\* The group of p.
Tied(place, p) == {q \in DOMAIN place : place[q] = place[p]}

Groups(place) == {Tied(place, p) : p \in DOMAIN place}

\* Puts the members of one group behind those of it that value ranks higher.
Separate(place, group, Beats(_, _)) ==
  [p \in DOMAIN place |->
     IF p \in group THEN place[p] + Cardinality({q \in group : Beats(q, p)}) ELSE place[p]]

pointGroups(points) ==
  [p \in DOMAIN points |-> 1 + Cardinality({q \in DOMAIN points : points[q] > points[p]})]

\* compareEvidence: somebody who failed is behind whoever did not.
Better(left, right) ==
  IF left.failed # right.failed THEN right.failed ELSE left.value > right.value

\* Slip: an attempt splits whichever of its players are tied.
SplitAnyway(place, evidence) ==
  [p \in DOMAIN place |->
     IF p \notin DOMAIN evidence THEN place[p]
     ELSE place[p] + Cardinality({q \in DOMAIN evidence \cap Tied(place, p) : Better(evidence[q], evidence[p])})]

\* splitGroup, for the group that has exactly the players of the attempt.
splitGroup(place, evidence) ==
  IF DOMAIN evidence \in Groups(place)
  THEN Separate(place, DOMAIN evidence, LAMBDA q, p : Better(evidence[q], evidence[p]))
  ELSE place

\* Slip: places without a rule are left out of the comparison.
SeparatesRules(place, group, route) ==
  \E p \in group : \E j, k \in 0..Cardinality(group) - 1 :
    /\ {route[place[p] + j], route[place[p] + k]} \cap {NoRule} = {}
    /\ route[place[p] + j] # route[place[p] + k]

\* separatesOutcomes: the places the group takes do not all lead the same way.
separatesOutcomes(place, group, route) ==
  \E p \in group : \E k \in 0..Cardinality(group) - 1 : route[place[p] + k] # route[place[p]]

\* splitByAverage, for a tie nobody has to play for.
AveragesDecide(place, group, route, average) ==
  /\ ~separatesOutcomes(place, group, route)
  /\ \A p \in group : average[p] # Null

resolvePlacements(points, attempts, route, average) ==
  LET split == FoldLeft(splitGroup, pointGroups(points), attempts)
      beaten(p) == {q \in Tied(split, p) : average[q] > average[p]}
  IN  [place |-> [p \in DOMAIN points |->
                    split[p] + IF AveragesDecide(split, Tied(split, p), route, average)
                               THEN Cardinality(beaten(p)) ELSE 0],
       ambiguousTies |-> {g \in Groups(split) : separatesOutcomes(split, g, route)}]

\* The index in the list of entries: equals follow their ids.
Index(place, p) ==
  Cardinality({q \in DOMAIN place : place[q] < place[p] \/ (place[q] = place[p] /\ q <= p)})
=============================================================================
