\* One match of up to three players, with one song round or one round scored by
\* hand, one attempt at a time, and rules that advance nobody or the winner.
CONSTANTS
  X = X  next = next  NoRule = NoRule
  Hand = Hand
  Player = {1, 2, 3}
  Score <- TwoRuns
  System = {"PlacementPointsWithFailZero", "RoundWinner"}
  Song = {X}
  Points = {0, 1}
  Routings <- TwoRoutings
  Late = FALSE
  Overlap = FALSE
  MaxAttempts = 1
  MaxRuns = 2
SPECIFICATION Spec
INVARIANTS AttemptsAreOfATie AdvancementIsPlayedFor PlacesAreARanking
PROPERTIES EditsSettlePoints MovesAreTold ImplementsMatchLife
CHECK_DEADLOCK FALSE
