CONSTANTS
  a = a  b = b  f = f   P = P  Q = Q
  ByHand = ByHand  None = None
  Player = {1, 2, 3}
  Match = {a, b, f}
  Pool = {P, Q}
  Member <- Pools
  Rules <- TwoStages
  Field <- Fields
  Seated <- Seats
  Contested = {a, b, f}
  Judged <- Judging
  Request = {r1, r2}
  MaxCrashes = 1
SPECIFICATION Spec
INVARIANTS TargetsHoldTheEarned DecidedPoolIsCompleted
PROPERTIES ReopenSparesProgress
SYMMETRY RequestSymmetry
