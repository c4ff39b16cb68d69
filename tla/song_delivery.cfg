SPECIFICATION Spec
CONSTANTS
  ann = ann
  bob = bob
  X = X
  Y = Y
  None = None
  Half = Half
  Typed = Typed
  Address = {1, 2}
  Seat <- TwoCabinets
  Player = {ann, bob}
  Song = {X, Y}
  Final = {100}
  MaxMachines = 2
  Hasty = FALSE
  MaxPlays = 2
  Match = {1}
  RoundSong <- OneRound
  Entrants <- Both
  Roster = {ann, bob}
  Pool = {X}
  MaxUpsets = 1
  MaxPosts = 2
INVARIANTS
  StandingsAreFinals
  CompletesOnce
  FinalsWaitForFlush
  NothingIsDropped
\* Once the plays are over and everything has been delivered, nothing happens.
CHECK_DEADLOCK FALSE
