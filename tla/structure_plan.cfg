CONSTANTS
  r1 = r1  None = None
  Request = {r1}
  Shape <- OnePool
  Routes = {}
  Slots = {1}
  Commands = {"addPhase", "renamePhase", "removePhase", "createPool", "updatePool", "deletePool", "createMatch", "moveMatch", "deleteMatch", "updateRules"}
  MaxWrites = 2
  MaxEdits = 2
SPECIFICATION Spec
INVARIANTS VersionVouches
PROPERTIES TreeIsAsDrawn RoutesLand
\* Once the commands and gestures are used up and the draft is settled, nothing happens.
CHECK_DEADLOCK FALSE
