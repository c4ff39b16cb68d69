\* One request at a time over two schedules whose matches share their players,
\* and the server may go down once at any step.
CONSTANTS
  r1 = r1  r2 = r2  s1 = s1  s2 = s2
  m1 = m1  m2 = m2
  p1 = p1  p2 = p2
  Boot = Boot  None = None
  Player = {p1, p2}
  Match = {m1, m2}
  Schedule = {s1, s2}
  Request = {r1}
  Entries <- TwoSchedules
  Rules <- NoRules
  Commands = {"score", "removeStanding", "commit", "reopen"}
  Controls = {"start", "stop", "archive", "unarchive", "close", "reopenTournament"}
  InitialRows <- SamePlayers
  MaxCrashes = 1
SPECIFICATION FairSpec
INVARIANTS StopLeavesNoneActive OnlyCompletedArchived OneCabinetPerPlayer
PROPERTY PassesSettledMatch
