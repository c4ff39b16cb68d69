\* A score loaded before a stop and saved after the next start.
CONSTANTS
  r1 = r1  r2 = r2  s1 = s1  s2 = s2
  m1 = m1  m2 = m2
  p1 = p1  p2 = p2
  Boot = Boot  None = None
  Player = {p1, p2}
  Match = {m1, m2}
  Schedule = {s1}
  Request = {r1, r2}
  Entries <- ShortSchedule
  Rules <- NoRules
  Commands = {"score", "commit"}
  Controls = {"start", "stop"}
  InitialRows <- SamePlayers
  MaxCrashes = 0
SPECIFICATION Spec
INVARIANTS NeverTwoActive
