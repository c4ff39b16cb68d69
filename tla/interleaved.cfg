\* Two requests interleave over one schedule of two matches that completes and
\* is reopened while the tournament closes.
CONSTANTS
  r1 = r1  r2 = r2  s1 = s1  s2 = s2
  m1 = m1  m2 = m2
  p1 = p1  p2 = p2
  Boot = Boot  None = None
  Player = {p1, p2}
  Match = {m1, m2}
  Schedule = {s1}
  Request = {r1, r2}
  Entries <- ShortSchedule
  Rules <- NoRules
  Commands = {"score", "reopen"}
  Controls = {"start", "stop", "close", "reopenTournament"}
  InitialRows <- SamePlayers
  MaxCrashes = 0
SPECIFICATION Spec
INVARIANTS ClosedRunsNothing LockDiscipline
PROPERTIES OnlyAStartRuns NeverWalksBack
SYMMETRY RequestSymmetry
