\* One request at a time over one schedule of two matches, the second waiting
\* for the winner of the first and for a round: every command of a match, every
\* command of a schedule, closing and reopening, in every order.
CONSTANTS
  r1 = r1  r2 = r2  s1 = s1  s2 = s2
  m1 = m1  m2 = m2
  p1 = p1  p2 = p2
  Boot = Boot  None = None
  Player = {p1, p2}
  Match = {m1, m2}
  Schedule = {s1}
  Request = {r1}
  Entries <- ShortSchedule
  Rules <- FeedsSecond
  Commands = {"activate", "deactivate", "addEntrant", "removeEntrant", "replaceEntrants", "addRound", "score", "removeStanding", "removeRound", "changeScoringSystem", "commit", "reopen"}
  Controls = {"start", "stop", "archive", "unarchive", "close", "reopenTournament"}
  InitialRows <- AwaitsSecond
  MaxCrashes = 0
SPECIFICATION Spec
INVARIANTS TypeOK OneActiveMatch StandsWhereItShould
