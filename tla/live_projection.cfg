\* Two changes and three events of a lobby, up to four of them together, reach
\* a page while a socket closes, an event is lost, or the service starts again.
CONSTANTS
  s1 = s1  None = None  Asked = Asked
  Song = {s1}
  Early = FALSE
  MaxWrites = 2
  MaxEvents = 3
  MaxNews = 4
  MaxFaults = 1
SPECIFICATION FairSpec
INVARIANTS ViewIsLatest
PROPERTIES PageCatchesUp
\* Once nobody changes anything and every page has caught up, nothing happens.
CHECK_DEADLOCK FALSE
