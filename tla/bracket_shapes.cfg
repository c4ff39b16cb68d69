\* Every bracket of up to sixteen entrants, in matches of two, four and eight,
\* and up to fourteen matches, played out with the favourites or the outsiders
\* winning in each; and four matches of eight, one of them almost empty or full.
CONSTANTS
  Types = {"SingleElimination", "DoubleElimination", "Manual"}
  Sizes = {2, 4, 8}
  Entrants = {1, 2, 3, 4, 5, 6, 7, 8, 9, 10, 11, 12, 13, 14, 15, 16, 25, 32}
  MaxMatches = 14
SPECIFICATION Spec
INVARIANTS OutOnlyWhenBeaten FieldIsFull FewRematches
\* A bracket that is played out stops.
CHECK_DEADLOCK FALSE
