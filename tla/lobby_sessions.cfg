\* Two sessions after one lobby, with one command.
SPECIFICATION Spec
CONSTANTS
  a = a
  b = b
  A = A
  None = None
  Session = {a, b}
  Code = {A}
  Command = {changeSong}
  MaxQueue = 1
SYMMETRY SessionSymmetry
INVARIANTS
  RegistriesAgree
  ClosedHoldsNothing
  CommandsOfThisConnection
  NoCallIsForgotten
\* A runtime that was closed, and a process that ended, do nothing more.
CHECK_DEADLOCK FALSE
