\* An event is imported and previewed again and again while somebody enters
\* late, sets are decided, people change the tournament and the API goes down.
SPECIFICATION Spec
CONSTANTS
  Entrant <- MCEntrant
  Members <- MCMembers
  Tag <- MCTag
  Entering <- MCEntering
  Known <- MCKnown
  Registered <- MCRegistered
  Phase <- MCPhase
  Pool <- MCPool
  PhaseOf <- MCPhaseOf
  Bout <- MCBout
  PoolOf <- MCPoolOf
  Slots <- MCSlots
  Progress <- MCProgress
  Deletable <- MCDeletable
  None = None
  MaxRuns = 3
  MaxUpsets = 2
\* Nobody is bound to import anything, and the bounds end every behaviour.
CHECK_DEADLOCK FALSE
PROPERTIES
  ImportAgrees
  AgainAddsNothing
  PreviewIsKept
