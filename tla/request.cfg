\* Every sequence of calls on requests of up to three operations.
SPECIFICATION Spec
CONSTANTS
  Plans <- SmallPlans
  MaxLength = 4
INVARIANTS
  InTurns
  StatusAgrees
  ReloadFaithful
PROPERTIES
  DoneStaysDone
