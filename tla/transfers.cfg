\* Two agents, one file of up to two attempts, and one fault of any kind.
SPECIFICATION FairSpec
CONSTANTS
  Agent = {a1, a2}
  File = {f1}
  MaxAttempts = 2
  MaxJobs = 3
  MaxUpsets = 1
  Faults = {"query", "update", "treat", "unanswered", "put", "crash", "forget", "delete"}
INVARIANTS
  TypeOK
  OneTransfer
  DoneIsTransferred
  ToldOnce
PROPERTIES
  EveryOperationEnds
