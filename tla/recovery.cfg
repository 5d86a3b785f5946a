\* Everything may go wrong: what is left behind is put back or deleted.
SPECIFICATION FairSpec
CONSTANTS
  Req = {r1}
  Agent = {a1}
  NoReq = NoReq
  NoAgent = NoAgent
  Plan <- OneOp
  HasJob = {r1}
  Bulk = FALSE
  Patient = TRUE
  Outcomes = {"Done", "Failed", "Scheduled"}
  Users = {"cancel", "reset"}
  Faults = {"exception", "crash", "stop", "lost", "finalize", "putFails", "timeout", "noProxy"}
PROPERTIES
  OnlyFinalDeleted
  AssignedIsLeft
