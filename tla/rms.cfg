\* Two agents that fetch in bulk, users, the FTS3 callback and the cleaning agent.
SPECIFICATION Spec
CONSTANTS
  Req = {r1, r2}
  Agent = {a1, a2}
  NoReq = NoReq
  NoAgent = NoAgent
  Plan <- TwoOps
  HasJob = {r1, r2}
  Bulk = TRUE
  Patient = TRUE
  Outcomes = {"Done", "Failed", "Waiting", "Scheduled"}
  Users = {"cancel", "reset"}
  Faults = {"exception"}
INVARIANTS
  TypeOK
  OneProcessor
  AssignedIsHeld
PROPERTIES
  NothingUndone
  CanceledRemains
