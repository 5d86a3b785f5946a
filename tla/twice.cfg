\* Two agents that fetch single requests, as they do by default.
SPECIFICATION Spec
CONSTANTS
  Req = {r1}
  Agent = {a1, a2}
  NoReq = NoReq
  NoAgent = NoAgent
  Plan <- OneOp
  HasJob = {r1}
  Bulk = FALSE
  Patient = TRUE
  Outcomes = {"Done"}
  Users = {}
  Faults = {}
INVARIANTS
  OneProcessor
