\* The operation is treated while one of its jobs is monitored.
SPECIFICATION Spec
CONSTANTS
  Agent = {a1, a2}
  File = {f1, f2}
  MaxAttempts = 2
  MaxJobs = 2
  MaxUpsets = 0
  Faults = {}
SYMMETRY Interchangeable
INVARIANT
  Followed
