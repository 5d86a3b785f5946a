\* Two inserters, a matcher and a cleaner, whatever fails.
SPECIFICATION Spec
CONSTANTS
  Job = {j1, j2}
  f1 = f1
  m1 = m1
  Queue = {q1, q2}
  Field = {f1}
  Matcher = {m1}
  Cleaner = {c1}
  NoQueue = NoQueue
  Needs <- AllNeed
  Offers <- OneFit
  MaxJobsInTQ = 2
  Retries = 2
  MaxUpsets = 1
  Faults = {"dbError", "lost", "crash", "restart"}
INVARIANTS
  TypeOK
  
  EnabledCounts
PROPERTIES
  ImplementsJobPool
SYMMETRY Interchangeable
