\* Two pilots, a user, optimizers that fail, pilots that die, messages that are lost.
SPECIFICATION Spec
CONSTANTS
  J = J
  Pilot = {p1, p2}
  Submitted = {"Submitting", "Received"}
  MaxRescheduling = 1
  Patient = TRUE
  Overlapping <- Pilots
  Commands = {"kill", "delete", "reschedule", "reset"}
  MaxCommands = 1
  Faults = {"message", "pilot", "optimizer"}
INVARIANTS
  TypeOK
  
SYMMETRY Interchangeable
CHECK_DEADLOCK FALSE
