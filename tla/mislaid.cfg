\* A task is handed to an executor that was just removed.
SPECIFICATION Spec
CONSTANTS
  Task = {t1}
  Exec = {e1}
  Type = {y1}
  y1 = y1
  y2 = y2
  NoTask = NoTask
  NoType = NoType
  NoExec = NoExec
  NoThread = NoThread
  Worker = {w1, w2}
  Scheduler = sched
  ExecTypes <- OneType
  MaxTasks <- OneTask
  Chain <- OneStep
  FreezeLimit = 2
  FreezeOnFailedDispatch = TRUE
  FreezeOnUnknownExecutor = TRUE
  Requests = {"executeTask"}
  Replies = {"TaskDone"}
  Faults = {"drop"}
  MaxRequests = 1
INVARIANTS
  FreeTasksWait
