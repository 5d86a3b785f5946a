\* Executors die, fail and freeze tasks: the mind implements TaskService.
SPECIFICATION Spec
CONSTANTS
  Task = {t1}
  Exec = {e1, e2}
  Type = {y1}
  y1 = y1
  y2 = y2
  NoTask = NoTask
  NoType = NoType
  NoExec = NoExec
  NoThread = NoThread
  Worker = {w1, w2}
  Scheduler = sched
  ExecTypes <- OneType
  MaxTasks <- OneTask
  Chain <- OneStep
  FreezeLimit = 2
  FreezeOnFailedDispatch = TRUE
  FreezeOnUnknownExecutor = TRUE
  Requests = {"executeTask"}
  Replies = {"TaskDone", "TaskFreeze", "ExecutorError"}
  Faults = {"drop", "dispatchError", "saveError", "sendRefused"}
  MaxRequests = 1

  
  
PROPERTIES
  ImplementsTaskService
SYMMETRY Interchangeable
