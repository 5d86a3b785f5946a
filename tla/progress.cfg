\* Executors that live, every way to submit a task, under the fairness of FairSpec.
SPECIFICATION FairSpec
CONSTANTS
  Task = {t1, t2}
  Exec = {e1}
  Type = {y1, y2}
  y1 = y1
  y2 = y2
  NoTask = NoTask
  NoType = NoType
  NoExec = NoExec
  NoThread = NoThread
  Worker = {w1}
  Scheduler = sched
  ExecTypes <- TwoTypes
  MaxTasks <- OneTask
  Chain <- TwoSteps
  FreezeLimit = 2
  FreezeOnFailedDispatch = TRUE
  FreezeOnUnknownExecutor = TRUE
  Requests = {"executeTask", "optimizeJobs"}
  Replies = {"TaskDone", "TaskFreeze", "TaskError"}
  Faults = {}
  MaxRequests = 1
INVARIANTS
  TypeOK
  QueueIndexConsistent
  NoTaskLost
  OnePlace
  TaskIndexConsistent
PROPERTIES
  FrozenLongEnough
  HandlersReturn
  EveryTaskLeaves
