------------------------- MODULE ExecutorDispatcher -------------------------
(***************************************************************************)
(* The executor mind: class ExecutorDispatcher of                          *)
(* Core/Utilities/ExecutorDispatcher.py, driven by ExecutorMindHandler,    *)
(* OptimizationMindHandler and the message broker that runs their          *)
(* handlers in a pool of threads.                                          *)
(*                                                                         *)
(* A thread is a stack of frames: the call it is about to make and the     *)
(* calls that follow when that one returns.  One step takes the top frame, *)
(* does what the code does between two points where another thread may     *)
(* run (a section under a lock, a dictionary operation, a callback) and    *)
(* replaces the frame by the calls that section leads to.                  *)
(***************************************************************************)
EXTENDS ExecutorQueues, ExecutorState

CONSTANTS
    Worker,         \* threads of the service that run message handlers
    Scheduler,      \* the thread of gThreadScheduler
    NoThread,
    Chain,          \* Chain[t]: the types the mind's cbDispatch sends t through
    FreezeLimit,    \* 10 in __freezeTask
    FreezeOnFailedDispatch, FreezeOnUnknownExecutor,
    Requests,       \* how tasks are submitted: "executeTask", "optimizeJobs"
    Replies,        \* the messages executors answer with
    Faults,         \* what may go wrong, see FaultKinds
    MaxRequests     \* bound on how often a task is submitted

FaultKinds == {"drop", "dispatchError", "saveError", "sendRefused", "sendException"}
RequestKinds == {"executeTask", "optimizeJobs"}
ReplyKinds == {"TaskDone", "TaskFreeze", "TaskError", "ExecutorError"}

Unbound == "unbound"     \* a local variable that was never assigned
Free == NoThread         \* the value of a lock nobody holds

ASSUME DispatcherAssumption ==
    /\ Scheduler \notin Worker
    /\ NoThread \notin Worker \cup {Scheduler}
    /\ Chain \in [Task -> Seq(Type)]
    /\ FreezeLimit \in Nat
    /\ {FreezeOnFailedDispatch, FreezeOnUnknownExecutor} \subseteq BOOLEAN
    /\ Requests \subseteq RequestKinds
    /\ Replies \subseteq ReplyKinds
    /\ Faults \subseteq FaultKinds
    /\ MaxRequests \in Nat

VARIABLES
    tasks,          \* __tasks: the ids the mind knows
    etask,          \* the ETask of each known id
    freezer,        \* __taskFreezer
    connected,      \* the keys of __idMap
    execTypes,      \* the keys of __execTypes, in insertion order
    execLock,       \* the holder of __executorsLock
    stack,          \* what each thread has still to do
    transport,      \* the connection of each executor
    dropped,        \* connections whose drop callback waits for a thread
    work,           \* what each executor process is working on
    requests        \* history: how often a task was submitted

mindvars == <<tasks, etask, freezer, connected, execTypes, execLock>>
netvars == <<transport, dropped, work>>
vars == <<qvars, svars, mindvars, stack, netvars, requests>>

Thread == Worker \cup {Scheduler}

NewETask == [type |-> NoType, frozen |-> 0, path |-> <<>>, ripe |-> TRUE]
-----------------------------------------------------------------------------
(***************************************************************************)
(* Frames.  Unused fields have a fixed value, so that two threads that are *)
(* about to do the same thing have the same stack.                         *)
(***************************************************************************)
Frame(op) == [op |-> op, task |-> NoTask, exec |-> NoExec, type |-> NoType,
              loop |-> NoType, flag |-> FALSE, pos |-> 0, size |-> 0, todo |-> {}]

CallTask(op, t) == [Frame(op) EXCEPT !.task = t]
CallExec(op, e) == [Frame(op) EXCEPT !.exec = e]

CallDispatch(t, defroze) == [CallTask("dispatchTask", t) EXCEPT !.flag = defroze]
CallPush(t, y, ahead) == [CallTask("pushTask", t) EXCEPT !.type = y, !.flag = ahead]
CallFreeze(t, y, instant) == [CallTask("freezeTask", t) EXCEPT !.type = y, !.flag = instant]
CallSend(e, y) == [CallExec("send", e) EXCEPT !.type = y]
CallUnfreeze(y, loop) == [Frame("unfreezeTasks") EXCEPT !.type = y, !.loop = loop, !.pos = 1]
CallFillLoop(y) == [Frame("fillLoop") EXCEPT !.type = y]

\* __fillExecutors: thaw the tasks of the type unless told not to, then fill
CallFill(y, defroze) == IF defroze THEN CallUnfreeze(y, y) ELSE CallFillLoop(y)
CallFillAll(types) == [i \in 1 .. Len(types) |-> CallFill(types[i], TRUE)]

\* what follows a send that returns a task id or an error: the fill loop goes on
Again(loop) == IF loop = NoType THEN <<>> ELSE <<CallFillLoop(loop)>>

Idle(th) == stack[th] = <<>>
Top(th) == Head(stack[th])
At(th, op) == stack[th] # <<>> /\ Top(th).op = op
Continue(th, frames) == stack' = [stack EXCEPT ![th] = frames \o Tail(@)]
Return(th) == Continue(th, <<>>)

\* removeTransport: the drop callback is queued once per connection
CloseTransport(e) ==
    IF transport[e] = "open"
    THEN /\ transport' = [transport EXCEPT ![e] = "closed"]
         /\ dropped' = dropped \cup {e}
         /\ work' = [work EXCEPT ![e] = <<>>]
    ELSE UNCHANGED netvars

\* an exception leaves every call of a handler that serves e: `finally` releases
\* the lock, and the broker closes the transport of a message that failed
Abort(th, e) ==
    /\ stack' = [stack EXCEPT ![th] = <<>>]
    /\ execLock' = IF execLock = th THEN Free ELSE execLock
    /\ CloseTransport(e)
-----------------------------------------------------------------------------
Init ==
    /\ QInit
    /\ SInit
    /\ tasks = {}
    /\ etask = [t \in Task |-> NewETask]
    /\ freezer = <<>>
    /\ connected = {}
    /\ execTypes = <<>>
    /\ execLock = Free
    /\ stack = [th \in Thread |-> <<>>]
    /\ transport = [e \in Exec |-> "none"]
    /\ dropped = {}
    /\ work = [e \in Exec |-> <<>>]
    /\ requests = [t \in Task |-> 0]
-----------------------------------------------------------------------------
(***************************************************************************)
(* Events that give an idle thread a handler to run.                       *)
(***************************************************************************)
Start(th, frames) ==
    /\ Idle(th)
    /\ stack' = [stack EXCEPT ![th] = frames]

\* the service listens to the transport before conn_connected adds the executor
Connect(th, e) ==
    /\ transport[e] = "none"
    /\ transport' = [transport EXCEPT ![e] = "open"]
    /\ Start(th, <<CallExec("addExecutor", e)>>)
    /\ UNCHANGED <<qvars, svars, mindvars, dropped, work, requests>>

\* the executor process dies or the network fails
Disconnect(e) ==
    /\ "drop" \in Faults
    /\ transport[e] = "open"
    /\ CloseTransport(e)
    /\ UNCHANGED <<qvars, svars, mindvars, stack, requests>>

\* conn_drop, from the thread pool
HandleDrop(th, e) ==
    /\ e \in dropped
    /\ dropped' = dropped \ {e}
    /\ Start(th, <<CallExec("removeExecutor", e)>>)
    /\ UNCHANGED <<qvars, svars, mindvars, transport, work, requests>>

ReplyFrames(kind, e, w) ==
    CASE kind \in {"TaskDone", "TaskFreeze"} ->
           <<[CallTask("taskReceived", w.task) EXCEPT
                !.exec = e, !.flag = (kind = "TaskDone")]>>
      [] kind = "TaskError" -> <<CallTask("removeTask", w.task)>>
      [] kind = "ExecutorError" -> <<CallExec("removeExecutor", e),
                                     CallExec("closeTransport", e)>>

\* an executor answers one of the tasks it works on
HandleReply(th, e, kind) ==
    /\ transport[e] = "open"
    /\ \E i \in DOMAIN work[e] :
         /\ work' = [work EXCEPT ![e] = RemoveAt(@, i)]
         /\ Start(th, ReplyFrames(kind, e, work[e][i]))
    /\ UNCHANGED <<qvars, svars, mindvars, transport, dropped, requests>>

\* executeTask of __loadJobs, or one job of msg_OptimizeJobs: forget, then add
Request(th, t, kind) ==
    /\ requests[t] < MaxRequests
    /\ requests' = [requests EXCEPT ![t] = @ + 1]
    /\ Start(th, IF kind = "executeTask"
                 THEN <<CallTask("addTask", t)>>
                 ELSE <<CallTask("removeTask", t), CallTask("addTask", t)>>)
    /\ UNCHANGED <<qvars, svars, mindvars, netvars>>

\* __doPeriodicStuff
Periodic ==
    /\ Start(Scheduler, <<CallUnfreeze(NoType, NoType), Frame("fillAll")>>)
    /\ UNCHANGED <<qvars, svars, mindvars, netvars, requests>>

\* the freeze time of a task is over
Ripen(t) ==
    /\ t \in ToSet(freezer)
    /\ ~etask[t].ripe
    /\ etask' = [etask EXCEPT ![t].ripe = TRUE]
    /\ UNCHANGED <<qvars, svars, tasks, freezer, connected, execTypes, execLock,
                   stack, netvars, requests>>
-----------------------------------------------------------------------------
(***************************************************************************)
(* Executors coming and going.                                             *)
(***************************************************************************)
AddExecutor(th) ==
    LET e == Top(th).exec IN
    /\ At(th, "addExecutor")
    /\ execLock = Free
    /\ IF e \in connected
       THEN Return(th) /\ UNCHANGED <<svars, connected, execLock>>
       ELSE /\ execLock' = th
            /\ connected' = connected \cup {e}
            /\ StateAddExecutor(e)
            /\ Continue(th, <<[CallExec("announceTypes", e) EXCEPT !.pos = 1]>>
                             \o CallFillAll(ExecTypes[e]))
    /\ UNCHANGED <<qvars, tasks, etask, freezer, execTypes, netvars, requests>>

\* addExecutor, still under the lock: one turn of the loop over its types, which
\* the threads that read __execTypes without the lock see one by one
AnnounceTypes(th) ==
    LET f == Top(th)  types == ExecTypes[f.exec] IN
    /\ At(th, "announceTypes")
    /\ IF f.pos > Len(types)
       THEN /\ execLock' = Free
            /\ Return(th)
            /\ UNCHANGED execTypes
       ELSE /\ execTypes' = IF types[f.pos] \in ToSet(execTypes) THEN execTypes
                            ELSE Append(execTypes, types[f.pos])
            /\ Continue(th, <<[f EXCEPT !.pos = @ + 1]>>)
            /\ UNCHANGED execLock
    /\ UNCHANGED <<qvars, svars, tasks, etask, freezer, connected, netvars, requests>>

RemoveExecutor(th) ==
    LET e == Top(th).exec IN
    /\ At(th, "removeExecutor")
    /\ execLock = Free
    /\ IF e \in connected
       THEN /\ connected' = connected \ {e}
            /\ execLock' = th
            /\ Continue(th, <<CallExec("dropState", e)>>)
       ELSE /\ UNCHANGED <<connected, execLock>>
            /\ Return(th)
    /\ UNCHANGED <<qvars, svars, tasks, etask, freezer, execTypes, netvars, requests>>

\* mutant of DropState: the other executors are not given the tasks that came back
DropStateNoFill(th) ==
    LET e == Top(th).exec IN
    /\ At(th, "dropState")
    /\ IF AllIndexed(e)
       THEN /\ StateRemoveExecutor(e)
            /\ Continue(th, <<[CallExec("requeue", e) EXCEPT !.todo = execTasks[e], !.type = Unbound],
                              CallExec("closeTransport", e)>>)
            /\ UNCHANGED <<execLock, netvars>>
       ELSE /\ StateRemoveExecutorFails(e)
            /\ Abort(th, e)
    /\ UNCHANGED <<qvars, tasks, etask, freezer, connected, execTypes, requests>>

\* removeExecutor, still under the lock: the tasks of the executor come back
DropState(th) ==
    LET e == Top(th).exec IN
    /\ At(th, "dropState")
    /\ IF AllIndexed(e)
       THEN /\ StateRemoveExecutor(e)
            /\ Continue(th, <<[CallExec("requeue", e) EXCEPT !.todo = execTasks[e], !.type = Unbound],
                              CallExec("closeTransport", e)>> \o CallFillAll(ExecTypes[e]))
            /\ UNCHANGED <<execLock, netvars>>
       ELSE /\ StateRemoveExecutorFails(e)
            /\ Abort(th, e)
    /\ UNCHANGED <<qvars, tasks, etask, freezer, connected, execTypes, requests>>

\* one turn of the loop over those tasks; eTask keeps its value when the task is gone
Requeue(th) ==
    LET f == Top(th) IN
    /\ At(th, "requeue")
    /\ IF f.todo = {}
       THEN /\ execLock' = Free
            /\ Return(th)
            /\ UNCHANGED netvars
       ELSE \E t \in f.todo :
              LET y == IF t \in tasks THEN etask[t].type ELSE f.type
                  next == [f EXCEPT !.todo = @ \ {t}, !.type = y]
              IN  IF y = Unbound
                  THEN Abort(th, f.exec)
                  ELSE /\ Continue(th, <<IF y = NoType THEN CallDispatch(t, TRUE)
                                                       ELSE CallPush(t, y, TRUE), next>>)
                       /\ UNCHANGED <<execLock, netvars>>
    /\ UNCHANGED <<qvars, svars, tasks, etask, freezer, connected, execTypes, requests>>

\* srv_disconnectClient of cbDisconectExecutor, srv_disconnect of msg_ExecutorError
DisconnectClient(th) ==
    /\ At(th, "closeTransport")
    /\ CloseTransport(Top(th).exec)
    /\ Return(th)
    /\ UNCHANGED <<qvars, svars, mindvars, requests>>
-----------------------------------------------------------------------------
(***************************************************************************)
(* The freezer.                                                            *)
(***************************************************************************)
\* mutant of FreezeTask: the retries are not counted
FreezeTaskUncounted(th) ==
    LET f == Top(th)  t == f.task IN
    /\ At(th, "freezeTask")
    /\ IF t \in ToSet(freezer) \/ t \notin tasks
       THEN UNCHANGED <<etask, freezer>>
       ELSE /\ etask' = [etask EXCEPT ![t].type = f.type, ![t].ripe = f.flag]
            /\ freezer' = Append(freezer, t)
    /\ Return(th)
    /\ UNCHANGED <<qvars, svars, tasks, connected, execTypes, execLock, netvars, requests>>

FreezeTask(th) ==
    LET f == Top(th)  t == f.task IN
    /\ At(th, "freezeTask")
    /\ IF t \in ToSet(freezer) \/ t \notin tasks
       THEN /\ UNCHANGED <<etask, freezer>>
            /\ Return(th)
       ELSE /\ etask' = [etask EXCEPT ![t].frozen = @ + 1, ![t].type = f.type, ![t].ripe = f.flag]
            /\ IF etask[t].frozen + 1 < FreezeLimit
               THEN freezer' = Append(freezer, t) /\ Return(th)
               ELSE /\ UNCHANGED freezer
                    /\ Continue(th, <<CallTask("removeTask", t)>>)
    /\ UNCHANGED <<qvars, svars, tasks, connected, execTypes, execLock, netvars, requests>>

\* mutant of UnfreezeTasks: the position does not advance
UnfreezeTasksStuck(th) ==
    LET f == Top(th)
        t == freezer[f.pos]
        skip == (f.type # NoType /\ f.type # etask[t].type) \/ ~etask[t].ripe
    IN
    /\ At(th, "unfreezeTasks")
    /\ IF f.pos > Len(freezer)
       THEN Continue(th, Again(f.loop)) /\ UNCHANGED freezer
       ELSE IF t \in tasks /\ skip
       THEN Continue(th, <<f>>) /\ UNCHANGED freezer
       ELSE /\ freezer' = RemoveAt(freezer, f.pos)
            /\ Continue(th, IF t \in tasks THEN <<CallDispatch(t, FALSE), f>> ELSE <<f>>)
    /\ UNCHANGED <<qvars, svars, tasks, etask, connected, execTypes, execLock, netvars, requests>>

\* mutant of UnfreezeTasks: only the type is compared, not the time
UnfreezeTasksEarly(th) ==
    LET f == Top(th)
        t == freezer[f.pos]
        skip == f.type # NoType /\ f.type # etask[t].type
    IN
    /\ At(th, "unfreezeTasks")
    /\ IF f.pos > Len(freezer)
       THEN Continue(th, Again(f.loop)) /\ UNCHANGED freezer
       ELSE IF t \in tasks /\ skip
       THEN Continue(th, <<[f EXCEPT !.pos = @ + 1]>>) /\ UNCHANGED freezer
       ELSE /\ freezer' = RemoveAt(freezer, f.pos)
            /\ Continue(th, IF t \in tasks THEN <<CallDispatch(t, FALSE), f>> ELSE <<f>>)
    /\ UNCHANGED <<qvars, svars, tasks, etask, connected, execTypes, execLock, netvars, requests>>

\* one turn of the loop of __unfreezeTasks, by position in a list others change
UnfreezeTasks(th) ==
    LET f == Top(th)
        t == freezer[f.pos]
        skip == (f.type # NoType /\ f.type # etask[t].type) \/ ~etask[t].ripe
    IN
    /\ At(th, "unfreezeTasks")
    /\ IF f.pos > Len(freezer)
       THEN /\ Continue(th, Again(f.loop))
            /\ UNCHANGED freezer
       ELSE IF t \in tasks /\ skip
       THEN /\ Continue(th, <<[f EXCEPT !.pos = @ + 1]>>)
            /\ UNCHANGED freezer
       ELSE /\ freezer' = RemoveAt(freezer, f.pos)
            /\ Continue(th, IF t \in tasks THEN <<CallDispatch(t, FALSE), f>> ELSE <<f>>)
    /\ UNCHANGED <<qvars, svars, tasks, etask, connected, execTypes, execLock, netvars, requests>>
-----------------------------------------------------------------------------
(***************************************************************************)
(* Adding, dispatching and removing a task.                                *)
(***************************************************************************)
AddTask(th) ==
    LET t == Top(th).task IN
    /\ At(th, "addTask")
    /\ IF t \in tasks
       THEN /\ Continue(th, <<CallUnfreeze(NoType, NoType)>>)
            /\ UNCHANGED tasks
       ELSE /\ tasks' = tasks \cup {t}
            /\ Continue(th, <<CallDispatch(t, TRUE)>>)
    /\ UNCHANGED <<qvars, svars, etask, freezer, connected, execTypes, execLock, netvars, requests>>

\* __dispatchTask up to the callback: skip a task that an executor has
DispatchTask(th) ==
    LET f == Top(th) IN
    /\ At(th, "dispatchTask")
    /\ IF taskInExec[f.task] # NoExec
       THEN Return(th) /\ UNCHANGED freezer
       ELSE /\ freezer' = RemoveFirst(freezer, f.task)
            /\ Continue(th, <<[f EXCEPT !.op = "getNextExecutor"]>>)
    /\ UNCHANGED <<qvars, svars, tasks, etask, connected, execTypes, execLock, netvars, requests>>

DispatchFailed(t) == IF FreezeOnFailedDispatch THEN CallFreeze(t, NoType, FALSE)
                                               ELSE CallTask("removeTask", t)

DispatchTo(t, y, defroze) ==
    IF y \in ToSet(execTypes) THEN <<CallPush(t, y, FALSE), CallFill(y, defroze)>>
    ELSE IF FreezeOnUnknownExecutor THEN <<CallFreeze(t, y, TRUE)>>
    ELSE <<CallTask("removeTask", t)>>

\* cbDispatch: the chain of the task is walked by the path it has executed
GetNextExecutor(th) ==
    LET f == Top(th)  t == f.task  done == Len(etask[t].path) IN
    /\ At(th, "getNextExecutor")
    /\ \/ /\ t \notin tasks \/ "dispatchError" \in Faults
          /\ Continue(th, <<DispatchFailed(t)>>)
          /\ UNCHANGED etask
       \/ /\ t \in tasks
          /\ done >= Len(Chain[t])
          /\ etask' = [etask EXCEPT ![t].type = NoType]
          /\ Continue(th, <<CallTask("removeTask", t)>>)
       \/ /\ t \in tasks
          /\ done < Len(Chain[t])
          /\ etask' = [etask EXCEPT ![t].type = Chain[t][done + 1]]
          /\ Continue(th, DispatchTo(t, Chain[t][done + 1], f.flag))
    /\ UNCHANGED <<qvars, svars, tasks, freezer, connected, execTypes, execLock, netvars, requests>>

PushTaskStep(th) ==
    LET f == Top(th) IN
    /\ At(th, "pushTask")
    /\ PushTask(f.task, f.type, f.flag)
    /\ Return(th)
    /\ UNCHANGED <<svars, mindvars, netvars, requests>>

RemoveTask(th) ==
    LET t == Top(th).task IN
    /\ At(th, "removeTask")
    /\ IF t \in tasks
       THEN /\ tasks' = tasks \ {t}
            /\ etask' = [etask EXCEPT ![t] = NewETask]
            /\ Continue(th, <<CallTask("removeQueued", t), CallTask("removeRunning", t),
                              CallTask("removeFrozen", t)>> \o
                            IF taskInExec[t] = NoExec THEN <<>>
                            ELSE <<CallExec("sendIfIdle", taskInExec[t])>>)
       ELSE /\ UNCHANGED <<tasks, etask>>
            /\ Return(th)
    /\ UNCHANGED <<qvars, svars, freezer, connected, execTypes, execLock, netvars, requests>>

RemoveQueued(th) ==
    /\ At(th, "removeQueued")
    /\ DeleteTask(Top(th).task)
    /\ Return(th)
    /\ UNCHANGED <<svars, mindvars, netvars, requests>>

RemoveRunning(th) ==
    /\ At(th, "removeRunning")
    /\ StateRemoveTask(Top(th).task)
    /\ Continue(th, Again(Top(th).loop))
    /\ UNCHANGED <<qvars, mindvars, netvars, requests>>

RemoveFrozen(th) ==
    /\ At(th, "removeFrozen")
    /\ freezer' = RemoveFirst(freezer, Top(th).task)
    /\ Return(th)
    /\ UNCHANGED <<qvars, svars, tasks, etask, connected, execTypes, execLock, netvars, requests>>
-----------------------------------------------------------------------------
(***************************************************************************)
(* Sending a task to an executor.                                          *)
(***************************************************************************)
\* the loop of __fillExecutors: while an executor of the type is idle, send
FillLoop(th) ==
    LET y == Top(th).type IN
    /\ At(th, "fillLoop")
    /\ \/ /\ IdleExecutors(y) = {}
          /\ Return(th)
       \/ \E e \in IdleExecutors(y) :
            Continue(th, <<[CallSend(e, y) EXCEPT !.loop = y]>>)
    /\ UNCHANGED <<qvars, svars, mindvars, netvars, requests>>

\* the loop of __doPeriodicStuff over the keys of __execTypes: when a key was added
\* since it began, the RuntimeError ends the round and the scheduler logs it
FillAll(th) ==
    LET f == Top(th)
        size == IF f.pos = 0 THEN Len(execTypes) ELSE f.size
    IN
    /\ At(th, "fillAll")
    /\ Continue(th, IF f.pos = size \/ size # Len(execTypes) THEN <<>>
                    ELSE <<CallFill(execTypes[f.pos + 1], TRUE),
                           [f EXCEPT !.pos = @ + 1, !.size = size]>>)
    /\ UNCHANGED <<qvars, svars, mindvars, netvars, requests>>

\* the executor's types from last to first, then the type it was asked to fill
SearchTypes(e, y) ==
    LET reversed == Reverse(ExecTypes[e]) IN
    IF y = NoType THEN reversed ELSE Append(RemoveFirst(reversed, y), y)

\* mutant of Send: the type asked for is kept, not the type of the queue
SendUnderType(th) ==
    LET f == Top(th)
        types == SearchTypes(f.exec, f.type)
    IN
    /\ At(th, "send")
    /\ \/ /\ f.exec \notin connected
          /\ Continue(th, Again(f.loop))
          /\ UNCHANGED qvars
       \/ /\ f.exec \in connected
          /\ NothingWaits(types)
          /\ Return(th)
          /\ UNCHANGED qvars
       \/ /\ f.exec \in connected
          /\ \E y \in Type :
               /\ IsNextType(y, types)
               /\ PopTask(y)
               /\ Continue(th, <<[f EXCEPT !.op = "handOver", !.task = Head(queues[y])]>>)
    /\ UNCHANGED <<svars, mindvars, netvars, requests>>

\* __sendTaskToExecutor: nothing waits ends a fill loop, an error does not
Send(th) ==
    LET f == Top(th)
        types == SearchTypes(f.exec, f.type)
    IN
    /\ At(th, "send")
    /\ \/ /\ f.exec \notin connected
          /\ Continue(th, Again(f.loop))
          /\ UNCHANGED qvars
       \/ /\ f.exec \in connected
          /\ NothingWaits(types)
          /\ Return(th)
          /\ UNCHANGED qvars
       \/ /\ f.exec \in connected
          /\ \E y \in Type :
               /\ IsNextType(y, types)
               /\ PopTask(y)
               /\ Continue(th, <<[f EXCEPT !.op = "handOver", !.type = y,
                                           !.task = Head(queues[y])]>>)
    /\ UNCHANGED <<svars, mindvars, netvars, requests>>

\* the same with checkIdle: only a count of exactly zero free slots stops it
SendIfIdle(th) ==
    LET e == Top(th).exec IN
    /\ At(th, "sendIfIdle")
    /\ Continue(th, IF FreeSlots(e) = 0 THEN <<>> ELSE <<CallSend(e, NoType)>>)
    /\ UNCHANGED <<qvars, svars, mindvars, netvars, requests>>

\* states.addTask; whether the executor was still known is not looked at
HandOver(th) ==
    LET f == Top(th) IN
    /\ At(th, "handOver")
    /\ StateAddTask(f.exec, f.task)
    /\ Continue(th, <<[f EXCEPT !.op = "message"]>>)
    /\ UNCHANGED <<qvars, mindvars, netvars, requests>>

\* __msgTaskToExecutor: the answer of cbSendTask is only checked for its form
Message(th) ==
    LET f == Top(th)  e == f.exec  t == f.task
        undo == [CallTask("removeRunning", t) EXCEPT !.loop = f.loop]
    IN
    /\ At(th, "message")
    /\ \/ /\ t \notin tasks
          /\ Continue(th, <<undo>>)
          /\ UNCHANGED work
       \/ /\ t \in tasks
          /\ transport[e] = "open"
          /\ work' = [work EXCEPT ![e] =
                        Append(@, [task |-> t, type |-> f.type])]
          /\ Continue(th, Again(f.loop))
       \/ /\ t \in tasks
          /\ transport[e] = "closed" \/ "sendRefused" \in Faults
          /\ Continue(th, Again(f.loop))
          /\ UNCHANGED work
       \/ /\ t \in tasks
          /\ "sendException" \in Faults
          /\ Continue(th, <<CallPush(t, f.type, FALSE), undo>>)
          /\ UNCHANGED work
    /\ UNCHANGED <<qvars, svars, mindvars, transport, dropped, requests>>
-----------------------------------------------------------------------------
(***************************************************************************)
(* An executor returns a task: taskProcessed and freezeTask.               *)
(***************************************************************************)
\* mutant of TaskReceived: the task stays with the executor
TaskReceivedKept(th) ==
    LET f == Top(th)  e == f.exec  t == f.task IN
    /\ At(th, "taskReceived")
    /\ Continue(th, IF t \notin tasks THEN <<>>
                    ELSE IF RemoveSucceeds(e, t)
                    THEN <<[f EXCEPT !.op = "taskReturned", !.type = etask[t].type]>>
                    ELSE <<CallSend(e, NoType)>>)
    /\ UNCHANGED <<qvars, svars, mindvars, netvars, requests>>

\* __taskReceived up to the removal from the executor
TaskReceived(th) ==
    LET f == Top(th)  e == f.exec  t == f.task IN
    /\ At(th, "taskReceived")
    /\ IF t \in tasks
       THEN /\ StateRemoveTaskFrom(e, t)
            /\ Continue(th, IF RemoveSucceeds(e, t)
                            THEN <<[f EXCEPT !.op = "taskReturned", !.type = etask[t].type]>>
                            ELSE <<CallSend(e, NoType)>>)
       ELSE /\ UNCHANGED svars
            /\ Return(th)
    /\ UNCHANGED <<qvars, mindvars, netvars, requests>>

\* the rest of it (a KeyError when idMap has lost the executor) and the callback
SaveFailed(f) ==
    <<CallSend(f.exec, NoType)>> \o IF f.flag THEN <<CallTask("removeTask", f.task)>> ELSE <<>>

TaskReturned(th) ==
    LET f == Top(th)  e == f.exec IN
    /\ At(th, "taskReturned")
    /\ \/ /\ e \notin connected
          /\ Abort(th, e)
       \/ /\ e \in connected
          /\ f.type \notin TypesOf(e)
          /\ Continue(th, <<CallExec("removeExecutor", e), CallDispatch(f.task, TRUE)>>)
          /\ UNCHANGED <<execLock, netvars>>
       \/ /\ e \in connected
          /\ f.type \in TypesOf(e)
          /\ \/ Continue(th, <<[f EXCEPT !.op = "storeTask"]>>)
             \/ "saveError" \in Faults /\ Continue(th, SaveFailed(f))
          /\ UNCHANGED <<execLock, netvars>>
    /\ UNCHANGED <<qvars, svars, tasks, etask, freezer, connected, execTypes, requests>>

\* mutant of StoreTask: a task to be frozen is not
StoreTaskNoFreeze(th) ==
    LET f == Top(th)  t == f.task  fill == CallSend(f.exec, f.type) IN
    /\ At(th, "storeTask")
    /\ IF t \in tasks /\ f.flag
       THEN /\ etask' = [etask EXCEPT ![t].path = Append(@, f.type)]
            /\ Continue(th, <<CallDispatch(t, TRUE), fill>>)
       ELSE Continue(th, <<fill>>) /\ UNCHANGED etask
    /\ UNCHANGED <<qvars, svars, tasks, freezer, connected, execTypes, execLock, netvars, requests>>

\* the task goes on along its path, or to the freezer; then the executor is filled
StoreTask(th) ==
    LET f == Top(th)  t == f.task  fill == CallSend(f.exec, f.type) IN
    /\ At(th, "storeTask")
    /\ IF t \notin tasks
       THEN Continue(th, <<fill>>) /\ UNCHANGED etask
       ELSE IF f.flag
       THEN /\ etask' = [etask EXCEPT ![t].path = Append(@, f.type)]
            /\ Continue(th, <<CallDispatch(t, TRUE), fill>>)
       ELSE /\ UNCHANGED etask
            /\ Continue(th, <<CallFreeze(t, f.type, FALSE), fill>>)
    /\ UNCHANGED <<qvars, svars, tasks, freezer, connected, execTypes, execLock, netvars, requests>>
-----------------------------------------------------------------------------
ThreadStep(th) ==
    \/ AddExecutor(th) \/ AnnounceTypes(th) \/ RemoveExecutor(th) \/ DropState(th)
    \/ Requeue(th) \/ DisconnectClient(th)
    \/ FreezeTask(th) \/ UnfreezeTasks(th)
    \/ AddTask(th) \/ DispatchTask(th) \/ GetNextExecutor(th) \/ PushTaskStep(th)
    \/ RemoveTask(th) \/ RemoveQueued(th) \/ RemoveRunning(th) \/ RemoveFrozen(th)
    \/ FillLoop(th) \/ FillAll(th) \/ Send(th) \/ SendIfIdle(th)
    \/ HandOver(th) \/ Message(th)
    \/ TaskReceived(th) \/ TaskReturned(th) \/ StoreTask(th)

Next ==
    \/ \E th \in Worker, e \in Exec : Connect(th, e) \/ HandleDrop(th, e)
    \/ \E e \in Exec : Disconnect(e)
    \/ \E th \in Worker, e \in Exec, kind \in Replies : HandleReply(th, e, kind)
    \/ \E th \in Worker, t \in Task, kind \in Requests : Request(th, t, kind)
    \/ Periodic
    \/ \E t \in Task : Ripen(t)
    \/ \E th \in Thread : ThreadStep(th)

Spec == Init /\ [][Next]_vars
-----------------------------------------------------------------------------
Op == {"addExecutor", "announceTypes", "removeExecutor", "dropState", "requeue", "closeTransport",
       "freezeTask", "unfreezeTasks", "addTask", "dispatchTask", "getNextExecutor",
       "pushTask", "removeTask", "removeQueued", "removeRunning", "removeFrozen",
       "fillLoop", "fillAll", "send", "sendIfIdle", "handOver", "message",
       "taskReceived", "taskReturned", "storeTask"}

FrameType == [op : Op, task : Task \cup {NoTask}, exec : Exec \cup {NoExec},
              type : Type \cup {NoType, Unbound}, loop : Type \cup {NoType},
              flag : BOOLEAN, pos : Nat, size : Nat, todo : SUBSET Task]

ETaskType == [type : Type \cup {NoType}, frozen : Nat, path : Seq(Type), ripe : BOOLEAN]

WorkType == [task : Task, type : Type]

MindTypeOK ==
    /\ tasks \subseteq Task
    /\ etask \in [Task -> ETaskType]
    /\ freezer \in Seq(Task)
    /\ connected \subseteq Exec
    /\ execTypes \in Seq(Type)
    /\ execLock \in Thread \cup {Free}

NetTypeOK ==
    /\ transport \in [Exec -> {"none", "open", "closed"}]
    /\ dropped \subseteq Exec
    /\ work \in [Exec -> Seq(WorkType)]

(***************************************************************************)
(* The type invariant.                                                     *)
(***************************************************************************)
TypeOK ==
    /\ QTypeOK
    /\ STypeOK
    /\ MindTypeOK
    /\ stack \in [Thread -> Seq(FrameType)]
    /\ NetTypeOK
    /\ requests \in [Task -> Nat]

(***************************************************************************)
(* No task is lost: when no handler runs and no connection waits for its   *)
(* drop callback, every task the mind knows waits in a queue, waits in the *)
(* freezer, or is being worked on by a live executor that the mind credits *)
(* with it.  A task that is known and in none of those places stays there  *)
(* for ever: addTask ignores a known id and __loadJobs skips it.           *)
(***************************************************************************)
AtRest == dropped = {} /\ \A th \in Thread : Idle(th)

WorksOn(e, t) == \E i \in DOMAIN work[e] : work[e][i].task = t

CaredFor(t) ==
    \/ taskInQueue[t] # NoType
    \/ t \in ToSet(freezer)
    \/ \E e \in connected : t \in execTasks[e] /\ WorksOn(e, t)

NoTaskLost == AtRest => \A t \in tasks : CaredFor(t)

(***************************************************************************)
(* Half of it: a task that no executor holds waits somewhere.              *)
(***************************************************************************)
FreeTasksWait ==
    AtRest => \A t \in tasks : \/ \E e \in Exec : t \in execTasks[e]
                              \/ taskInQueue[t] # NoType
                              \/ t \in ToSet(freezer)

(***************************************************************************)
(* No executor is left idle with work waiting for it: no wake-up is lost   *)
(* between the queues and the executors.                                   *)
(***************************************************************************)
WorkConserving ==
    AtRest => \A e \in connected : work[e] = <<>> =>
                  \A y \in TypesOf(e) : queues[y] = <<>>

(***************************************************************************)
(* A task is in one place at a time: in one queue, in the freezer, or with *)
(* one executor, whatever the threads are in the middle of.                *)
(***************************************************************************)
Places(t) ==
    {<<"exec", e>> : e \in {x \in Exec : t \in execTasks[x]}}
    \cup (IF taskInQueue[t] # NoType THEN {<<"queue", NoExec>>} ELSE {})
    \cup (IF t \in ToSet(freezer) THEN {<<"freezer", NoExec>>} ELSE {})

OnePlace == \A t \in Task : Cardinality(Places(t)) <= 1

(***************************************************************************)
(* Two executors never work on the same task, and no executor gets a task  *)
(* twice.                                                                  *)
(***************************************************************************)
Jobs(t) == {ei \in Exec \X (1 .. MaxRequests + 1) :
                ei[2] \in DOMAIN work[ei[1]] /\ work[ei[1]][ei[2]].task = t}

WorkedOnOnce == \A t \in Task : Cardinality(Jobs(t)) <= 1

(***************************************************************************)
(* A frozen task stays in the freezer until its freeze time is over,       *)
(* unless it is forgotten: no dispatch takes it out early.                 *)
(***************************************************************************)
FrozenLongEnough ==
    [][\A t \in tasks \cap tasks' :
          t \in ToSet(freezer) /\ ~etask[t].ripe => t \in ToSet(freezer')]_vars

(***************************************************************************)
(* The mind implements TaskService: the life of a task as read off the     *)
(* maps, queues and stacks.  A task counts as returned from the moment the *)
(* executor loses it until its result is stored.                           *)
(***************************************************************************)
ComingBack(t) == \E th \in Thread : \E i \in DOMAIN stack[th] :
    /\ stack[th][i].op \in {"taskReturned", "storeTask"}
    /\ stack[th][i].task = t
    /\ stack[th][i].flag

phase == [t \in Task |->
    IF \E e \in Exec : t \in execTasks[e] THEN "running"
    ELSE IF t \in ToSet(freezer) THEN "frozen"
    ELSE IF ComingBack(t) THEN "returned"
    ELSE IF t \in tasks THEN "waiting"
    ELSE "unknown"]

runner == [t \in Task |->
    IF \E e \in Exec : t \in execTasks[e] THEN CHOOSE e \in Exec : t \in execTasks[e]
                                          ELSE NoExec]

steps == [t \in Task |-> Len(etask[t].path)]

Service == INSTANCE TaskService WITH phase <- phase, runner <- runner, steps <- steps
ImplementsTaskService == Service!Spec

(***************************************************************************)
(* Fairness: threads run, the clock advances, the periodic task runs, and  *)
(* the broker delivers what an executor that stays connected answers.      *)
(***************************************************************************)
Fairness ==
    /\ \A th \in Thread : WF_vars(ThreadStep(th))
    /\ WF_vars(Periodic)
    /\ \A t \in Task : WF_vars(Ripen(t))
    /\ \A e \in Exec :
         /\ WF_vars(\E th \in Worker : Connect(th, e))
         /\ WF_vars(\E th \in Worker : HandleDrop(th, e))
         /\ WF_vars(\E th \in Worker, kind \in Replies : HandleReply(th, e, kind))

FairSpec == Spec /\ Fairness

(***************************************************************************)
(* Every handler comes to its end: no thread waits for ever for the lock,  *)
(* and no loop over the executors or the freezer goes round for ever.      *)
(***************************************************************************)
HandlersReturn == \A th \in Thread : ~Idle(th) ~> Idle(th)

(***************************************************************************)
(* Every task the mind accepts leaves it: done, or given up.               *)
(***************************************************************************)
EveryTaskLeaves == \A t \in Task : t \in tasks ~> t \notin tasks
=============================================================================
