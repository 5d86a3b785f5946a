------------------------- MODULE ExecutorLifeProofs -------------------------
(***************************************************************************)
(* Theorems about the life of a task in the executor mind: who works on    *)
(* it, that it is not lost, who is woken up for it, that its life is the   *)
(* one TaskService promises, and that it stays frozen for its time, for    *)
(* any tasks, types, executors, threads and chains.                        *)
(***************************************************************************)
EXTENDS ExecutorDispatcherProofs

-----------------------------------------------------------------------------
(***************************************************************************)
(* Who works on a task.  While the mind knows a task, an executor with an  *)
(* open connection that works on it, or whose answer for it a thread has   *)
(* in its hands, holds it in the books of ExecutorState.  A task that is   *)
(* forgotten is not sent again, so that what is still worked on can only   *)
(* come to its end.                                                        *)
(***************************************************************************)
BusyOps == {"addTask", "message", "taskReceived", "removeRunning"}

Busy(t) == {f \in Call : f.op \in BusyOps /\ f.task = t}

Adds(t) == {f \in Busy(t) : f.op = "addTask"}

Undoes(t) == {f \in Busy(t) : f.op = "removeRunning"}

\* the calls by which e is about to get t, or has answered it
Answers(t, e) == {f \in Busy(t) : f.op \in {"message", "taskReceived"} /\ f.exec = e}

WorkOf(t) == {w \in WorkType : w.task = t}

Working(t, e) == Has(work[e], WorkOf(t))

OneWorker(t) ==
    \A e \in Exec :
        /\ AtMostOne(work[e], WorkOf(t))
        /\ \A d \in Exec : Working(t, e) /\ Working(t, d) => d = e

\* before it is added, a task has left no trace
Fresh(t) ==
    requests[t] = 0 \/ Somewhere(stack, Adds(t)) =>
        /\ t \notin tasks
        /\ ~Somewhere(stack, Undoes(t))
        /\ \A e \in Exec : ~Somewhere(stack, Answers(t, e)) /\ ~Working(t, e)

Credited(t, e) ==
    /\ Working(t, e) \/ Somewhere(stack, Answers(t, e)) => Held(t, e)
    /\ Sole(stack, Answers(t, e))
    /\ Somewhere(stack, Answers(t, e)) => ~Working(t, e)

Work(t) ==
    /\ OneWorker(t)
    /\ Fresh(t)
    /\ t \in tasks =>
         /\ ~Somewhere(stack, Undoes(t))
         /\ \A e \in Exec : Open(e) => Credited(t, e)

WorkInv == \A t \in Task : Work(t)

\* no call of those above is new
Quieter(t) ==
    \A S \in SUBSET Busy(t) :
        /\ Somewhere(stack', S) => Somewhere(stack, S)
        /\ Sole(stack, S) => Sole(stack', S)

\* connections only break, and take with them what was worked on
Hushed(t) ==
    \A e \in Exec :
        /\ Open(e)' => Open(e)
        /\ Working(t, e)' => Working(t, e)
        /\ AtMostOne(work[e], WorkOf(t)) => AtMostOne(work'[e], WorkOf(t))

LEMMA BusyParts ==
  ASSUME NEW t
  PROVE  /\ Adds(t) \in SUBSET Busy(t) /\ Undoes(t) \in SUBSET Busy(t)
         /\ \A e \in Exec : Answers(t, e) \in SUBSET Busy(t)
BY DEF Adds, Undoes, Answers

LEMMA QuieterParts ==
  ASSUME NEW t, Quieter(t)
  PROVE  /\ Somewhere(stack', Adds(t)) => Somewhere(stack, Adds(t))
         /\ Somewhere(stack', Undoes(t)) => Somewhere(stack, Undoes(t))
         /\ \A e \in Exec : /\ Somewhere(stack', Answers(t, e)) => Somewhere(stack, Answers(t, e))
                            /\ Sole(stack, Answers(t, e)) => Sole(stack', Answers(t, e))
BY BusyParts DEF Quieter

LEMMA WorkStays ==
  ASSUME NEW t \in Task, Work(t), Quieter(t), Hushed(t), requests'[t] = requests[t],
         t \in tasks' =>
            /\ t \in tasks
            /\ \A e \in Exec : Held(t, e) /\ Open(e)' =>
                 Held(t, e)' \/ (~Working(t, e)' /\ ~Somewhere(stack', Answers(t, e)))
  PROVE  Work(t)'
<1>1. /\ Somewhere(stack', Adds(t)) => Somewhere(stack, Adds(t))
      /\ Somewhere(stack', Undoes(t)) => Somewhere(stack, Undoes(t))
      /\ \A e \in Exec : /\ Somewhere(stack', Answers(t, e)) => Somewhere(stack, Answers(t, e))
                         /\ Sole(stack, Answers(t, e)) => Sole(stack', Answers(t, e))
  BY QuieterParts
<1>2. \A e \in Exec : /\ Working(t, e)' => Working(t, e)
                      /\ AtMostOne(work[e], WorkOf(t)) => AtMostOne(work'[e], WorkOf(t))
                      /\ Open(e)' => Open(e)
  BY DEF Hushed
<1>3. OneWorker(t)'
  BY <1>2 DEF Work, OneWorker
<1>4. Fresh(t)'
  BY <1>1, <1>2 DEF Work, Fresh
<1>5. ASSUME t \in tasks', NEW e \in Exec, Open(e)' PROVE Credited(t, e)'
  BY <1>1, <1>2, <1>5 DEF Work, Credited
<1>6. t \in tasks' => ~Somewhere(stack, Undoes(t))'
  BY <1>1 DEF Work
<1>7. QED
  BY <1>3, <1>4, <1>5, <1>6 DEF Work

\* a task that is forgotten, or was never known
LEMMA WorkGone ==
  ASSUME NEW t \in Task, Work(t), Hushed(t), t \notin tasks',
         requests'[t] # 0, ~Somewhere(stack', Adds(t))
  PROVE  Work(t)'
<1>1. OneWorker(t)'
  BY DEF Work, OneWorker, Hushed
<1>2. Fresh(t)'
  BY DEF Fresh
<1>3. QED
  BY <1>1, <1>2 DEF Work

LEMMA QuieterGoesOn ==
  ASSUME TypeInv, NEW t, NEW th \in Thread, stack[th] # <<>>, NEW g \in Seq(Call),
         Continue(th, g), ~Has(g, Busy(t))
  PROVE  Quieter(t)
<1> SUFFICES ASSUME NEW S \in SUBSET Busy(t)
             PROVE  /\ Somewhere(stack', S) => Somewhere(stack, S)
                    /\ Sole(stack, S) => Sole(stack', S)
  BY DEF Quieter
<1>1. ~Has(g, S) /\ AtMostOne(g, S)
  BY DEF Has, AtMostOne
<1> DEFINE p == stack'
<1>2. p = Swap(stack, th, g)
  BY DEF Continue, Swap
<1>3. stack \in Stacks
  BY StackIsStacks
<1> HIDE DEF p
<1>4. /\ Somewhere(p, S) => Somewhere(stack, S) \/ Has(g, S)
      /\ Sole(stack, S) /\ AtMostOne(g, S) /\ (Has(g, S) => Head(stack[th]) \in S \/ ~Somewhere(stack, S))
           => Sole(p, S)
  BY <1>2, <1>3, Replaced
<1>5. QED
  BY <1>1, <1>4 DEF p

LEMMA QuieterGoesOnOne ==
  ASSUME TypeInv, NEW t, NEW th \in Thread, stack[th] # <<>>,
         \/ Continue(th, <<>>)
         \/ \E a \in Call : Continue(th, <<a>>) /\ a \notin Busy(t)
  PROVE  Quieter(t)
<1>1. CASE Continue(th, <<>>)
  <2>1. <<>> \in Seq(Call) /\ ~Has(<<>>, Busy(t))
    BY HasNone
  <2>2. QED
    BY <1>1, <2>1, QuieterGoesOn
<1>2. ASSUME NEW a \in Call, Continue(th, <<a>>), a \notin Busy(t) PROVE Quieter(t)
  <2>1. <<a>> \in Seq(Call) /\ ~Has(<<a>>, Busy(t))
    BY <1>2, HasSingle
  <2>2. QED
    BY <1>2, <2>1, QuieterGoesOn
<1>3. QED
  BY <1>1, <1>2

LEMMA QuieterGoesOnTwo ==
  ASSUME TypeInv, NEW t, NEW th \in Thread, stack[th] # <<>>, NEW a \in Call, NEW b \in Call,
         Continue(th, <<a, b>>), a \notin Busy(t), b \notin Busy(t)
  PROVE  Quieter(t)
<1>1. <<a, b>> \in Seq(Call) /\ ~Has(<<a, b>>, Busy(t))
  BY HasPair
<1>2. QED
  BY <1>1, QuieterGoesOn

LEMMA FillsAreQuiet == ASSUME NEW t PROVE \A f \in Fills : f \notin Busy(t)
BY DEF Fills, Busy, BusyOps

LEMMA QuieterFills ==
  ASSUME TypeInv, NEW t, NEW th \in Thread, stack[th] # <<>>, NEW g \in Seq(Fills), Continue(th, g)
  PROVE  Quieter(t)
<1>1. g \in Seq(Call) /\ ~Has(g, Busy(t))
  BY HasNoFill, FillsAreQuiet
<1>2. QED
  BY <1>1, QuieterGoesOn

LEMMA QuieterStarts ==
  ASSUME TypeInv, NEW t, NEW th \in Thread, NEW g \in Seq(Call), Starts(th, g), ~Has(g, Busy(t))
  PROVE  Quieter(t)
<1> SUFFICES ASSUME NEW S \in SUBSET Busy(t)
             PROVE  /\ Somewhere(stack', S) => Somewhere(stack, S)
                    /\ Sole(stack, S) => Sole(stack', S)
  BY DEF Quieter
<1>1. ~Has(g, S) /\ AtMostOne(g, S)
  BY DEF Has, AtMostOne
<1> DEFINE p == stack'
<1>2. p = [stack EXCEPT ![th] = g] /\ stack[th] = <<>>
  BY DEF Starts, Idle
<1>3. stack \in Stacks
  BY StackIsStacks
<1> HIDE DEF p
<1>4. /\ Somewhere(p, S) <=> Somewhere(stack, S) \/ Has(g, S)
      /\ Sole(stack, S) /\ AtMostOne(g, S) /\ ~(Has(g, S) /\ Somewhere(stack, S)) => Sole(p, S)
  BY <1>2, <1>3, Begun
<1>5. QED
  BY <1>1, <1>4 DEF p

LEMMA QuieterStops ==
  ASSUME TypeInv, NEW t, NEW th \in Thread, stack' = [stack EXCEPT ![th] = <<>>]
  PROVE  Quieter(t)
<1> SUFFICES ASSUME NEW S \in SUBSET Busy(t)
             PROVE  /\ Somewhere(stack', S) => Somewhere(stack, S)
                    /\ Sole(stack, S) => Sole(stack', S)
  BY DEF Quieter
<1> DEFINE p == stack'
<1>1. stack \in Stacks /\ p = [stack EXCEPT ![th] = <<>>]
  BY StackIsStacks
<1> HIDE DEF p
<1>2. (Somewhere(p, S) => Somewhere(stack, S)) /\ (Sole(stack, S) => Sole(p, S))
  BY <1>1, Ended
<1>3. QED
  BY <1>2 DEF p

LEMMA CloseHushes == ASSUME TypeInv, NEW t, NEW e \in Exec, CloseTransport(e) PROVE Hushed(t)
<1> SUFFICES ASSUME NEW c \in Exec
             PROVE  /\ Open(c)' => Open(c)
                    /\ Working(t, c)' => Working(t, c)
                    /\ AtMostOne(work[c], WorkOf(t)) => AtMostOne(work'[c], WorkOf(t))
  BY DEF Hushed
<1>1. Open(c)' => Open(c)
  BY CloseSeen DEF Open
<1>2. CASE work'[c] = work[c]
  BY <1>1, <1>2 DEF Working
<1>3. CASE work'[c] = <<>>
  BY <1>1, <1>3, HasNone DEF Working
<1>4. QED
  BY <1>2, <1>3, CloseSeen

LEMMA StillHushed == ASSUME NEW t, UNCHANGED <<transport, work>> PROVE Hushed(t)
BY DEF Hushed, Open, Working

\* a step of a thread that touches neither the executors nor the books
LEMMA WorkCalls ==
  ASSUME NEW t \in Task, Work(t), Quieter(t), UNCHANGED <<transport, work, execTasks, tasks, requests>>
  PROVE  Work(t)'
BY WorkStays, StillHushed DEF Held

\* an exception ends the handler and breaks the connection
LEMMA AbortWork ==
  ASSUME TypeInv, NEW t \in Task, Work(t), NEW th \in Thread, NEW e \in Exec, Abort(th, e),
         UNCHANGED <<execTasks, tasks, requests>>
  PROVE  Work(t)'
<1>1. Quieter(t) /\ Hushed(t)
  BY QuieterStops, CloseHushes DEF Abort
<1>2. QED
  BY <1>1, WorkStays DEF Held

LEMMA AnnounceTypesWork ==
  ASSUME TypeInv, NEW t \in Task, Work(t), NEW th \in Thread, AnnounceTypes(th) PROVE Work(t)'
<1>1. stack[th] # <<>> /\ UNCHANGED <<transport, work, execTasks, tasks, requests>>
  BY AnnounceTypesSeen DEF At, svars, netvars
<1>2. PICK g \in Seq(Fills) : Continue(th, g)
  BY AnnounceTypesSeen
<1>3. QED
  BY <1>1, <1>2, QuieterFills, WorkCalls

LEMMA FillAllWork ==
  ASSUME TypeInv, NEW t \in Task, Work(t), NEW th \in Thread, FillAll(th) PROVE Work(t)'
<1>1. stack[th] # <<>> /\ UNCHANGED <<transport, work, execTasks, tasks, requests>>
  BY FillAllSeen DEF At, svars, netvars
<1>2. PICK g \in Seq(Fills) : Continue(th, g)
  BY FillAllSeen
<1>3. QED
  BY <1>1, <1>2, QuieterFills, WorkCalls

LEMMA RemoveExecutorWork ==
  ASSUME TypeInv, NEW t \in Task, Work(t), NEW th \in Thread, RemoveExecutor(th) PROVE Work(t)'
<1>1. stack[th] # <<>> /\ UNCHANGED <<transport, work, execTasks, tasks, requests>>
  BY RemoveExecutorSeen DEF At, svars, netvars
<1>2. ASSUME NEW a \in Call, Continue(th, <<a>>), a.op \in {"dropState"} PROVE Work(t)'
  <2>1. a \notin Busy(t)
    BY <1>2 DEF Busy, BusyOps
  <2>2. QED
    BY <1>1, <1>2, <2>1, QuieterGoesOnOne, WorkCalls
<1>3. ASSUME Continue(th, <<>>) PROVE Work(t)'
  BY <1>1, <1>3, QuieterGoesOnOne, WorkCalls
<1>4. QED
  BY <1>2, <1>3, RemoveExecutorSeen

LEMMA FreezeTaskWork ==
  ASSUME TypeInv, NEW t \in Task, Work(t), NEW th \in Thread, FreezeTask(th) PROVE Work(t)'
<1>1. stack[th] # <<>> /\ UNCHANGED <<transport, work, execTasks, tasks, requests>>
  BY FreezeTaskSeen DEF At, svars, netvars
<1>2. ASSUME NEW a \in Call, Continue(th, <<a>>), a.op \in {"removeTask"} PROVE Work(t)'
  <2>1. a \notin Busy(t)
    BY <1>2 DEF Busy, BusyOps
  <2>2. QED
    BY <1>1, <1>2, <2>1, QuieterGoesOnOne, WorkCalls
<1>3. ASSUME Continue(th, <<>>) PROVE Work(t)'
  BY <1>1, <1>3, QuieterGoesOnOne, WorkCalls
<1>4. QED
  BY <1>2, <1>3, FreezeTaskSeen

LEMMA DispatchTaskWork ==
  ASSUME TypeInv, NEW t \in Task, Work(t), NEW th \in Thread, DispatchTask(th) PROVE Work(t)'
<1>1. stack[th] # <<>> /\ UNCHANGED <<transport, work, execTasks, tasks, requests>>
  BY DispatchTaskSeen DEF At, svars, netvars
<1>2. ASSUME NEW a \in Call, Continue(th, <<a>>), a.op \in {"getNextExecutor"} PROVE Work(t)'
  <2>1. a \notin Busy(t)
    BY <1>2 DEF Busy, BusyOps
  <2>2. QED
    BY <1>1, <1>2, <2>1, QuieterGoesOnOne, WorkCalls
<1>3. ASSUME Continue(th, <<>>) PROVE Work(t)'
  BY <1>1, <1>3, QuieterGoesOnOne, WorkCalls
<1>4. QED
  BY <1>2, <1>3, DispatchTaskSeen

LEMMA FillLoopWork ==
  ASSUME TypeInv, NEW t \in Task, Work(t), NEW th \in Thread, FillLoop(th) PROVE Work(t)'
<1>1. stack[th] # <<>> /\ UNCHANGED <<transport, work, execTasks, tasks, requests>>
  BY FillLoopSeen DEF At, svars, netvars
<1>2. ASSUME NEW a \in Call, Continue(th, <<a>>), a.op \in {"send"} PROVE Work(t)'
  <2>1. a \notin Busy(t)
    BY <1>2 DEF Busy, BusyOps
  <2>2. QED
    BY <1>1, <1>2, <2>1, QuieterGoesOnOne, WorkCalls
<1>3. ASSUME Continue(th, <<>>) PROVE Work(t)'
  BY <1>1, <1>3, QuieterGoesOnOne, WorkCalls
<1>4. QED
  BY <1>2, <1>3, FillLoopSeen

LEMMA SendIfIdleWork ==
  ASSUME TypeInv, NEW t \in Task, Work(t), NEW th \in Thread, SendIfIdle(th) PROVE Work(t)'
<1>1. stack[th] # <<>> /\ UNCHANGED <<transport, work, execTasks, tasks, requests>>
  BY SendIfIdleSeen DEF At, svars, netvars
<1>2. ASSUME NEW a \in Call, Continue(th, <<a>>), a.op \in {"send"} PROVE Work(t)'
  <2>1. a \notin Busy(t)
    BY <1>2 DEF Busy, BusyOps
  <2>2. QED
    BY <1>1, <1>2, <2>1, QuieterGoesOnOne, WorkCalls
<1>3. ASSUME Continue(th, <<>>) PROVE Work(t)'
  BY <1>1, <1>3, QuieterGoesOnOne, WorkCalls
<1>4. QED
  BY <1>2, <1>3, SendIfIdleSeen

LEMMA PushTaskStepWork ==
  ASSUME TypeInv, NEW t \in Task, Work(t), NEW th \in Thread, PushTaskStep(th) PROVE Work(t)'
<1>1. stack[th] # <<>> /\ Continue(th, <<>>) /\ UNCHANGED <<transport, work, execTasks, tasks, requests>>
  BY PushTaskStepSeen DEF At, svars, netvars
<1>2. QED
  BY <1>1, QuieterGoesOnOne, WorkCalls

LEMMA RemoveQueuedWork ==
  ASSUME TypeInv, NEW t \in Task, Work(t), NEW th \in Thread, RemoveQueued(th) PROVE Work(t)'
<1>1. stack[th] # <<>> /\ Continue(th, <<>>) /\ UNCHANGED <<transport, work, execTasks, tasks, requests>>
  BY RemoveQueuedSeen DEF At, svars, netvars
<1>2. QED
  BY <1>1, QuieterGoesOnOne, WorkCalls

LEMMA RemoveFrozenWork ==
  ASSUME TypeInv, NEW t \in Task, Work(t), NEW th \in Thread, RemoveFrozen(th) PROVE Work(t)'
<1>1. stack[th] # <<>> /\ Continue(th, <<>>) /\ UNCHANGED <<transport, work, execTasks, tasks, requests>>
  BY RemoveFrozenSeen DEF At, svars, netvars
<1>2. QED
  BY <1>1, QuieterGoesOnOne, WorkCalls

LEMMA AddExecutorWork ==
  ASSUME TypeInv, NEW t \in Task, Work(t), NEW th \in Thread, AddExecutor(th) PROVE Work(t)'
<1>1. stack[th] # <<>> /\ UNCHANGED <<transport, work, execTasks, tasks, requests>>
  BY AddExecutorSeen DEF At, netvars
<1>2. PICK g \in Seq(Fills) : Continue(th, g)
  BY AddExecutorSeen
<1>3. QED
  BY <1>1, <1>2, QuieterFills, WorkCalls

LEMMA UnfreezeTasksWork ==
  ASSUME TypeInv, NEW t \in Task, Work(t), NEW th \in Thread, UnfreezeTasks(th) PROVE Work(t)'
<1>1. stack[th] # <<>> /\ Top(th) \in Fills /\ UNCHANGED <<transport, work, execTasks, tasks, requests>>
  BY UnfreezeTasksSeen DEF At, svars, netvars
<1>2. Top(th) \in Call /\ Top(th).loop \in Type \cup {NoType} /\ Top(th) \notin Busy(t)
  BY <1>1, FillsAreQuiet DEF Fills, Call, FrameType
<1>3. CASE Continue(th, Again(Top(th).loop))
  BY <1>1, <1>2, <1>3, AgainFills, QuieterFills, WorkCalls
<1>4. ASSUME NEW a \in Fills, Continue(th, <<a>>) PROVE Work(t)'
  <2>1. a \in Call /\ a \notin Busy(t)
    BY FillsAreQuiet DEF Fills
  <2>2. QED
    BY <1>1, <1>4, <2>1, QuieterGoesOnOne, WorkCalls
<1>5. ASSUME NEW a \in Call, a.op = "dispatchTask", Continue(th, <<a, Top(th)>>) PROVE Work(t)'
  <2>1. a \notin Busy(t)
    BY <1>5 DEF Busy, BusyOps
  <2>2. QED
    BY <1>1, <1>2, <1>5, <2>1, QuieterGoesOnTwo, WorkCalls
<1>6. QED
  BY <1>1, <1>3, <1>4, <1>5, UnfreezeTasksSeen

LEMMA RequeueWork ==
  ASSUME TypeInv, NEW t \in Task, Work(t), NEW th \in Thread, Requeue(th) PROVE Work(t)'
<1> DEFINE e == Top(th).exec
<1>1. stack[th] # <<>> /\ e \in Exec /\ UNCHANGED <<execTasks, tasks, requests>>
  BY RequeueSeen DEF At, svars
<1>2. CASE Continue(th, <<>>) /\ UNCHANGED netvars
  BY <1>1, <1>2, QuieterGoesOnOne, WorkCalls DEF netvars
<1>3. CASE Abort(th, e)
  BY <1>1, <1>3, AbortWork
<1>4. ASSUME NEW a \in Call, NEW b \in Call, Continue(th, <<a, b>>), UNCHANGED netvars,
             b.op = "requeue", a.op \in {"dispatchTask", "pushTask"}
      PROVE  Work(t)'
  <2>1. a \notin Busy(t) /\ b \notin Busy(t)
    BY <1>4 DEF Busy, BusyOps
  <2>2. QED
    BY <1>1, <1>4, <2>1, QuieterGoesOnTwo, WorkCalls DEF netvars
<1>5. QED
  BY <1>2, <1>3, <1>4, RequeueSeen

LEMMA DisconnectClientWork ==
  ASSUME TypeInv, NEW t \in Task, Work(t), NEW th \in Thread, DisconnectClient(th) PROVE Work(t)'
<1> DEFINE e == Top(th).exec
<1>1. /\ stack[th] # <<>> /\ e \in Exec /\ UNCHANGED <<execTasks, tasks, requests>>
      /\ CloseTransport(e) /\ Continue(th, <<>>)
  BY DisconnectClientSeen DEF At, svars
<1>2. Quieter(t)
  BY <1>1, QuieterGoesOnOne
<1>3. Hushed(t)
  BY <1>1, CloseHushes
<1>4. QED
  BY <1>1, <1>2, <1>3, WorkStays DEF Held

LEMMA GetNextExecutorWork ==
  ASSUME TypeInv, NEW t \in Task, Work(t), NEW th \in Thread, GetNextExecutor(th) PROVE Work(t)'
<1>1. stack[th] # <<>> /\ UNCHANGED <<transport, work, execTasks, tasks, requests>>
  BY GetNextExecutorSeen DEF At, svars, netvars
<1>2. ASSUME NEW a \in Call, Continue(th, <<a>>), a.op \in {"freezeTask", "removeTask"} PROVE Work(t)'
  <2>1. a \notin Busy(t)
    BY <1>2 DEF Busy, BusyOps
  <2>2. QED
    BY <1>1, <1>2, <2>1, QuieterGoesOnOne, WorkCalls
<1>3. ASSUME NEW a \in Call, NEW b \in Call, Continue(th, <<a, b>>), a.op = "pushTask", b \in Fills
      PROVE  Work(t)'
  <2>1. a \notin Busy(t) /\ b \notin Busy(t)
    BY <1>3, FillsAreQuiet DEF Busy, BusyOps
  <2>2. QED
    BY <1>1, <1>3, <2>1, QuieterGoesOnTwo, WorkCalls
<1>4. QED
  BY <1>2, <1>3, GetNextExecutorSeen

LEMMA SendWork ==
  ASSUME TypeInv, NEW t \in Task, Work(t), NEW th \in Thread, Send(th) PROVE Work(t)'
<1>1. stack[th] # <<>> /\ Top(th).loop \in Type \cup {NoType} /\ UNCHANGED <<transport, work, execTasks, tasks, requests>>
  BY SendSeen DEF At, svars, netvars
<1>2. CASE Continue(th, Again(Top(th).loop))
  BY <1>1, <1>2, AgainFills, QuieterFills, WorkCalls
<1>3. CASE Continue(th, <<>>)
  BY <1>1, <1>3, QuieterGoesOnOne, WorkCalls
<1>4. ASSUME NEW y \in Type, Picked(th, Top(th), y) PROVE Work(t)'
  <2>1. PICK a \in Call : Continue(th, <<a>>) /\ a.op = "handOver"
    BY <1>4, Zenon DEF Picked
  <2>2. a \notin Busy(t)
    BY <2>1 DEF Busy, BusyOps
  <2>3. QED
    BY <1>1, <2>1, <2>2, QuieterGoesOnOne, WorkCalls
<1>5. QED
  BY <1>2, <1>3, <1>4, SendSeen

LEMMA TaskReturnedWork ==
  ASSUME TypeInv, NEW t \in Task, Work(t), NEW th \in Thread, TaskReturned(th) PROVE Work(t)'
<1> DEFINE e == Top(th).exec
<1>1. stack[th] # <<>> /\ e \in Exec /\ UNCHANGED <<execTasks, tasks, requests>>
  BY TaskReturnedSeen DEF At, svars
<1>2. CASE Abort(th, e)
  BY <1>1, <1>2, AbortWork
<1>3. ASSUME UNCHANGED netvars, NEW a \in Call, NEW b \in Call, Continue(th, <<a, b>>),
             a.op = "removeExecutor", b.op = "dispatchTask"
      PROVE  Work(t)'
  <2>1. a \notin Busy(t) /\ b \notin Busy(t)
    BY <1>3 DEF Busy, BusyOps
  <2>2. QED
    BY <1>1, <1>3, <2>1, QuieterGoesOnTwo, WorkCalls DEF netvars
<1>4. ASSUME UNCHANGED netvars, NEW a \in Call, Continue(th, <<a>>), a.op = "storeTask" PROVE Work(t)'
  <2>1. a \notin Busy(t)
    BY <1>4 DEF Busy, BusyOps
  <2>2. QED
    BY <1>1, <1>4, <2>1, QuieterGoesOnOne, WorkCalls DEF netvars
<1>5. ASSUME UNCHANGED netvars, NEW a \in Call, NEW r \in Seq(Call), Continue(th, <<a>> \o r),
             a.op = "send", r = <<>> \/ \E b \in Call : r = <<b>> /\ b.op = "removeTask"
      PROVE  Work(t)'
  <2> DEFINE g == <<a>>
             h == g \o r
             S == Busy(t)
  <2>1. a \notin S /\ \A b \in Call : b.op = "removeTask" => b \notin S
    BY <1>5 DEF Busy, BusyOps
  <2>2. g \in Seq(Call) /\ ~Has(g, S) /\ ~Has(r, S)
    BY <1>5, <2>1, HasNone, HasSingle
  <2>3. Continue(th, h)
    BY <1>5
  <2> HIDE DEF g, S
  <2>4. h \in Seq(Call) /\ ~Has(h, S)
    BY <1>5, <2>2, HasConcat, ConcatProperties
  <2> HIDE DEF h
  <2>5. QED
    BY <1>1, <1>5, <2>3, <2>4, QuieterGoesOn, WorkCalls DEF S, netvars
<1>6. QED
  BY <1>2, <1>3, <1>4, <1>5, TaskReturnedSeen

LEMMA StoreTaskWork ==
  ASSUME TypeInv, NEW t \in Task, Work(t), NEW th \in Thread, StoreTask(th) PROVE Work(t)'
<1>1. stack[th] # <<>> /\ UNCHANGED <<transport, work, execTasks, tasks, requests>>
  BY StoreTaskSeen DEF At, svars, netvars
<1>2. ASSUME NEW b \in Call, b.op = "send", Continue(th, <<b>>) PROVE Work(t)'
  <2>1. b \notin Busy(t)
    BY <1>2 DEF Busy, BusyOps
  <2>2. QED
    BY <1>1, <1>2, <2>1, QuieterGoesOnOne, WorkCalls
<1>3. ASSUME NEW a \in Call, NEW b \in Call, b.op = "send", Continue(th, <<a, b>>),
             a.op \in {"dispatchTask", "freezeTask"}
      PROVE  Work(t)'
  <2>1. a \notin Busy(t) /\ b \notin Busy(t)
    BY <1>3 DEF Busy, BusyOps
  <2>2. QED
    BY <1>1, <1>3, <2>1, QuieterGoesOnTwo, WorkCalls
<1>4. QED
  BY <1>2, <1>3, StoreTaskSeen

-----------------------------------------------------------------------------
LEMMA NoneIsSole == ASSUME NEW q, NEW S, ~Somewhere(q, S) PROVE Sole(q, S)
BY DEF Sole, Somewhere, AtMostOne, Has

\* the calls of a kind that a thread makes come from where they were
LEMMA GoesOn ==
  ASSUME TypeInv, NEW th \in Thread, stack[th] # <<>>, NEW g \in Seq(Call), Continue(th, g), NEW S
  PROVE  /\ Top(th) \in S => Somewhere(stack, S)
         /\ ~Has(g, S) => (Somewhere(stack', S) => Somewhere(stack, S))
         /\ Sole(stack, S) /\ Top(th) \in S /\ ~Has(g, S) => ~Somewhere(stack', S)
         /\ ~Somewhere(stack, S) /\ AtMostOne(g, S) => Sole(stack', S)
<1> DEFINE p == stack'
<1>1. p = Swap(stack, th, g)
  BY DEF Continue, Swap
<1>2. stack \in Stacks
  BY StackIsStacks
<1> HIDE DEF p
<1>3. /\ Head(stack[th]) \in S => Somewhere(stack, S)
      /\ Somewhere(p, S) => Somewhere(stack, S) \/ Has(g, S)
      /\ Sole(stack, S) /\ AtMostOne(g, S) /\ (Has(g, S) => Head(stack[th]) \in S \/ ~Somewhere(stack, S))
           => Sole(p, S)
      /\ Sole(stack, S) /\ Head(stack[th]) \in S /\ ~Has(g, S) => ~Somewhere(p, S)
  BY <1>1, <1>2, Replaced
<1>4. ~Somewhere(stack, S) => Sole(stack, S)
  BY NoneIsSole
<1>5. QED
  BY <1>3, <1>4 DEF Top, p

LEMMA AddsCarry == ASSUME NEW t PROVE Adds(t) \subseteq Carriers(t)
BY DEF Adds, Busy, Carriers, TokenOps

\* who carries the token was added, and is not to be added again
LEMMA CarrierAdded ==
  ASSUME TypeInv, NEW t \in Task, Token(t), NEW th \in Thread, stack[th] # <<>>,
         Top(th) \in Carriers(t), NEW g \in Seq(Call), Continue(th, g), ~Has(g, Adds(t))
  PROVE  requests[t] # 0 /\ ~Somewhere(stack', Adds(t))
<1>1. Carried(t)
  BY TopCarries
<1> DEFINE p == stack'
           S == Carriers(t)
           T == Adds(t)
<1>2. p = Swap(stack, th, g)
  BY DEF Continue, Swap
<1>3. stack \in Stacks /\ Sole(stack, S) /\ T \subseteq S /\ Head(stack[th]) \in S
  BY StackIsStacks, AddsCarry DEF Token, Top
<1>4. ~Has(g, T)
  OBVIOUS
<1> HIDE DEF p, S, T
<1>5. Somewhere(p, T) => Has(g, T)
  BY <1>2, <1>3, OnlyNew
<1>6. QED
  BY <1>1, <1>4, <1>5 DEF Token, p, T

LEMMA AddTaskWork ==
  ASSUME TypeInv, NEW t \in Task, Token(t), Work(t), NEW th \in Thread, AddTask(th) PROVE Work(t)'
<1> DEFINE d == Top(th).task
<1>1. /\ stack[th] # <<>> /\ Top(th) \in Call /\ Top(th).op = "addTask"
      /\ UNCHANGED <<transport, work, execTasks, requests>>
  BY AddTaskSeen, TopIsCall DEF At, svars, netvars
<1>2. ASSUME UNCHANGED tasks, NEW g \in Seq(Fills), Continue(th, g) PROVE Work(t)'
  BY <1>1, <1>2, QuieterFills, WorkCalls
<1>3. ASSUME tasks' = tasks \cup {d}, NEW a \in Call, Continue(th, <<a>>), a.op = "dispatchTask"
      PROVE  Work(t)'
  <2>1. a \notin Busy(t)
    BY <1>3 DEF Busy, BusyOps
  <2>2. Quieter(t) /\ Hushed(t)
    BY <1>1, <1>3, <2>1, QuieterGoesOnOne, StillHushed
  <2>3. CASE t # d
    BY <1>1, <1>3, <2>2, <2>3, WorkStays DEF Held
  <2>4. CASE t = d
    <3>1. Top(th) \in Adds(t) /\ Top(th) \in Carriers(t)
      BY <1>1, <2>4 DEF Adds, Busy, BusyOps, Carriers, TokenOps
    <3> DEFINE g == <<a>>
    <3>2. g \in Seq(Call) /\ Continue(th, g) /\ ~Has(g, Adds(t))
      BY <1>3, <2>1, HasSingle DEF Adds
    <3> HIDE DEF g
    <3>3. requests[t] # 0 /\ ~Somewhere(stack', Adds(t))
      BY <1>1, <3>1, <3>2, CarrierAdded
    <3>4. /\ ~Somewhere(stack, Undoes(t))
          /\ \A e \in Exec : ~Somewhere(stack, Answers(t, e)) /\ ~Working(t, e)
      BY <1>1, <3>1, <3>2, GoesOn DEF Work, Fresh
    <3>5. /\ ~Somewhere(stack', Undoes(t))
          /\ \A e \in Exec : ~Somewhere(stack', Answers(t, e)) /\ ~Working(t, e)'
      BY <2>2, <3>4, QuieterParts DEF Hushed
    <3>6. \A e \in Exec : Credited(t, e)'
      BY <3>5, NoneIsSole DEF Credited
    <3>7. Fresh(t)' /\ OneWorker(t)'
      BY <1>1, <3>3, <2>2 DEF Fresh, OneWorker, Work, Hushed
    <3>8. QED
      BY <3>5, <3>6, <3>7 DEF Work
  <2>5. QED
    BY <2>3, <2>4
<1>4. QED
  BY <1>2, <1>3, AddTaskSeen

LEMMA RemoveTaskWork ==
  ASSUME TypeInv, NEW t \in Task, Work(t), NEW th \in Thread, RemoveTask(th) PROVE Work(t)'
<1> DEFINE d == Top(th).task
<1>1. stack[th] # <<>> /\ UNCHANGED <<transport, work, execTasks, requests>>
  BY RemoveTaskSeen DEF At, svars, netvars
<1>2. CASE Continue(th, <<>>) /\ UNCHANGED tasks
  BY <1>1, <1>2, QuieterGoesOnOne, WorkCalls
<1>3. CASE d \in tasks /\ tasks' = tasks \ {d} /\ CleanUp(th, d)
  <2>1. PICK a, b, c \in Call, r \in Seq(Call) :
          /\ Continue(th, <<a, b, c>> \o r)
          /\ a.op = "removeQueued" /\ a.task = d
          /\ b.op = "removeRunning" /\ b.task = d
          /\ c.op = "removeFrozen" /\ c.task = d
          /\ \/ taskInExec[d] = NoExec /\ r = <<>>
             \/ \E x \in Call : r = <<x>> /\ x.op = "sendIfIdle" /\ x.exec = taskInExec[d]
    BY <1>3, Zenon DEF CleanUp
  <2> DEFINE g == <<a, b, c>>
             h == g \o r
  <2>2. ~Has(r, Busy(t)) /\ ~Has(r, Adds(t))
    <3>1. \A x \in Call : x.op = "sendIfIdle" => x \notin Busy(t)
      BY DEF Busy, BusyOps
    <3>2. QED
      BY <2>1, <3>1, HasNone, HasSingle DEF Adds
  <2>3. /\ g \in Seq(Call) /\ ~Has(g, Adds(t))
        /\ t # d => ~Has(g, Busy(t))
    <3>1. a \notin Adds(t) /\ b \notin Adds(t) /\ c \notin Adds(t)
      BY <2>1 DEF Adds
    <3>2. t # d => a \notin Busy(t) /\ b \notin Busy(t) /\ c \notin Busy(t)
      BY <2>1 DEF Busy
    <3>3. QED
      BY <2>1, <3>1, <3>2, HasTriple
  <2>4. Continue(th, h)
    BY <2>1
  <2> HIDE DEF g
  <2>5. h \in Seq(Call) /\ ~Has(h, Adds(t)) /\ (t # d => ~Has(h, Busy(t)))
    BY <2>1, <2>2, <2>3, HasConcat, ConcatProperties
  <2> HIDE DEF h
  <2>6. Hushed(t)
    BY <1>1, StillHushed
  <2>7. CASE t # d
    <3>1. Quieter(t)
      BY <1>1, <2>4, <2>5, <2>7, QuieterGoesOn
    <3>2. QED
      BY <1>1, <1>3, <2>6, <3>1, WorkStays DEF Held
  <2>8. CASE t = d
    <3>1. requests[t] # 0 /\ ~Somewhere(stack, Adds(t))
      BY <1>3, <2>8 DEF Work, Fresh
    <3>2. ~Somewhere(stack', Adds(t))
      BY <1>1, <2>4, <2>5, <3>1, GoesOn
    <3>3. QED
      BY <1>1, <1>3, <2>6, <2>8, <3>1, <3>2, WorkGone
  <2>9. QED
    BY <2>7, <2>8
<1>4. QED
  BY <1>2, <1>3, RemoveTaskSeen

LEMMA RemoveRunningWork ==
  ASSUME TypeInv, NEW t \in Task, Work(t), NEW th \in Thread, RemoveRunning(th) PROVE Work(t)'
<1> DEFINE d == Top(th).task
<1>1. /\ stack[th] # <<>> /\ Top(th) \in Call /\ Top(th).op = "removeRunning" /\ d \in Task
      /\ UNCHANGED <<transport, work, tasks, requests>>
      /\ StateRemoveTask(d)
      /\ Continue(th, Again(Top(th).loop)) /\ Again(Top(th).loop) \in Seq(Fills)
  BY RemoveRunningSeen, TopIsCall, AgainFills DEF At, netvars
<1>2. Quieter(t) /\ Hushed(t)
  BY <1>1, QuieterFills, StillHushed
<1>3. ASSUME t \in tasks', NEW e \in Exec, Held(t, e) PROVE Held(t, e)'
  <2>1. t # d
    <3>1. t = d => Top(th) \in Undoes(t)
      BY <1>1 DEF Undoes, Busy, BusyOps
    <3>2. Top(th) \in Undoes(t) => Somewhere(stack, Undoes(t))
      <4>1. Again(Top(th).loop) \in Seq(Call)
        BY <1>1, HasNoFill, FillsAreQuiet
      <4>2. QED
        BY <1>1, <4>1, GoesOn
    <3>3. QED
      BY <1>1, <1>3, <3>1, <3>2 DEF Work
  <2>2. CASE taskInExec[d] # NoExec
    <3>1. taskInExec[d] \in Exec /\ StateRemoveTaskFrom(taskInExec[d], d)
      BY <1>1, <2>2 DEF StateRemoveTask, TypeInv, STypeOK
    <3>2. QED
      BY <1>1, <1>3, <2>1, <3>1, LessHeld
  <2>3. CASE taskInExec[d] = NoExec
    BY <1>1, <1>3, <2>3 DEF StateRemoveTask, svars, Held
  <2>4. QED
    BY <2>2, <2>3
<1>4. QED
  BY <1>1, <1>2, <1>3, WorkStays

LEMMA GainsHeld ==
  ASSUME TypeInv, NEW e \in Exec, NEW d \in Task, StateAddTask(e, d), NEW t, NEW c \in Exec
  PROVE  /\ Held(t, c) => Held(t, c)'
         /\ e \in registered => Held(d, e)'
BY DEF StateAddTask, Held, TypeInv, STypeOK

LEMMA HandOverWork ==
  ASSUME TypeInv, Tidy, NEW t \in Task, Token(t), Work(t), NEW th \in Thread, HandOver(th)
  PROVE  Work(t)'
<1> DEFINE d == Top(th).task
           e == Top(th).exec
<1>1. /\ stack[th] # <<>> /\ Top(th) \in Call /\ Top(th).op = "handOver" /\ d \in Task /\ e \in Exec
      /\ UNCHANGED <<transport, work, tasks, requests>>
      /\ StateAddTask(e, d)
  BY HandOverSeen, TopIsCall DEF At, netvars
<1>2. PICK a \in Call : Continue(th, <<a>>) /\ a.op = "message" /\ a.exec = e /\ a.task = d
  BY HandOverSeen
<1>3. Hushed(t)
  BY <1>1, StillHushed
<1>4. \A c \in Exec : Held(t, c) => Held(t, c)'
  BY <1>1, GainsHeld
<1>5. CASE t # d
  <2>1. a \notin Busy(t)
    BY <1>2, <1>5 DEF Busy
  <2>2. Quieter(t)
    BY <1>1, <1>2, <2>1, QuieterGoesOnOne
  <2>3. QED
    BY <1>1, <1>3, <1>4, <2>2, WorkStays
<1>6. CASE t = d
  <2> DEFINE g == <<a>>
  <2>1. Top(th) \in Carriers(t)
    BY <1>1, <1>6 DEF Carriers, TokenOps
  <2>2. /\ g \in Seq(Call) /\ Continue(th, g)
        /\ ~Has(g, Adds(t)) /\ ~Has(g, Undoes(t))
        /\ \A c \in Exec : AtMostOne(g, Answers(t, c)) /\ (c # e => ~Has(g, Answers(t, c)))
    BY <1>2, HasSingle DEF Adds, Undoes, Answers
  <2> HIDE DEF g
  <2>3. requests[t] # 0 /\ ~Somewhere(stack', Adds(t))
    BY <1>1, <2>1, <2>2, CarrierAdded
  <2>4. CASE t \notin tasks
    BY <1>1, <1>3, <2>3, <2>4, WorkGone
  <2>5. CASE t \in tasks
    <3>1. OneWorker(t)' /\ Fresh(t)'
      BY <1>1, <1>3, <2>3 DEF Work, OneWorker, Hushed, Fresh
    <3>2. ~Somewhere(stack', Undoes(t))
      BY <1>1, <2>2, <2>5, GoesOn DEF Work
    <3>3. Carried(t)
      BY <1>1, <2>1, TopCarries
    <3>4. \A c \in Exec : ~Held(t, c)
      BY <3>3 DEF Token, Placed
    <3>5. ASSUME NEW c \in Exec, Open(c)' PROVE Credited(t, c)'
      <4>1. Open(c)
        BY <1>1, <3>5 DEF Open
      <4>2. ~Working(t, c) /\ ~Somewhere(stack, Answers(t, c))
        BY <2>5, <3>4, <4>1 DEF Work, Credited
      <4>3. ~Working(t, c)'
        BY <1>3, <4>2 DEF Hushed
      <4>4. Sole(stack', Answers(t, c))
        BY <1>1, <2>2, <4>2, GoesOn
      <4>5. CASE c # e
        <5>1. ~Somewhere(stack', Answers(t, c))
          BY <1>1, <2>2, <4>2, <4>5, GoesOn
        <5>2. QED
          BY <4>3, <4>4, <5>1 DEF Credited
      <4>6. CASE c = e
        <5>1. e \in registered
          BY <1>1, <4>1, <4>6, TopFits DEF Wired
        <5>2. Held(t, c)'
          BY <1>1, <1>6, <4>6, <5>1, GainsHeld
        <5>3. QED
          BY <4>3, <4>4, <5>2 DEF Credited
      <4>7. QED
        BY <4>5, <4>6
    <3>6. QED
      BY <3>1, <3>2, <3>5 DEF Work
  <2>6. QED
    BY <2>4, <2>5
<1>7. QED
  BY <1>5, <1>6

LEMMA MessageWork ==
  ASSUME TypeInv, Tidy, Once, NEW t \in Task, Token(t), Work(t), NEW th \in Thread, Message(th)
  PROVE  Work(t)'
<1> DEFINE d == Top(th).task
           e == Top(th).exec
<1>1. /\ stack[th] # <<>> /\ Top(th) \in Call /\ Top(th).op = "message" /\ d \in Task /\ e \in Exec
      /\ UNCHANGED <<transport, execTasks, tasks, requests>>
      /\ Again(Top(th).loop) \in Seq(Fills)
  BY MessageSeen, TopIsCall, AgainFills DEF At, svars
<1>2. t = d => Top(th) \in Answers(t, e)
  BY <1>1 DEF Answers, Busy, BusyOps
<1>3. ASSUME d \notin tasks, UNCHANGED work,
             NEW a \in Call, Continue(th, <<a>>), a.op = "removeRunning", a.task = d
      PROVE  Work(t)'
  <2>1. CASE t # d
    <3>1. a \notin Busy(t)
      BY <1>3, <2>1 DEF Busy
    <3>2. QED
      BY <1>1, <1>3, <3>1, QuieterGoesOnOne, WorkCalls
  <2>2. CASE t = d
    <3> DEFINE g == <<a>>
    <3>1. g \in Seq(Call) /\ Continue(th, g) /\ ~Has(g, Adds(t))
      BY <1>3, HasSingle DEF Adds
    <3> HIDE DEF g
    <3>2. Somewhere(stack, Answers(t, e))
      BY <1>1, <1>2, <2>2, <3>1, GoesOn
    <3>3. requests[t] # 0 /\ ~Somewhere(stack, Adds(t))
      BY <1>1, <3>2 DEF Work, Fresh
    <3>4. ~Somewhere(stack', Adds(t))
      BY <1>1, <3>1, <3>3, GoesOn
    <3>5. QED
      BY <1>1, <1>3, <2>2, <3>3, <3>4, StillHushed, WorkGone
  <2>3. QED
    BY <2>1, <2>2
<1>4. ASSUME d \in tasks, Open(e), NEW w \in WorkType, w.task = d,
             work' = [work EXCEPT ![e] = Append(@, w)], Continue(th, Again(Top(th).loop))
      PROVE  Work(t)'
  <2>1. Quieter(t)
    BY <1>1, <1>4, QuieterFills
  <2>2. work \in [Exec -> Seq(WorkType)]
    BY DEF TypeInv, NetTypeOK
  <2>3. w \in WorkOf(t) <=> t = d
    BY <1>4 DEF WorkOf
  <2>4. ASSUME NEW c \in Exec
        PROVE  /\ Working(t, c)' <=> Working(t, c) \/ (c = e /\ t = d)
               /\ AtMostOne(work[c], WorkOf(t)) /\ ~(Working(t, c) /\ c = e /\ t = d)
                    => AtMostOne(work'[c], WorkOf(t))
    <3>1. CASE c = e
      <4> DEFINE s == work[e]
                 S == WorkOf(t)
      <4>1. s \in Seq(WorkType) /\ work'[e] = Append(s, w)
        BY <1>1, <1>4, <2>2
      <4> HIDE DEF s, S
      <4>2. /\ Has(Append(s, w), S) <=> Has(s, S) \/ w \in S
            /\ AtMostOne(s, S) /\ ~(Has(s, S) /\ w \in S) => AtMostOne(Append(s, w), S)
        BY <1>4, <4>1, HasAppend
      <4>3. QED
        BY <2>3, <3>1, <4>1, <4>2 DEF Working, s, S
    <3>2. CASE c # e
      <4>1. work'[c] = work[c]
        BY <1>4, <2>2, <3>2
      <4>2. QED
        BY <3>2, <4>1 DEF Working
    <3>3. QED
      BY <3>1, <3>2
  <2>5. CASE t # d
    <3>1. Hushed(t)
      BY <1>1, <2>4, <2>5 DEF Hushed, Open
    <3>2. QED
      BY <1>1, <2>1, <3>1, WorkStays DEF Held
  <2>6. CASE t = d
    <3> DEFINE g == Again(Top(th).loop)
               S == Answers(t, e)
    <3>1. g \in Seq(Call) /\ Continue(th, g) /\ ~Has(g, S)
      BY <1>1, <1>4, HasNoFill, FillsAreQuiet DEF Answers
    <3> HIDE DEF g
    <3>2. Somewhere(stack, S)
      BY <1>1, <1>2, <2>6, <3>1, GoesOn
    <3>3. Credited(t, e)
      BY <1>1, <1>4, <2>6 DEF Work
    <3>4. ~Somewhere(stack', S)
      BY <1>1, <1>2, <2>6, <3>1, <3>3, GoesOn DEF Credited
    <3>5. ~Working(t, e) /\ Held(t, e)
      BY <3>2, <3>3 DEF Credited
    <3>6. ASSUME NEW c \in Exec, Working(t, c) PROVE FALSE
      <4>1. Open(c)
        <5>1. ~Open(c) => work[c] = <<>>
          BY DEF Tidy, Net
        <5>2. QED
          BY <3>6, <5>1, HasNone DEF Working
      <4>2. Held(t, c)
        BY <1>4, <2>6, <3>6, <4>1 DEF Work, Credited
      <4>3. c = e
        BY <1>1, <3>5, <4>2 DEF Token, InOnePlace
      <4>4. QED
        BY <3>5, <3>6, <4>3
    <3>7. OneWorker(t)'
      BY <2>4, <3>6 DEF Work, OneWorker
    <3>8. Fresh(t)'
      BY <1>1, <1>4, <2>1, <2>6, QuieterParts DEF Work, Fresh
    <3>9. ~Somewhere(stack', Undoes(t))
      BY <1>4, <2>1, <2>6, QuieterParts DEF Work
    <3>10. ASSUME NEW c \in Exec, Open(c)' PROVE Credited(t, c)'
      <4>1. Open(c)
        BY <1>1, <3>10 DEF Open
      <4>2. Credited(t, c)
        BY <1>4, <2>6, <4>1 DEF Work
      <4>3. Held(t, c)' <=> Held(t, c)
        BY <1>1 DEF Held
      <4>4. /\ Somewhere(stack', Answers(t, c)) => Somewhere(stack, Answers(t, c))
            /\ Sole(stack, Answers(t, c)) => Sole(stack', Answers(t, c))
        BY <2>1, QuieterParts
      <4>5. CASE c = e
        BY <3>4, <3>5, <4>2, <4>3, <4>4, <4>5 DEF Credited, S
      <4>6. CASE c # e
        BY <2>4, <4>2, <4>3, <4>4, <4>6 DEF Credited
      <4>7. QED
        BY <4>5, <4>6
    <3>11. QED
      BY <3>7, <3>8, <3>9, <3>10 DEF Work
  <2>7. QED
    BY <2>5, <2>6
<1>5. CASE UNCHANGED work /\ Continue(th, Again(Top(th).loop))
  BY <1>1, <1>5, QuieterFills, WorkCalls
<1>6. QED
  BY <1>3, <1>4, <1>5, MessageSeen DEF Once, Open

LEMMA TaskReceivedWork ==
  ASSUME TypeInv, NEW t \in Task, Work(t), NEW th \in Thread, TaskReceived(th) PROVE Work(t)'
<1> DEFINE d == Top(th).task
           e == Top(th).exec
<1>1. /\ stack[th] # <<>> /\ Top(th) \in Call /\ Top(th).op = "taskReceived" /\ d \in Task /\ e \in Exec
      /\ UNCHANGED <<transport, work, tasks, requests>>
  BY TaskReceivedSeen, TopIsCall DEF At, netvars
<1>2. CASE UNCHANGED svars /\ Continue(th, <<>>)
  BY <1>1, <1>2, QuieterGoesOnOne, WorkCalls DEF svars
<1>3. ASSUME d \in tasks, StateRemoveTaskFrom(e, d), NEW a \in Call, Continue(th, <<a>>),
             a.op \in {"taskReturned", "send"}
      PROVE  Work(t)'
  <2>1. a \notin Busy(t)
    BY <1>3 DEF Busy, BusyOps
  <2>2. Quieter(t) /\ Hushed(t)
    BY <1>1, <1>3, <2>1, QuieterGoesOnOne, StillHushed
  <2>3. \A c \in Exec : Held(t, c)' <=> Held(t, c) /\ ~(HoldsTask(e, d) /\ t = d /\ c = e)
    BY <1>1, <1>3, LessHeld
  <2>4. ASSUME NEW c \in Exec, c = e, t = d, Open(c)'
        PROVE  ~Working(t, c)' /\ ~Somewhere(stack', Answers(t, c))
    <3> DEFINE g == <<a>>
               S == Answers(t, c)
    <3>1. g \in Seq(Call) /\ Continue(th, g) /\ ~Has(g, S)
      BY <1>3, <2>1, HasSingle DEF Answers
    <3>2. Top(th) \in S
      BY <1>1, <2>4 DEF Answers, Busy, BusyOps
    <3> HIDE DEF g
    <3>3. t \in tasks /\ Open(c)
      BY <1>1, <1>3, <2>4 DEF Open
    <3>4. Credited(t, c)
      BY <3>3 DEF Work
    <3>5. Somewhere(stack, S) /\ ~Somewhere(stack', S)
      BY <1>1, <3>1, <3>2, <3>4, GoesOn DEF Credited
    <3>6. QED
      BY <2>2, <3>4, <3>5 DEF Credited, Hushed
  <2>5. ASSUME NEW c \in Exec, Held(t, c), Open(c)'
        PROVE  Held(t, c)' \/ (~Working(t, c)' /\ ~Somewhere(stack', Answers(t, c)))
    <3> HIDE DEF d, e
    <3>1. QED
      BY <2>3, <2>4, <2>5
  <2>6. QED
    BY <1>1, <2>2, <2>5, WorkStays
<1>4. QED
  BY <1>1, <1>2, <1>3, TaskReceivedSeen

LEMMA DropStateWork ==
  ASSUME TypeInv, Tidy, NEW t \in Task, Work(t), NEW th \in Thread, DropState(th) PROVE Work(t)'
<1> DEFINE e == Top(th).exec
<1>1. /\ stack[th] # <<>> /\ Top(th).op = "dropState" /\ e \in Exec /\ UNCHANGED <<tasks, requests>>
  BY DropStateSeen DEF At
<1>2. CASE StateRemoveExecutorFails(e) /\ Abort(th, e)
  BY <1>1, <1>2, AbortWork DEF StateRemoveExecutorFails
<1>3. ASSUME StateRemoveExecutor(e), UNCHANGED netvars,
             NEW a \in Call, NEW b \in Call, NEW r \in Seq(Fills), Continue(th, <<a, b>> \o r),
             a.op = "requeue", b.op = "closeTransport"
      PROVE  Work(t)'
  <2> DEFINE g == <<a, b>>
             h == g \o r
             S == Busy(t)
  <2>1. a \notin S /\ b \notin S
    BY <1>3 DEF Busy, BusyOps
  <2>2. g \in Seq(Call) /\ ~Has(g, S)
    BY <2>1, HasPair
  <2>3. r \in Seq(Call) /\ ~Has(r, S)
    BY HasNoFill, FillsAreQuiet
  <2>4. Continue(th, h)
    BY <1>3
  <2> HIDE DEF g, S
  <2>5. h \in Seq(Call) /\ ~Has(h, S)
    BY <2>2, <2>3, HasConcat, ConcatProperties
  <2> HIDE DEF h
  <2>6. Quieter(t) /\ Hushed(t)
    BY <1>1, <1>3, <2>4, <2>5, QuieterGoesOn, StillHushed DEF S, netvars
  <2>7. ~Open(e)
    BY <1>1, TopFits DEF Wired, Open
  <2>8. ASSUME NEW c \in Exec, Held(t, c), Open(c)' PROVE Held(t, c)'
    <3>1. c # e
      BY <2>6, <2>7, <2>8 DEF Hushed
    <3>2. execTasks' = [execTasks EXCEPT ![e] = {}] /\ execTasks \in [Exec -> SUBSET Task]
      BY <1>3 DEF StateRemoveExecutor, TypeInv, STypeOK
    <3>3. QED
      BY <2>8, <3>1, <3>2 DEF Held
  <2>9. QED
    BY <1>1, <2>6, <2>8, WorkStays
<1>4. QED
  BY <1>2, <1>3, DropStateSeen

LEMMA ThreadStepWork ==
  ASSUME TypeInv, Tidy, Once, NEW t \in Task, Token(t), Work(t), NEW th \in Thread, ThreadStep(th)
  PROVE  Work(t)'
BY AddExecutorWork, AnnounceTypesWork, RemoveExecutorWork, DropStateWork, RequeueWork,
   DisconnectClientWork, FreezeTaskWork, UnfreezeTasksWork, AddTaskWork, DispatchTaskWork,
   GetNextExecutorWork, PushTaskStepWork, RemoveTaskWork, RemoveQueuedWork,
   RemoveRunningWork, RemoveFrozenWork, FillLoopWork, FillAllWork, SendWork,
   SendIfIdleWork, HandOverWork, MessageWork, TaskReceivedWork, TaskReturnedWork,
   StoreTaskWork DEF ThreadStep

LEMMA ConnectWork ==
  ASSUME TypeInv, Tidy, NEW t \in Task, Work(t), NEW th \in Worker, NEW e \in Exec, Connect(th, e)
  PROVE  Work(t)'
<1>1. /\ UNCHANGED <<execTasks, tasks, work, requests>> /\ th \in Thread
      /\ transport[e] = "none" /\ transport' = [transport EXCEPT ![e] = "open"]
  BY ConnectSeen DEF svars, Thread
<1>2. PICK a \in Call : Starts(th, <<a>>) /\ a.op = "addExecutor"
  BY ConnectSeen
<1>3. Quieter(t)
  <2>1. a \notin Busy(t)
    BY <1>2 DEF Busy, BusyOps
  <2>2. <<a>> \in Seq(Call) /\ ~Has(<<a>>, Busy(t))
    BY <2>1, HasSingle
  <2>3. QED
    BY <1>1, <1>2, <2>2, QuieterStarts
<1>4. \A c \in Exec : c # e => (Open(c)' <=> Open(c))
  BY <1>1 DEF Open, TypeInv, NetTypeOK
<1>5. ~Working(t, e)
  BY <1>1, HasNone DEF Tidy, Net, Open, Working
<1>6. ~Somewhere(stack, Answers(t, e))
  <2>1. Answers(t, e) \subseteq Astray
    BY <1>1 DEF Answers, Busy, Astray, Wired
  <2>2. QED
    BY <2>1 DEF Tidy, Somewhere, Has
<1>7. \A c \in Exec : /\ Working(t, c)' <=> Working(t, c)
                      /\ Held(t, c)' <=> Held(t, c)
                      /\ work'[c] = work[c]
  BY <1>1 DEF Working, Held
<1>8. /\ Somewhere(stack', Adds(t)) => Somewhere(stack, Adds(t))
      /\ Somewhere(stack', Undoes(t)) => Somewhere(stack, Undoes(t))
      /\ \A c \in Exec : /\ Somewhere(stack', Answers(t, c)) => Somewhere(stack, Answers(t, c))
                         /\ Sole(stack, Answers(t, c)) => Sole(stack', Answers(t, c))
  BY <1>3, QuieterParts
<1>9. OneWorker(t)'
  BY <1>7 DEF Work, OneWorker
<1>10. Fresh(t)'
  BY <1>1, <1>7, <1>8 DEF Work, Fresh
<1>11. t \in tasks' => ~Somewhere(stack', Undoes(t))
  BY <1>1, <1>8 DEF Work
<1>12. ASSUME t \in tasks', NEW c \in Exec, Open(c)' PROVE Credited(t, c)'
  <2>1. CASE c = e
    <3>1. ~Working(t, c)' /\ ~Somewhere(stack', Answers(t, c))
      BY <1>5, <1>6, <1>7, <1>8, <2>1
    <3>2. QED
      BY <3>1, NoneIsSole DEF Credited
  <2>2. CASE c # e
    <3>1. Credited(t, c)
      BY <1>1, <1>4, <1>12, <2>2 DEF Work
    <3>2. QED
      BY <1>7, <1>8, <3>1 DEF Credited
  <2>3. QED
    BY <2>1, <2>2
<1>13. QED
  BY <1>9, <1>10, <1>11, <1>12 DEF Work

LEMMA HandleDropWork ==
  ASSUME TypeInv, NEW t \in Task, Work(t), NEW th \in Worker, NEW e \in Exec, HandleDrop(th, e)
  PROVE  Work(t)'
<1>1. UNCHANGED <<execTasks, tasks, transport, work, requests>> /\ th \in Thread
  BY HandleDropSeen DEF svars, Thread
<1>2. PICK a \in Call : Starts(th, <<a>>) /\ a.op = "removeExecutor"
  BY HandleDropSeen
<1>3. a \notin Busy(t)
  BY <1>2 DEF Busy, BusyOps
<1>4. <<a>> \in Seq(Call) /\ ~Has(<<a>>, Busy(t))
  BY <1>3, HasSingle
<1>5. QED
  BY <1>1, <1>2, <1>4, QuieterStarts, WorkCalls

\* the calls of a request for d
Asks(g, d) == \A i \in DOMAIN g : g[i].op \in {"addTask", "removeTask"} /\ g[i].task = d

LEMMA RequestAsks ==
  ASSUME NEW th \in Worker, NEW d \in Task, NEW kind \in Requests, Request(th, d, kind)
  PROVE  \E g \in Seq(Call) : Starts(th, g) /\ Asks(g, d)
<1> DEFINE a == CallTask("addTask", d)
           b == CallTask("removeTask", d)
<1>1. /\ a \in Call /\ a.op = "addTask" /\ a.task = d
      /\ b \in Call /\ b.op = "removeTask" /\ b.task = d
  BY CallTaskIsCall, CallTaskFields
<1>2. Starts(th, <<a>>) \/ Starts(th, <<b, a>>)
  BY DEF Request, Start, Starts
<1> HIDE DEF a, b
<1>3. /\ <<a>> \in Seq(Call) /\ Asks(<<a>>, d)
      /\ <<b, a>> \in Seq(Call) /\ Asks(<<b, a>>, d)
  BY <1>1 DEF Asks
<1>4. QED
  BY <1>2, <1>3, Zenon

LEMMA RequestWork ==
  ASSUME TypeInv, Once, NEW t \in Task, Work(t),
         NEW th \in Worker, NEW d \in Task, NEW kind \in Requests, Request(th, d, kind)
  PROVE  Work(t)'
<1>1. /\ UNCHANGED <<execTasks, tasks, transport, work>> /\ th \in Thread
      /\ requests[d] < MaxRequests /\ requests' = [requests EXCEPT ![d] = @ + 1]
  BY RequestSeen DEF svars, netvars, Thread
<1>2. requests \in [Task -> Nat] /\ MaxRequests \in Nat
  BY DispatcherAssumption DEF TypeInv
<1>3. /\ t = d => requests[t] = 0
      /\ t # d => requests'[t] = requests[t]
  BY <1>1, <1>2 DEF Once
<1>4. PICK g \in Seq(Call) : Starts(th, g) /\ Asks(g, d)
  BY RequestAsks
<1>5. CASE t # d
  <2>1. ~Has(g, Busy(t))
    BY <1>4, <1>5 DEF Has, Busy, Asks
  <2>2. Quieter(t)
    BY <1>1, <1>4, <2>1, QuieterStarts
  <2>3. QED
    BY <1>1, <1>3, <1>5, <2>2, WorkStays, StillHushed DEF Held
<1>6. CASE t = d
  <2>1. /\ t \notin tasks
        /\ ~Somewhere(stack, Undoes(t))
        /\ \A e \in Exec : ~Somewhere(stack, Answers(t, e)) /\ ~Working(t, e)
    BY <1>3, <1>6 DEF Work, Fresh
  <2>2. ASSUME NEW S, \A f \in S : f.op \notin {"addTask", "removeTask"}, ~Somewhere(stack, S)
        PROVE  ~Somewhere(stack', S)
    <3> DEFINE p == stack'
    <3>1. p = [stack EXCEPT ![th] = g] /\ stack[th] = <<>>
      BY <1>4 DEF Starts, Idle
    <3>2. stack \in Stacks /\ ~Has(g, S)
      BY <1>4, <2>2, StackIsStacks DEF Has, Asks
    <3> HIDE DEF p
    <3>3. Somewhere(p, S) <=> Somewhere(stack, S) \/ Has(g, S)
      BY <1>1, <3>1, <3>2, Begun
    <3>4. QED
      BY <2>2, <3>2, <3>3 DEF p
  <2>3. /\ \A f \in Undoes(t) : f.op \notin {"addTask", "removeTask"}
        /\ \A e \in Exec : \A f \in Answers(t, e) : f.op \notin {"addTask", "removeTask"}
    BY DEF Undoes, Answers
  <2>4. ~Somewhere(stack', Undoes(t)) /\ \A e \in Exec : ~Somewhere(stack', Answers(t, e))
    BY <2>1, <2>2, <2>3
  <2>5. Fresh(t)' /\ OneWorker(t)' /\ t \notin tasks'
    BY <1>1, <2>1, <2>4 DEF Fresh, Working, Work, OneWorker
  <2>6. QED
    BY <2>5 DEF Work
<1>7. QED
  BY <1>5, <1>6

LEMMA PeriodicWork ==
  ASSUME TypeInv, NEW t \in Task, Work(t), Periodic PROVE Work(t)'
<1>1. UNCHANGED <<execTasks, tasks, transport, work, requests>> /\ Scheduler \in Thread
  BY PeriodicSeen DEF svars, netvars, Thread
<1>2. PICK g \in Seq(Fills) : Starts(Scheduler, g)
  BY PeriodicSeen
<1>3. g \in Seq(Call) /\ ~Has(g, Busy(t))
  BY HasNoFill, FillsAreQuiet
<1>4. QED
  BY <1>1, <1>2, <1>3, QuieterStarts, WorkCalls

\* a step that makes no call
LEMMA QuieterStays == ASSUME NEW t, UNCHANGED stack PROVE Quieter(t)
BY DEF Quieter

\* what a handler begins with comes on top of what was there
LEMMA BeginsWith ==
  ASSUME TypeInv, NEW th \in Thread, NEW a \in Call, Starts(th, <<a>>), NEW S
  PROVE  /\ Somewhere(stack', S) <=> Somewhere(stack, S) \/ a \in S
         /\ Sole(stack, S) /\ ~(a \in S /\ Somewhere(stack, S)) => Sole(stack', S)
<1> DEFINE p == stack'
           g == <<a>>
<1>1. p = [stack EXCEPT ![th] = g] /\ stack[th] = <<>> /\ g \in Seq(Call)
  BY DEF Starts, Idle
<1>2. stack \in Stacks /\ (Has(g, S) <=> a \in S) /\ AtMostOne(g, S)
  BY StackIsStacks, HasSingle
<1> HIDE DEF p, g
<1>3. /\ Somewhere(p, S) <=> Somewhere(stack, S) \/ Has(g, S)
      /\ Sole(stack, S) /\ AtMostOne(g, S) /\ ~(Has(g, S) /\ Somewhere(stack, S)) => Sole(p, S)
  BY <1>1, <1>2, Begun
<1>4. QED
  BY <1>2, <1>3 DEF p

\* an executor that answers for d no longer works on it
LEMMA AnswerEnds ==
  ASSUME TypeInv, NEW t \in Task, NEW e \in Exec, NEW i \in 1 .. Len(work[e]),
         work' = [work EXCEPT ![e] = RemoveAt(@, i)], UNCHANGED transport
  PROVE  /\ Hushed(t)
         /\ work[e][i].task = t => Working(t, e)
         /\ work[e][i].task = t /\ AtMostOne(work[e], WorkOf(t)) => ~Working(t, e)'
<1> DEFINE s == work[e]
           S == WorkOf(t)
<1>1. work \in [Exec -> Seq(WorkType)] /\ s \in Seq(WorkType)
  BY DEF TypeInv, NetTypeOK
<1>2. s[i] \in WorkType /\ i \in DOMAIN s
  BY <1>1
<1>3. work'[e] = RemoveAt(s, i) /\ \A c \in Exec : c # e => work'[c] = work[c]
  BY <1>1
<1>4. s[i].task = t <=> s[i] \in S
  BY <1>2 DEF WorkOf
<1>5. i \in 1 .. Len(s)
  OBVIOUS
<1> HIDE DEF s, S
<1>6. /\ Has(RemoveAt(s, i), S) => Has(s, S)
      /\ AtMostOne(s, S) => /\ AtMostOne(RemoveAt(s, i), S)
                            /\ s[i] \in S => ~Has(RemoveAt(s, i), S)
  BY <1>1, <1>5, HasRemoveAt
<1>7. s[i] \in S => Has(s, S)
  BY <1>2 DEF Has
<1>8. /\ Working(t, e) <=> Has(s, S)
      /\ Working(t, e)' <=> Has(RemoveAt(s, i), S)
  BY <1>3 DEF Working, s, S
<1>9. ASSUME NEW c \in Exec
      PROVE  /\ Open(c)' => Open(c)
             /\ Working(t, c)' => Working(t, c)
             /\ AtMostOne(work[c], WorkOf(t)) => AtMostOne(work'[c], WorkOf(t))
  <2>1. Open(c)' => Open(c)
    BY DEF Open
  <2>2. CASE c = e
    BY <1>3, <1>6, <1>8, <2>1, <2>2 DEF s, S
  <2>3. CASE c # e
    BY <1>3, <2>1, <2>3 DEF Working
  <2>4. QED
    BY <2>2, <2>3
<1>10. Hushed(t)
  BY <1>9 DEF Hushed
<1>11. QED
  BY <1>4, <1>6, <1>7, <1>8, <1>10 DEF s, S

LEMMA HandleReplyWork ==
  ASSUME TypeInv, Trusty, NEW t \in Task, Work(t),
         NEW th \in Worker, NEW e \in Exec, NEW kind \in Replies, HandleReply(th, e, kind)
  PROVE  Work(t)'
<1>1. /\ UNCHANGED <<execTasks, tasks, transport, requests>> /\ th \in Thread /\ Open(e)
  BY HandleReplySeen DEF svars, Thread, Open
<1>2. PICK i \in 1 .. Len(work[e]) :
        /\ work' = [work EXCEPT ![e] = RemoveAt(@, i)]
        /\ Answered(th, e, work[e][i].task)
  BY HandleReplySeen
<1> DEFINE d == work[e][i].task
<1>3. /\ Hushed(t)
      /\ d = t => Working(t, e)
      /\ d = t /\ AtMostOne(work[e], WorkOf(t)) => ~Working(t, e)'
  BY <1>1, <1>2, AnswerEnds
<1>4. PICK a \in Call :
        /\ Starts(th, <<a>>) /\ a.task = d
        /\ \/ a.op = "taskReceived" /\ a.exec = e
           \/ a.op = "removeTask"
  BY <1>2 DEF Answered, Trusty
<1> HIDE DEF d
<1>5. CASE a.op = "removeTask" \/ d # t
  <2>1. a \notin Busy(t)
    BY <1>4, <1>5 DEF Busy, BusyOps
  <2>2. <<a>> \in Seq(Call) /\ ~Has(<<a>>, Busy(t))
    BY <2>1, HasSingle
  <2>3. Quieter(t)
    BY <1>1, <1>4, <2>2, QuieterStarts
  <2>4. QED
    BY <1>1, <1>3, <2>3, WorkStays DEF Held
<1>6. CASE a.op = "taskReceived" /\ d = t
  <2>1. a \notin Adds(t) /\ a \notin Undoes(t) /\ \A c \in Exec : a \in Answers(t, c) => c = e
    BY <1>4, <1>6 DEF Adds, Undoes, Answers
  <2>2. \A S : /\ Somewhere(stack', S) <=> Somewhere(stack, S) \/ a \in S
               /\ Sole(stack, S) /\ ~(a \in S /\ Somewhere(stack, S)) => Sole(stack', S)
    BY <1>1, <1>4, BeginsWith
  <2>3. requests[t] # 0 /\ ~Somewhere(stack, Adds(t))
    BY <1>3, <1>6 DEF Work, Fresh
  <2>4. ~Somewhere(stack', Adds(t))
    BY <2>1, <2>2, <2>3
  <2>5. ~Working(t, e)'
    BY <1>3, <1>6 DEF Work, OneWorker
  <2>6. CASE t \notin tasks
    BY <1>1, <1>3, <2>3, <2>4, <2>6, WorkGone
  <2>7. CASE t \in tasks
    <3>1. Credited(t, e)
      BY <1>1, <2>7 DEF Work
    <3>2. Held(t, e)' /\ ~Somewhere(stack, Answers(t, e))
      BY <1>1, <1>3, <1>6, <3>1 DEF Credited, Held
    <3>3. ASSUME NEW c \in Exec, Open(c)' PROVE Credited(t, c)'
      <4>1. CASE c = e
        <5>1. Sole(stack', Answers(t, c))
          BY <2>2, <3>1, <3>2, <4>1 DEF Credited
        <5>2. QED
          BY <2>5, <3>2, <4>1, <5>1 DEF Credited
      <4>2. CASE c # e
        <5>1. Credited(t, c) /\ (Held(t, c)' <=> Held(t, c)) /\ (Working(t, c)' => Working(t, c))
          BY <1>1, <1>3, <2>7, <3>3 DEF Work, Open, Held, Hushed
        <5>2. /\ Somewhere(stack', Answers(t, c)) => Somewhere(stack, Answers(t, c))
              /\ Sole(stack, Answers(t, c)) => Sole(stack', Answers(t, c))
          BY <2>1, <2>2, <4>2
        <5>3. QED
          BY <5>1, <5>2 DEF Credited
      <4>3. QED
        BY <4>1, <4>2
    <3>4. OneWorker(t)'
      BY <1>3 DEF Work, OneWorker, Hushed
    <3>5. Fresh(t)'
      BY <1>1, <2>3, <2>4 DEF Fresh
    <3>6. ~Somewhere(stack', Undoes(t))
      BY <2>1, <2>2, <2>7 DEF Work
    <3>7. QED
      BY <3>3, <3>4, <3>5, <3>6 DEF Work
  <2>8. QED
    BY <2>6, <2>7
<1>7. QED
  BY <1>4, <1>5, <1>6

LEMMA NextWork ==
  ASSUME TypeInv, Tidy, Trusty, NEW t \in Task, Token(t), Work(t), [Next]_vars PROVE Work(t)'
<1>1. ASSUME NEW e \in Exec, Disconnect(e) PROVE Work(t)'
  <2>1. Quieter(t) /\ Hushed(t)
    BY <1>1, DisconnectSeen, CloseHushes, QuieterStays
  <2>2. QED
    BY <1>1, <2>1, DisconnectSeen, WorkStays DEF svars, Held
<1>2. ASSUME NEW d \in Task, Ripen(d) PROVE Work(t)'
  BY <1>2, RipenSeen, QuieterStays, WorkCalls DEF svars, netvars
<1>3. CASE UNCHANGED vars
  BY <1>3, QuieterStays, WorkCalls DEF vars, svars, mindvars, netvars
<1>4. CASE Next
  BY <1>1, <1>2, <1>4, ConnectWork, HandleDropWork, HandleReplyWork, RequestWork,
     PeriodicWork, ThreadStepWork DEF Next, Trusty
<1>5. QED
  BY <1>3, <1>4

LEMMA InitWork == Init => WorkInv
<1> SUFFICES ASSUME Init, NEW t \in Task PROVE Work(t)
  BY DEF WorkInv
<1>1. /\ tasks = {} /\ \A e \in Exec : work[e] = <<>>
      /\ \A th \in Thread : stack[th] = <<>>
  BY DEF Init
<1>2. \A S : ~Somewhere(stack, S)
  BY <1>1 DEF Somewhere, Has
<1>3. \A e \in Exec : ~Working(t, e) /\ AtMostOne(work[e], WorkOf(t))
  BY <1>1, HasNone DEF Working
<1>4. QED
  BY <1>1, <1>2, <1>3 DEF Work, OneWorker, Fresh

LEMMA SpecWork == ASSUME Trusty PROVE Spec => []WorkInv
<1>1. TypeInv /\ TokenInv /\ Tidy /\ WorkInv /\ [Next]_vars => WorkInv'
  BY NextWork DEF TokenInv, WorkInv
<1>2. Spec => []TokenInv
  BY SpecToken DEF Trusty
<1>3. Spec => [](Tidy /\ MatchInv)
  BY SpecTidy
<1>4. QED
  BY <1>1, <1>2, <1>3, InitWork, SpecTypeInv, PTL DEF Spec

LEMMA OneWorkerMeans ==
  ASSUME TypeInv, NEW t \in Task, OneWorker(t) PROVE Cardinality(Jobs(t)) <= 1
<1>1. ASSUME NEW x \in Jobs(t), NEW y \in Jobs(t) PROVE x = y
  <2>1. /\ x = <<x[1], x[2]>> /\ x[1] \in Exec /\ x[2] \in DOMAIN work[x[1]] /\ work[x[1]][x[2]].task = t
        /\ y = <<y[1], y[2]>> /\ y[1] \in Exec /\ y[2] \in DOMAIN work[y[1]] /\ work[y[1]][y[2]].task = t
    BY DEF Jobs
  <2>2. work \in [Exec -> Seq(WorkType)]
    BY DEF TypeInv, NetTypeOK
  <2>3. ASSUME NEW e \in Exec, NEW i \in DOMAIN work[e], work[e][i].task = t
        PROVE  work[e][i] \in WorkOf(t)
    <3>1. work[e][i] \in WorkType
      BY <2>2
    <3>2. QED
      BY <2>3, <3>1 DEF WorkOf
  <2>4. work[x[1]][x[2]] \in WorkOf(t) /\ work[y[1]][y[2]] \in WorkOf(t)
    BY <2>1, <2>3
  <2>5. x[1] = y[1]
    BY <2>1, <2>4 DEF OneWorker, Working, Has
  <2>6. x[2] = y[2]
    BY <2>1, <2>4, <2>5 DEF OneWorker, AtMostOne
  <2>7. QED
    BY <2>1, <2>5, <2>6
<1>2. CASE Jobs(t) = {}
  BY <1>2, FS_EmptySet
<1>3. ASSUME NEW x \in Jobs(t) PROVE Cardinality(Jobs(t)) <= 1
  <2>1. Jobs(t) = {x}
    BY <1>1, <1>3
  <2>2. Cardinality({x}) = 1
    BY FS_Singleton
  <2>3. QED
    BY <2>1, <2>2
<1>4. QED
  BY <1>2, <1>3

(***************************************************************************)
(* No two executors ever work on one task, and none gets a task twice:     *)
(* sendTaskToExecutor sends what pop_best and addTask have given to one    *)
(* executor only, and a task that is put back after a lost connection is   *)
(* no longer worked on by the executor that had it.  A removal after an    *)
(* ExecutorError, which breaks that, is left out.                          *)
(***************************************************************************)
THEOREM TasksWorkedOnOnce == Trusty => (Spec => []WorkedOnOnce)
<1> SUFFICES ASSUME Trusty PROVE Spec => []WorkedOnOnce
  OBVIOUS
<1>1. TypeInv /\ WorkInv => WorkedOnOnce
  BY OneWorkerMeans DEF WorkInv, Work, WorkedOnOnce
<1>2. QED
  BY <1>1, SpecWork, SpecTypeInv, PTL

-----------------------------------------------------------------------------
(***************************************************************************)
(* A frame of a set that has one of another set behind it on its stack.    *)
(***************************************************************************)
Follows(s, S, T) == \E i, j \in DOMAIN s : i < j /\ s[i] \in S /\ s[j] \in T

Behind(q, S, T) == \E th \in Thread : Follows(q[th], S, T)

\* every frame of the one set has one of the other behind it
Trails(s, S, T) == \A i \in DOMAIN s : s[i] \in S => \E j \in DOMAIN s : i < j /\ s[j] \in T

LEMMA FollowsHas ==
  ASSUME NEW s, NEW S, NEW T
  PROVE  Follows(s, S, T) => Has(s, S) /\ Has(s, T)
BY DEF Follows, Has

LEMMA FollowsConcat ==
  ASSUME NEW U, NEW g \in Seq(U), NEW r \in Seq(U), NEW S, NEW T
  PROVE  /\ Follows(g, S, T) \/ Follows(r, S, T) => Follows(g \o r, S, T)
         /\ Has(g, S) /\ Has(r, T) => Follows(g \o r, S, T)
         /\ Trails(g, S, T) /\ Trails(r, S, T) => Trails(g \o r, S, T)
<1> DEFINE h == g \o r
           m == Len(g)
           n == Len(r)
<1>1. /\ m \in Nat /\ n \in Nat /\ DOMAIN g = 1 .. m /\ DOMAIN r = 1 .. n
      /\ DOMAIN h = 1 .. m + n
      /\ \A k \in 1 .. m + n : h[k] = IF k <= m THEN g[k] ELSE r[k - m]
  BY ConcatProperties, LenProperties
<1> HIDE DEF h, m, n
<1>2. \A i \in DOMAIN g : i \in DOMAIN h /\ h[i] = g[i] /\ i \in Int /\ i <= m
  BY <1>1
<1>3. \A i \in DOMAIN r : m + i \in DOMAIN h /\ h[m + i] = r[i] /\ i \in Int /\ m < m + i
  <2> SUFFICES ASSUME NEW i \in DOMAIN r
               PROVE  m + i \in DOMAIN h /\ h[m + i] = r[i] /\ i \in Int /\ m < m + i
    OBVIOUS
  <2>1. i \in Nat /\ i >= 1 /\ i <= n
    BY <1>1
  <2>2. m + i \in 1 .. m + n /\ ~(m + i <= m) /\ m + i - m = i
    BY <2>1, <1>1
  <2>3. QED
    BY <2>1, <2>2, <1>1
<1>4. Follows(g, S, T) => Follows(h, S, T)
  BY <1>2 DEF Follows
<1>5. Follows(r, S, T) => Follows(h, S, T)
  <2> SUFFICES ASSUME Follows(r, S, T) PROVE Follows(h, S, T)
    OBVIOUS
  <2>1. PICK i, j \in DOMAIN r : i < j /\ r[i] \in S /\ r[j] \in T
    BY DEF Follows
  <2>2. m + i < m + j
    BY <2>1, <1>1, <1>3
  <2>3. QED
    BY <2>1, <2>2, <1>3 DEF Follows
<1>6. Has(g, S) /\ Has(r, T) => Follows(h, S, T)
  <2> SUFFICES ASSUME Has(g, S), Has(r, T) PROVE Follows(h, S, T)
    OBVIOUS
  <2>1. PICK i \in DOMAIN g : g[i] \in S
    BY DEF Has
  <2>2. PICK j \in DOMAIN r : r[j] \in T
    BY DEF Has
  <2>3. i < m + j
    BY <1>1, <1>2, <1>3
  <2>4. QED
    BY <2>1, <2>2, <2>3, <1>2, <1>3 DEF Follows
<1>7. ASSUME Trails(g, S, T), Trails(r, S, T), NEW k \in DOMAIN h, h[k] \in S
      PROVE  \E j \in DOMAIN h : k < j /\ h[j] \in T
  <2>1. k \in Int /\ k >= 1 /\ k <= m + n
    BY <1>1
  <2>2. CASE k <= m
    <3>1. k \in DOMAIN g /\ g[k] \in S
      BY <2>1, <2>2, <1>1, <1>7
    <3>2. QED
      BY <3>1, <1>2, <1>7 DEF Trails
  <2>3. CASE ~(k <= m)
    <3>1. k - m \in DOMAIN r /\ r[k - m] \in S
      BY <2>1, <2>3, <1>1, <1>7
    <3>2. PICK j \in DOMAIN r : k - m < j /\ r[j] \in T
      BY <3>1, <1>7 DEF Trails
    <3>3. k < m + j
      BY <3>2, <2>1, <1>1, <1>3
    <3>4. QED
      BY <3>2, <3>3, <1>3
  <2>4. QED
    BY <2>2, <2>3
<1>8. QED
  BY <1>4, <1>5, <1>6, <1>7 DEF Trails, h

LEMMA FollowsHeadTail ==
  ASSUME NEW U, NEW s \in Seq(U), s # <<>>, NEW S, NEW T
  PROVE  /\ Follows(s, S, T) => Has(Tail(s), T) /\ (Follows(Tail(s), S, T) \/ Head(s) \in S)
         /\ Trails(s, S, T) => /\ Trails(Tail(s), S, T)
                               /\ Head(s) \in S => Has(Tail(s), T)
<1> DEFINE r == Tail(s)
           n == Len(s)
<1>1. /\ n \in Nat \ {0} /\ DOMAIN s = 1 .. n
      /\ Head(s) = s[1] /\ DOMAIN r = 1 .. n - 1
      /\ \A i \in 1 .. n - 1 : r[i] = s[i + 1]
  <2>1. /\ n \in Nat \ {0} /\ DOMAIN s = 1 .. n
        /\ Head(s) = s[1] /\ r \in Seq(U) /\ Len(r) = n - 1
        /\ \A i \in 1 .. Len(r) : r[i] = s[i + 1]
    BY HeadTailProperties, LenProperties, EmptySeq
  <2>2. DOMAIN r = 1 .. Len(r)
    BY <2>1, LenProperties
  <2>3. QED
    BY <2>1, <2>2
<1> HIDE DEF r, n
<1>2. \A i \in DOMAIN r : i + 1 \in DOMAIN s /\ s[i + 1] = r[i] /\ 1 < i + 1 /\ i \in Int
  BY <1>1
<1>3. \A k \in DOMAIN s : k \in Int /\ (k # 1 => k - 1 \in DOMAIN r /\ r[k - 1] = s[k])
  <2> SUFFICES ASSUME NEW k \in DOMAIN s, k # 1
               PROVE  k - 1 \in DOMAIN r /\ r[k - 1] = s[k]
    BY <1>1
  <2>1. k - 1 \in 1 .. n - 1 /\ (k - 1) + 1 = k
    BY <1>1
  <2>2. QED
    BY <2>1, <1>1
<1>4. ASSUME NEW i \in DOMAIN s, NEW j \in DOMAIN s, i < j, s[i] \in S, s[j] \in T
      PROVE  Has(r, T) /\ (Follows(r, S, T) \/ Head(s) \in S)
  <2>1. j # 1 /\ j - 1 \in DOMAIN r /\ r[j - 1] \in T
    BY <1>1, <1>3, <1>4
  <2>2. CASE i = 1
    BY <2>1, <2>2, <1>1, <1>4 DEF Has
  <2>3. CASE i # 1
    <3>1. i - 1 \in DOMAIN r /\ r[i - 1] \in S /\ i - 1 < j - 1
      BY <2>3, <1>3, <1>4
    <3>2. QED
      BY <2>1, <3>1 DEF Has, Follows
  <2>4. QED
    BY <2>2, <2>3
<1>5. ASSUME Trails(s, S, T), NEW i \in DOMAIN r, r[i] \in S
      PROVE  \E j \in DOMAIN r : i < j /\ r[j] \in T
  <2>1. i + 1 \in DOMAIN s /\ s[i + 1] \in S /\ i \in Int /\ 1 < i + 1
    BY <1>2, <1>5
  <2>2. PICK j \in DOMAIN s : i + 1 < j /\ s[j] \in T
    BY <2>1, <1>5 DEF Trails
  <2>3. j \in Int /\ j # 1 /\ i < j - 1
    BY <2>1, <2>2, <1>3
  <2>4. QED
    BY <2>2, <2>3, <1>3
<1>6. ASSUME Trails(s, S, T), Head(s) \in S PROVE Has(r, T)
  <2>1. 1 \in DOMAIN s /\ s[1] \in S
    BY <1>1, <1>6
  <2>2. PICK j \in DOMAIN s : 1 < j /\ s[j] \in T
    BY <2>1, <1>6 DEF Trails
  <2>3. QED
    BY <2>2, <1>3 DEF Has
<1>7. QED
  BY <1>4, <1>5, <1>6 DEF Follows, Trails, r

\* The same for the stacks of all threads, when one of them goes on.
LEMMA BehindReplaced ==
  ASSUME NEW q \in Stacks, NEW th \in Thread, q[th] # <<>>, NEW g \in Seq(Call), NEW p,
         p = Swap(q, th, g), NEW S, NEW T
  PROVE  /\ Behind(q, S, T) => Behind(p, S, T) \/ Head(q[th]) \in S
         /\ Behind(q, S, T) => Somewhere(p, T)
         /\ Follows(g, S, T) => Behind(p, S, T)
         /\ Sole(q, T) /\ Head(q[th]) \in T => ~Behind(q, S, T)
<1> DEFINE r == Tail(q[th])
           h == Head(q[th])
<1>1. q[th] \in Seq(Call) /\ r \in Seq(Call)
  BY HeadTailProperties DEF Stacks
<1>2. /\ Follows(q[th], S, T) => Has(r, T) /\ (Follows(r, S, T) \/ h \in S)
      /\ AtMostOne(q[th], T) /\ h \in T => ~Has(r, T)
  BY <1>1, FollowsHeadTail, HasHeadTail
<1>3. /\ Follows(g, S, T) \/ Follows(r, S, T) => Follows(g \o r, S, T)
      /\ Has(r, T) => Has(g \o r, T)
      /\ h \in T => Has(q[th], T)
  BY <1>1, FollowsConcat, HasConcat, HasHeadTail
<1>4. p[th] = g \o r /\ \A d \in Thread : d # th => p[d] = q[d]
  BY DEF Stacks, Swap
<1>5. \A s : Follows(s, S, T) => Has(s, T)
  BY FollowsHas
<1> HIDE DEF r, h
<1>6. /\ Behind(q, S, T) => Behind(p, S, T) \/ h \in S
      /\ Behind(q, S, T) => Somewhere(p, T)
      /\ Follows(g, S, T) => Behind(p, S, T)
  BY <1>2, <1>3, <1>4, <1>5 DEF Behind, Somewhere
<1>7. Sole(q, T) /\ h \in T => ~Behind(q, S, T)
  BY <1>2, <1>3, <1>5 DEF Behind, Sole
<1>8. QED
  BY <1>6, <1>7 DEF h

LEMMA BehindBegun ==
  ASSUME NEW q \in Stacks, NEW th \in Thread, q[th] = <<>>, NEW g \in Seq(Call), NEW p,
         p = [q EXCEPT ![th] = g], NEW S, NEW T
  PROVE  /\ Behind(q, S, T) => Behind(p, S, T)
         /\ Follows(g, S, T) => Behind(p, S, T)
<1>1. p[th] = g /\ \A d \in Thread : d # th => p[d] = q[d]
  BY DEF Stacks
<1>2. ~Follows(q[th], S, T)
  BY DEF Follows
<1>3. QED
  BY <1>1, <1>2 DEF Behind
-----------------------------------------------------------------------------
(***************************************************************************)
(* The books are finite, and a forgotten executor has no page in them.     *)
(***************************************************************************)
Books ==
    /\ IsFiniteSet(connected)
    /\ \A e \in Exec : IsFiniteSet(execTasks[e]) /\ (e \notin registered => execTasks[e] = {})

LEMMA BooksStay ==
  ASSUME Books, UNCHANGED <<connected, registered, execTasks>> PROVE Books'
BY DEF Books

LEMMA BooksLess ==
  ASSUME TypeInv, Books, UNCHANGED connected, NEW d \in Task,
         UNCHANGED svars \/ \E e \in Exec : StateRemoveTaskFrom(e, d)
  PROVE  Books'
<1>1. CASE UNCHANGED svars
  BY <1>1, BooksStay DEF svars
<1>2. ASSUME NEW e \in Exec, StateRemoveTaskFrom(e, d) PROVE Books'
  <2>1. CASE HoldsTask(e, d)
    <3>1. /\ execTasks' = [execTasks EXCEPT ![e] = @ \ {d}] /\ UNCHANGED registered
          /\ execTasks \in [Exec -> SUBSET Task]
      BY <1>2, <2>1 DEF StateRemoveTaskFrom, TypeInv, STypeOK
    <3>2. IsFiniteSet(execTasks[e] \ {d})
      BY FS_RemoveElement DEF Books
    <3>3. QED
      BY <3>1, <3>2 DEF Books
  <2>2. CASE ~HoldsTask(e, d)
    BY <1>1, <1>2, <2>2 DEF StateRemoveTaskFrom
  <2>3. QED
    BY <2>1, <2>2
<1>3. QED
  BY <1>1, <1>2

LEMMA AddExecutorBooks ==
  ASSUME TypeInv, Books, NEW th \in Thread, AddExecutor(th) PROVE Books'
<1> DEFINE e == Top(th).exec
<1>1. CASE UNCHANGED <<typeToId, registered, connected>>
  BY <1>1, AddExecutorSeen, BooksStay
<1>2. CASE connected' = connected \cup {e} /\ StateAddExecutor(e)
  <2>1. IsFiniteSet(connected \cup {e})
    BY FS_AddElement DEF Books
  <2>2. QED
    BY <1>2, <2>1 DEF StateAddExecutor, Books
<1>3. QED
  BY <1>1, <1>2, AddExecutorSeen

LEMMA RemoveExecutorBooks ==
  ASSUME TypeInv, Books, NEW th \in Thread, RemoveExecutor(th) PROVE Books'
<1> DEFINE e == Top(th).exec
<1>1. UNCHANGED <<registered, execTasks>> /\ (UNCHANGED connected \/ connected' = connected \ {e})
  BY RemoveExecutorSeen DEF svars
<1>2. IsFiniteSet(connected')
  BY <1>1, FS_RemoveElement DEF Books
<1>3. QED
  BY <1>1, <1>2 DEF Books

LEMMA DropStateBooks ==
  ASSUME TypeInv, Books, NEW th \in Thread, DropState(th) PROVE Books'
<1> DEFINE e == Top(th).exec
<1>1. /\ UNCHANGED connected /\ execTasks \in [Exec -> SUBSET Task]
      /\ StateRemoveExecutor(e) \/ StateRemoveExecutorFails(e)
  BY DropStateSeen DEF TypeInv, STypeOK
<1>2. CASE StateRemoveExecutor(e)
  <2>1. IsFiniteSet({})
    BY FS_EmptySet
  <2>2. QED
    BY <1>1, <1>2, <2>1 DEF StateRemoveExecutor, Books
<1>3. CASE StateRemoveExecutorFails(e)
  BY <1>1, <1>3, BooksStay DEF StateRemoveExecutorFails
<1>4. QED
  BY <1>1, <1>2, <1>3

LEMMA RemoveRunningBooks ==
  ASSUME TypeInv, Books, NEW th \in Thread, RemoveRunning(th) PROVE Books'
<1> DEFINE d == Top(th).task
<1>1. d \in Task /\ UNCHANGED connected /\ StateRemoveTask(d) /\ taskInExec[d] \in Exec \cup {NoExec}
  BY RemoveRunningSeen DEF TypeInv, STypeOK
<1>2. UNCHANGED svars \/ \E e \in Exec : StateRemoveTaskFrom(e, d)
  BY <1>1 DEF StateRemoveTask
<1>3. QED
  BY <1>1, <1>2, BooksLess

LEMMA HandOverBooks ==
  ASSUME TypeInv, Books, NEW th \in Thread, HandOver(th) PROVE Books'
<1> DEFINE e == Top(th).exec
           d == Top(th).task
<1>1. /\ UNCHANGED <<connected, registered>> /\ StateAddTask(e, d) /\ execTasks \in [Exec -> SUBSET Task]
      /\ e \in Exec
  BY HandOverSeen DEF TypeInv, STypeOK, StateAddTask
<1>2. IsFiniteSet(execTasks[e] \cup {d})
  BY <1>1, FS_AddElement DEF Books
<1>3. \A c \in Exec : execTasks'[c] = IF c = e /\ e \in registered THEN execTasks[e] \cup {d} ELSE execTasks[c]
  BY <1>1 DEF StateAddTask
<1>4. QED
  BY <1>1, <1>2, <1>3 DEF Books

LEMMA TaskReceivedBooks ==
  ASSUME TypeInv, Books, NEW th \in Thread, TaskReceived(th) PROVE Books'
<1>1. /\ Top(th).task \in Task /\ UNCHANGED connected
      /\ UNCHANGED svars \/ \E e \in Exec : StateRemoveTaskFrom(e, Top(th).task)
  BY TaskReceivedSeen
<1>2. QED
  BY <1>1, BooksLess

LEMMA ThreadStepBooks ==
  ASSUME TypeInv, Books, NEW th \in Thread, ThreadStep(th) PROVE Books'
<1>1. CASE \/ AnnounceTypes(th) \/ Requeue(th) \/ DisconnectClient(th) \/ FreezeTask(th)
           \/ UnfreezeTasks(th) \/ AddTask(th) \/ DispatchTask(th) \/ GetNextExecutor(th)
           \/ PushTaskStep(th) \/ RemoveTask(th) \/ RemoveQueued(th) \/ RemoveFrozen(th)
           \/ FillLoop(th) \/ FillAll(th) \/ Send(th) \/ SendIfIdle(th) \/ Message(th)
           \/ TaskReturned(th) \/ StoreTask(th)
  <2>1. UNCHANGED <<connected, svars>>
    BY <1>1, AnnounceTypesSeen, RequeueSeen, DisconnectClientSeen, FreezeTaskSeen, UnfreezeTasksSeen,
       AddTaskSeen, DispatchTaskSeen, GetNextExecutorSeen, PushTaskStepSeen, RemoveTaskSeen,
       RemoveQueuedSeen, RemoveFrozenSeen, FillLoopSeen, FillAllSeen, SendSeen, SendIfIdleSeen,
       MessageSeen, TaskReturnedSeen, StoreTaskSeen
  <2>2. QED
    BY <2>1, BooksStay DEF svars
<1>2. QED
  BY <1>1, AddExecutorBooks, RemoveExecutorBooks, DropStateBooks, RemoveRunningBooks, HandOverBooks,
     TaskReceivedBooks DEF ThreadStep

LEMMA NextBooks == ASSUME TypeInv, Books, [Next]_vars PROVE Books'
<1>1. CASE UNCHANGED <<connected, svars>>
  BY <1>1, BooksStay DEF svars
<1>2. CASE UNCHANGED vars
  BY <1>1, <1>2 DEF vars, mindvars
<1>3. CASE Next
  BY <1>1, <1>3, ThreadStepBooks, ConnectSeen, HandleDropSeen, HandleReplySeen, RequestSeen,
     PeriodicSeen, RipenSeen, DisconnectSeen DEF Next
<1>4. QED
  BY <1>2, <1>3

LEMMA SpecBooks == Spec => []Books
<1>1. Init => Books
  BY FS_EmptySet DEF Init, SInit, Books
<1>2. QED
  BY <1>1, NextBooks, SpecTypeInv, PTL DEF Spec
-----------------------------------------------------------------------------
(***************************************************************************)
(* Where a known task is.  Exactly one of four things is true of it: a     *)
(* call bears it, that is, places it, forgets it, sends it or takes its    *)
(* answer; it waits in a queue or in the freezer; or an executor works on  *)
(* it.  A task that is forgotten is nowhere, but for the calls that clean  *)
(* up after it, and a task is not asked for again while it is somewhere.   *)
(***************************************************************************)
Ends(t) == {f \in Call : f.op = "removeTask" /\ f.task = t}

Cleans(t) == {f \in Call : f.op \in {"removeQueued", "removeRunning", "removeFrozen"} /\ f.task = t}

Bearers(t) == Carriers(t) \cup {f \in Call : /\ f.op \in {"removeTask", "message", "taskReceived"}
                                             /\ f.task = t}

Waits(t) == Queued(t) \/ Frozen(t)

Worked(t) == \E e \in Exec : Working(t, e)

Known(t) ==
    /\ Sole(stack, Bearers(t))
    /\ Somewhere(stack, Bearers(t)) => ~Waits(t) /\ ~Worked(t)
    /\ Waits(t) => ~Worked(t)
    /\ ~Somewhere(stack, Cleans(t))
    /\ "saveError" \notin Faults => Somewhere(stack, Bearers(t)) \/ Waits(t) \/ Worked(t)

\* a task that is to be added: at most one call forgets it before that
Asked(t) ==
    /\ t \notin tasks
    /\ ~Somewhere(stack, Cleans(t))
    /\ ~Somewhere(stack, Bearers(t) \ (Adds(t) \cup Ends(t)))
    /\ Sole(stack, Ends(t))
    /\ Somewhere(stack, Ends(t)) => Behind(stack, Ends(t), Adds(t))

Gone(t) == ~Somewhere(stack, Bearers(t)) /\ ~Waits(t) /\ ~Worked(t)

\* the calls that look whether the executor has become idle
IdleChecks(e) == {f \in Call : f.op = "sendIfIdle" /\ f.exec = e}

\* an executor that holds a task works on it, or a call is about to free its slot
Credit(t) ==
    \A e \in Exec : Held(t, e) =>
        IF t \in tasks
        THEN Working(t, e) \/ Somewhere(stack, Answers(t, e)) \/ Somewhere(stack, Ends(t))
        ELSE Behind(stack, Undoes(t), IdleChecks(e))

Course(t) ==
    /\ t \in tasks => Known(t)
    /\ Somewhere(stack, Adds(t)) => Asked(t)
    /\ t \notin tasks /\ ~Somewhere(stack, Adds(t)) => Gone(t)
    /\ requests[t] = 0 => ~Somewhere(stack, Cleans(t))
    /\ Credit(t)

CourseInv == \A t \in Task : Course(t)

\* the calls that concern t
Mine(t) == Bearers(t) \cup Cleans(t)

LEMMA MineParts ==
  ASSUME NEW t
  PROVE  /\ Bearers(t) \in SUBSET Mine(t) /\ Cleans(t) \in SUBSET Mine(t)
         /\ Ends(t) \in SUBSET Mine(t) /\ Adds(t) \in SUBSET Mine(t) /\ Undoes(t) \in SUBSET Mine(t)
         /\ Bearers(t) \ (Adds(t) \cup Ends(t)) \in SUBSET Mine(t)
         /\ \A e \in Exec : Answers(t, e) \in SUBSET Mine(t) /\ Answers(t, e) \subseteq Bearers(t)
         /\ Ends(t) \subseteq Bearers(t) /\ Adds(t) \subseteq Bearers(t) /\ Carriers(t) \subseteq Bearers(t)
         /\ Adds(t) \in SUBSET Call /\ \A e \in Exec : IdleChecks(e) \in SUBSET Call
BY DEF Mine, Bearers, Cleans, Ends, Adds, Undoes, Answers, Busy, BusyOps, Carriers, TokenOps, IdleChecks

\* calls that name another task, or none
StrangeOps == {"addExecutor", "announceTypes", "unfreezeTasks", "fillLoop", "fillAll", "send", "sendIfIdle"}

LEMMA NotMine ==
  ASSUME NEW t, NEW f \in Call,
         f.op \in StrangeOps \/ (f.op # "requeue" /\ f.task # t)
  PROVE  f \notin Mine(t)
BY DEF StrangeOps, Mine, Bearers, Cleans, Carriers, TokenOps

\* the calls that concern t stay, and none is new
Still(t) ==
    \A S \in SUBSET Mine(t) :
        /\ Somewhere(stack', S) <=> Somewhere(stack, S)
        /\ Sole(stack, S) => Sole(stack', S)
        /\ \A T \in SUBSET Call : Behind(stack, S, T) => Behind(stack', S, T)

Rests(t) ==
    /\ Waits(t)' <=> Waits(t)
    /\ \A e \in Exec : (Working(t, e)' <=> Working(t, e)) /\ (Held(t, e)' => Held(t, e))
    /\ t \in tasks' <=> t \in tasks
    /\ requests'[t] = requests[t]

LEMMA StillGoes ==
  ASSUME TypeInv, NEW t, NEW th \in Thread, stack[th] # <<>>, NEW g \in Seq(Call), Continue(th, g),
         Top(th) \notin Mine(t), ~Has(g, Mine(t))
  PROVE  Still(t)
<1>1. stack \in Stacks /\ stack' = Swap(stack, th, g) /\ Top(th) = Head(stack[th])
  BY StackIsStacks DEF Continue, Swap, Top
<1> SUFFICES ASSUME NEW S \in SUBSET Mine(t), NEW T \in SUBSET Call
             PROVE  /\ Somewhere(stack', S) <=> Somewhere(stack, S)
                    /\ Sole(stack, S) => Sole(stack', S)
                    /\ Behind(stack, S, T) => Behind(stack', S, T)
  BY DEF Still
<1>2. ~Has(g, S) /\ AtMostOne(g, S) /\ Top(th) \notin S
  BY DEF Has, AtMostOne
<1>3. /\ Somewhere(stack', S) => Somewhere(stack, S) \/ Has(g, S)
      /\ Somewhere(stack, S) => Somewhere(stack', S) \/ Head(stack[th]) \in S
      /\ Sole(stack, S) /\ AtMostOne(g, S) /\ (Has(g, S) => Head(stack[th]) \in S \/ ~Somewhere(stack, S))
           => Sole(stack', S)
  BY <1>1, Replaced
<1>4. Behind(stack, S, T) => Behind(stack', S, T) \/ Head(stack[th]) \in S
  BY <1>1, BehindReplaced
<1>5. QED
  BY <1>1, <1>2, <1>3, <1>4

LEMMA StillGoesOne ==
  ASSUME TypeInv, NEW t, NEW th \in Thread, stack[th] # <<>>, Top(th) \notin Mine(t),
         \/ Continue(th, <<>>)
         \/ \E a \in Call : Continue(th, <<a>>) /\ a \notin Mine(t)
  PROVE  Still(t)
<1>1. CASE Continue(th, <<>>)
  <2>1. <<>> \in Seq(Call) /\ ~Has(<<>>, Mine(t))
    BY HasNone
  <2>2. QED
    BY <1>1, <2>1, StillGoes
<1>2. ASSUME NEW a \in Call, Continue(th, <<a>>), a \notin Mine(t) PROVE Still(t)
  <2>1. <<a>> \in Seq(Call) /\ ~Has(<<a>>, Mine(t))
    BY <1>2, HasSingle
  <2>2. QED
    BY <1>2, <2>1, StillGoes
<1>3. QED
  BY <1>1, <1>2

LEMMA StillGoesTwo ==
  ASSUME TypeInv, NEW t, NEW th \in Thread, stack[th] # <<>>, Top(th) \notin Mine(t),
         NEW a \in Call, NEW b \in Call, Continue(th, <<a, b>>), a \notin Mine(t), b \notin Mine(t)
  PROVE  Still(t)
<1>1. <<a, b>> \in Seq(Call) /\ ~Has(<<a, b>>, Mine(t))
  BY HasPair
<1>2. QED
  BY <1>1, StillGoes

LEMMA FillsNotMine == ASSUME NEW t PROVE \A f \in Fills : f \in Call /\ f \notin Mine(t)
BY DEF Fills, Mine, Bearers, Cleans, Carriers, TokenOps

LEMMA StillFills ==
  ASSUME TypeInv, NEW t, NEW th \in Thread, stack[th] # <<>>, Top(th) \notin Mine(t),
         NEW g \in Seq(Fills), Continue(th, g)
  PROVE  Still(t)
<1>1. g \in Seq(Call) /\ ~Has(g, Mine(t))
  BY HasNoFill, FillsNotMine
<1>2. QED
  BY <1>1, StillGoes

LEMMA StillStarts ==
  ASSUME TypeInv, NEW t, NEW th \in Thread, NEW g \in Seq(Call), Starts(th, g), ~Has(g, Mine(t))
  PROVE  Still(t)
<1>1. stack \in Stacks /\ stack' = [stack EXCEPT ![th] = g] /\ stack[th] = <<>>
  BY StackIsStacks DEF Starts, Idle
<1> SUFFICES ASSUME NEW S \in SUBSET Mine(t), NEW T \in SUBSET Call
             PROVE  /\ Somewhere(stack', S) <=> Somewhere(stack, S)
                    /\ Sole(stack, S) => Sole(stack', S)
                    /\ Behind(stack, S, T) => Behind(stack', S, T)
  BY DEF Still
<1>2. ~Has(g, S) /\ AtMostOne(g, S)
  BY DEF Has, AtMostOne
<1>3. /\ Somewhere(stack', S) <=> Somewhere(stack, S) \/ Has(g, S)
      /\ Sole(stack, S) /\ AtMostOne(g, S) /\ ~(Has(g, S) /\ Somewhere(stack, S)) => Sole(stack', S)
  BY <1>1, Begun
<1>4. Behind(stack, S, T) => Behind(stack', S, T)
  BY <1>1, BehindBegun
<1>5. QED
  BY <1>2, <1>3, <1>4

LEMMA StillStays == ASSUME NEW t, UNCHANGED stack PROVE Still(t)
BY DEF Still, Somewhere, Sole, Behind

\* a step that does not concern t
LEMMA CourseAside ==
  ASSUME NEW t \in Task, Course(t), Still(t), Rests(t) PROVE Course(t)'
<1>1. /\ Somewhere(stack', Bearers(t)) <=> Somewhere(stack, Bearers(t))
      /\ Somewhere(stack', Cleans(t)) <=> Somewhere(stack, Cleans(t))
      /\ Somewhere(stack', Ends(t)) <=> Somewhere(stack, Ends(t))
      /\ Somewhere(stack', Adds(t)) <=> Somewhere(stack, Adds(t))
      /\ Somewhere(stack', Bearers(t) \ (Adds(t) \cup Ends(t)))
           <=> Somewhere(stack, Bearers(t) \ (Adds(t) \cup Ends(t)))
      /\ Sole(stack, Bearers(t)) => Sole(stack', Bearers(t))
      /\ Sole(stack, Ends(t)) => Sole(stack', Ends(t))
      /\ Behind(stack, Ends(t), Adds(t)) => Behind(stack', Ends(t), Adds(t))
      /\ \A e \in Exec :
           /\ Somewhere(stack', Answers(t, e)) <=> Somewhere(stack, Answers(t, e))
           /\ Behind(stack, Undoes(t), IdleChecks(e)) => Behind(stack', Undoes(t), IdleChecks(e))
  <2> USE MineParts DEF Still
  <2>1. /\ Somewhere(stack', Bearers(t)) <=> Somewhere(stack, Bearers(t))
        /\ Sole(stack, Bearers(t)) => Sole(stack', Bearers(t))
    OBVIOUS
  <2>2. Somewhere(stack', Cleans(t)) <=> Somewhere(stack, Cleans(t))
    OBVIOUS
  <2>3. /\ Somewhere(stack', Ends(t)) <=> Somewhere(stack, Ends(t))
        /\ Sole(stack, Ends(t)) => Sole(stack', Ends(t))
        /\ Behind(stack, Ends(t), Adds(t)) => Behind(stack', Ends(t), Adds(t))
    OBVIOUS
  <2>4. Somewhere(stack', Adds(t)) <=> Somewhere(stack, Adds(t))
    OBVIOUS
  <2>5. Somewhere(stack', Bearers(t) \ (Adds(t) \cup Ends(t)))
           <=> Somewhere(stack, Bearers(t) \ (Adds(t) \cup Ends(t)))
    OBVIOUS
  <2>6. ASSUME NEW e \in Exec
        PROVE  /\ Somewhere(stack', Answers(t, e)) <=> Somewhere(stack, Answers(t, e))
               /\ Behind(stack, Undoes(t), IdleChecks(e)) => Behind(stack', Undoes(t), IdleChecks(e))
    OBVIOUS
  <2>7. QED
    BY <2>1, <2>2, <2>3, <2>4, <2>5, <2>6
<1>2. /\ t \in tasks' => Known(t)'
      /\ Somewhere(stack', Adds(t)) => Asked(t)'
      /\ t \notin tasks' /\ ~Somewhere(stack', Adds(t)) => Gone(t)'
  BY <1>1 DEF Course, Known, Asked, Gone, Rests, Worked
<1>3. Credit(t)'
  BY <1>1 DEF Course, Credit, Rests
<1>4. QED
  BY <1>1, <1>2, <1>3 DEF Course, Rests

\* a call that bears the known task t hands it on, or lays it down
LEMMA KnownMoves ==
  ASSUME TypeInv, NEW t \in Task, Course(t), t \in tasks, t \in tasks',
         NEW th \in Thread, stack[th] # <<>>, NEW g \in Seq(Call), Continue(th, g),
         Top(th) \in Bearers(t) \/ ~Somewhere(stack, Bearers(t)),
         AtMostOne(g, Bearers(t)), ~Has(g, Cleans(t)), ~Has(g, Adds(t)),
         Has(g, Bearers(t)) => ~Waits(t)' /\ ~Worked(t)',
         Waits(t)' => ~Worked(t)',
         "saveError" \notin Faults => Has(g, Bearers(t)) \/ Waits(t)' \/ Worked(t)',
         \A e \in Exec : Held(t, e)' => Working(t, e)' \/ Has(g, Answers(t, e)) \/ Has(g, Ends(t))
  PROVE  Course(t)'
<1>1. stack \in Stacks /\ stack' = Swap(stack, th, g) /\ Top(th) = Head(stack[th])
  BY StackIsStacks DEF Continue, Swap, Top
<1>2. /\ Sole(stack, Bearers(t)) /\ ~Somewhere(stack, Cleans(t)) /\ ~Somewhere(stack, Adds(t))
  BY DEF Course, Known, Asked
<1>3. /\ Sole(stack', Bearers(t))
      /\ Somewhere(stack', Bearers(t)) <=> Has(g, Bearers(t))
  <2>1. /\ Somewhere(stack', Bearers(t)) => Somewhere(stack, Bearers(t)) \/ Has(g, Bearers(t))
        /\ Has(g, Bearers(t)) => Somewhere(stack', Bearers(t))
        /\ Sole(stack, Bearers(t)) /\ AtMostOne(g, Bearers(t))
             /\ (Has(g, Bearers(t)) => Head(stack[th]) \in Bearers(t) \/ ~Somewhere(stack, Bearers(t)))
             => Sole(stack', Bearers(t))
    BY <1>1, Replaced
  <2>2. Top(th) \in Bearers(t) /\ Somewhere(stack', Bearers(t)) => Has(g, Bearers(t))
    BY <1>1, <1>2, OnlyNew
  <2>3. QED
    BY <1>1, <1>2, <2>1, <2>2
<1>4. ~Somewhere(stack', Cleans(t)) /\ ~Somewhere(stack', Adds(t))
  BY <1>2, GoesOn
<1>5. Known(t)'
  BY <1>3, <1>4 DEF Known
<1>6. Credit(t)'
  <2>1. Has(g, Ends(t)) => Somewhere(stack', Ends(t))
    BY <1>1, Replaced
  <2>2. \A e \in Exec : Has(g, Answers(t, e)) => Somewhere(stack', Answers(t, e))
    BY <1>1, Replaced
  <2>3. QED
    BY <2>1, <2>2 DEF Credit
<1>7. QED
  BY <1>4, <1>5, <1>6 DEF Course

LEMMA TopSomewhere ==
  ASSUME TypeInv, NEW th \in Thread, stack[th] # <<>>, NEW S, Top(th) \in S
  PROVE  Somewhere(stack, S)
<1>1. stack[th] \in Seq(Call)
  BY StackIsStacks DEF Stacks
<1>2. Has(stack[th], S)
  BY <1>1, HasHeadTail DEF Top
<1>3. QED
  BY <1>2 DEF Somewhere

\* who bears a task, or keeps it waiting or works on it, knows it
LEMMA BearerKnown ==
  ASSUME TypeInv, NEW t \in Task, Course(t), NEW th \in Thread, stack[th] # <<>>,
         Top(th) \in Bearers(t), Top(th) \notin Adds(t), Top(th) \notin Ends(t)
  PROVE  t \in tasks /\ ~Waits(t) /\ ~Worked(t)
<1>1. /\ Somewhere(stack, Bearers(t))
      /\ Somewhere(stack, Bearers(t) \ (Adds(t) \cup Ends(t)))
  BY TopSomewhere
<1>2. QED
  BY <1>1 DEF Course, Known, Asked, Gone

LEMMA WaitsKnown ==
  ASSUME NEW t \in Task, Course(t), Token(t), Waits(t)
  PROVE  t \in tasks /\ ~Somewhere(stack, Bearers(t)) /\ ~Worked(t)
<1>1. ~Somewhere(stack, Adds(t))
  <2>1. ~Carried(t)
    BY DEF Token, Placed, Waits
  <2>2. QED
    BY <2>1, AddsCarry DEF Carried, Somewhere, Has
<1>2. QED
  BY <1>1 DEF Course, Known, Gone

LEMMA WorkedKnown ==
  ASSUME NEW t \in Task, Course(t), Work(t), Worked(t)
  PROVE  t \in tasks /\ ~Somewhere(stack, Bearers(t)) /\ ~Waits(t)
<1>1. ~Somewhere(stack, Adds(t))
  BY DEF Work, Fresh, Worked
<1>2. QED
  BY <1>1 DEF Course, Known, Gone

\* the clean-up of a task is that of a task that is gone
LEMMA CleanGone ==
  ASSUME TypeInv, NEW t \in Task, Course(t), NEW th \in Thread, stack[th] # <<>>,
         Top(th) \in Cleans(t)
  PROVE  t \notin tasks /\ ~Somewhere(stack, Adds(t)) /\ Gone(t) /\ requests[t] # 0
<1>1. Somewhere(stack, Cleans(t))
  BY TopSomewhere
<1>2. QED
  BY <1>1 DEF Course, Known, Asked
\* one call bears the task on
LEMMA HandsOn ==
  ASSUME TypeInv, NEW t \in Task, Course(t), t \in tasks, t \in tasks',
         NEW th \in Thread, stack[th] # <<>>, NEW a \in Call, Continue(th, <<a>>),
         Top(th) \in Bearers(t) \/ ~Somewhere(stack, Bearers(t)),
         a \in Bearers(t), a.op # "addTask", ~Waits(t)', ~Worked(t)',
         \A e \in Exec : Held(t, e)' => a \in Answers(t, e) \/ a \in Ends(t)
  PROVE  Course(t)'
<1>1. \A S : (Has(<<a>>, S) <=> a \in S) /\ AtMostOne(<<a>>, S)
  BY HasSingle
<1>2. a \notin Cleans(t) /\ a \notin Adds(t)
  BY DEF Bearers, Carriers, TokenOps, Cleans, Adds
<1> DEFINE g == <<a>>
<1>3. g \in Seq(Call) /\ Continue(th, g) /\ AtMostOne(g, Bearers(t))
      /\ ~Has(g, Cleans(t)) /\ ~Has(g, Adds(t)) /\ Has(g, Bearers(t))
      /\ \A e \in Exec : Held(t, e)' => Has(g, Answers(t, e)) \/ Has(g, Ends(t))
  BY <1>1, <1>2
<1> HIDE DEF g
<1>4. QED
  BY <1>3, KnownMoves

\* the first of two calls does
LEMMA HandsOnTwo ==
  ASSUME TypeInv, NEW t \in Task, Course(t), t \in tasks, t \in tasks',
         NEW th \in Thread, stack[th] # <<>>, NEW a \in Call, NEW b \in Call, Continue(th, <<a, b>>),
         Top(th) \in Bearers(t) \/ ~Somewhere(stack, Bearers(t)),
         a \in Bearers(t), a.op # "addTask", b \notin Mine(t), ~Waits(t)', ~Worked(t)',
         \A e \in Exec : ~Held(t, e)'
  PROVE  Course(t)'
<1>1. \A S : /\ Has(<<a, b>>, S) <=> a \in S \/ b \in S
             /\ ~(a \in S /\ b \in S) => AtMostOne(<<a, b>>, S)
  BY HasPair
<1>2. a \notin Cleans(t) /\ a \notin Adds(t) /\ b \notin Cleans(t) /\ b \notin Adds(t) /\ b \notin Bearers(t)
  BY MineParts DEF Bearers, Carriers, TokenOps, Cleans, Adds, Mine
<1> DEFINE g == <<a, b>>
<1>3. g \in Seq(Call) /\ Continue(th, g) /\ AtMostOne(g, Bearers(t))
      /\ ~Has(g, Cleans(t)) /\ ~Has(g, Adds(t)) /\ Has(g, Bearers(t))
  BY <1>1, <1>2
<1> HIDE DEF g
<1>4. QED
  BY <1>3, KnownMoves

\* none does: the task is where it is to be
LEMMA LaysDown ==
  ASSUME TypeInv, NEW t \in Task, Course(t), t \in tasks, t \in tasks',
         NEW th \in Thread, stack[th] # <<>>, NEW g \in Seq(Fills), Continue(th, g),
         Top(th) \in Bearers(t),
         Waits(t)' \/ Worked(t)', ~(Waits(t)' /\ Worked(t)'),
         \A e \in Exec : Held(t, e)' => Working(t, e)'
  PROVE  Course(t)'
<1>1. \A f \in Fills : f \notin Bearers(t) /\ f \notin Cleans(t) /\ f \notin Adds(t)
  BY FillsNotMine, MineParts
<1>2. /\ g \in Seq(Call) /\ ~Has(g, Bearers(t)) /\ AtMostOne(g, Bearers(t))
      /\ ~Has(g, Cleans(t)) /\ ~Has(g, Adds(t))
  BY <1>1, HasNoFill
<1>3. QED
  BY <1>2, KnownMoves

LEMMA SameRests ==
  ASSUME NEW t \in Task, UNCHANGED <<taskInQueue, freezer, execTasks, work, tasks, requests>>
  PROVE  Rests(t)
BY DEF Rests, Waits, Queued, Frozen, Working, Held

LEMMA NoFills == <<>> \in Seq(Fills)
OBVIOUS

LEMMA AddExecutorCourse ==
  ASSUME TypeInv, NEW t \in Task, Course(t), NEW th \in Thread, AddExecutor(th) PROVE Course(t)'
<1>1. /\ stack[th] # <<>> /\ Top(th) \in Call /\ Top(th).op = "addExecutor"
      /\ UNCHANGED <<taskInQueue, freezer, execTasks, work, tasks, requests>>
  BY AddExecutorSeen, TopIsCall DEF At, qvars, netvars
<1>2. PICK g \in Seq(Fills) : Continue(th, g)
  BY AddExecutorSeen
<1>3. Top(th) \notin Mine(t)
  BY <1>1, NotMine DEF StrangeOps
<1>4. QED
  BY <1>1, <1>2, <1>3, StillFills, SameRests, CourseAside

LEMMA AnnounceTypesCourse ==
  ASSUME TypeInv, NEW t \in Task, Course(t), NEW th \in Thread, AnnounceTypes(th) PROVE Course(t)'
<1>1. /\ stack[th] # <<>> /\ Top(th) \in Call /\ Top(th).op = "announceTypes"
      /\ UNCHANGED <<taskInQueue, freezer, execTasks, work, tasks, requests>>
  BY AnnounceTypesSeen, TopIsCall DEF At, qvars, svars, netvars
<1>2. PICK g \in Seq(Fills) : Continue(th, g)
  BY AnnounceTypesSeen
<1>3. Top(th) \notin Mine(t)
  BY <1>1, NotMine DEF StrangeOps
<1>4. QED
  BY <1>1, <1>2, <1>3, StillFills, SameRests, CourseAside

LEMMA FillAllCourse ==
  ASSUME TypeInv, NEW t \in Task, Course(t), NEW th \in Thread, FillAll(th) PROVE Course(t)'
<1>1. /\ stack[th] # <<>> /\ Top(th) \in Call /\ Top(th).op = "fillAll"
      /\ UNCHANGED <<taskInQueue, freezer, execTasks, work, tasks, requests>>
  BY FillAllSeen, TopIsCall DEF At, qvars, svars, netvars
<1>2. PICK g \in Seq(Fills) : Continue(th, g)
  BY FillAllSeen
<1>3. Top(th) \notin Mine(t)
  BY <1>1, NotMine DEF StrangeOps
<1>4. QED
  BY <1>1, <1>2, <1>3, StillFills, SameRests, CourseAside

LEMMA FillLoopCourse ==
  ASSUME TypeInv, NEW t \in Task, Course(t), NEW th \in Thread, FillLoop(th) PROVE Course(t)'
<1>1. /\ stack[th] # <<>> /\ Top(th) \in Call /\ Top(th).op = "fillLoop"
      /\ UNCHANGED <<taskInQueue, freezer, execTasks, work, tasks, requests>>
      /\ \/ Continue(th, <<>>)
         \/ \E a \in Call : Continue(th, <<a>>) /\ a.op = "send"
  BY FillLoopSeen, TopIsCall DEF At, qvars, svars, netvars
<1>2. /\ Top(th) \notin Mine(t)
      /\ \/ Continue(th, <<>>)
         \/ \E a \in Call : Continue(th, <<a>>) /\ a \notin Mine(t)
  BY <1>1, NotMine DEF StrangeOps
<1>3. QED
  BY <1>1, <1>2, StillGoesOne, SameRests, CourseAside

LEMMA SendIfIdleCourse ==
  ASSUME TypeInv, NEW t \in Task, Course(t), NEW th \in Thread, SendIfIdle(th) PROVE Course(t)'
<1>1. /\ stack[th] # <<>> /\ Top(th) \in Call /\ Top(th).op = "sendIfIdle"
      /\ UNCHANGED <<taskInQueue, freezer, execTasks, work, tasks, requests>>
      /\ \/ Continue(th, <<>>)
         \/ \E a \in Call : Continue(th, <<a>>) /\ a.op = "send"
  BY SendIfIdleSeen, TopIsCall DEF At, qvars, svars, netvars
<1>2. /\ Top(th) \notin Mine(t)
      /\ \/ Continue(th, <<>>)
         \/ \E a \in Call : Continue(th, <<a>>) /\ a \notin Mine(t)
  BY <1>1, NotMine DEF StrangeOps
<1>3. QED
  BY <1>1, <1>2, StillGoesOne, SameRests, CourseAside

LEMMA FreezeTaskCourse ==
  ASSUME TypeInv, NEW t \in Task, Course(t), Token(t), NEW th \in Thread, FreezeTask(th) PROVE Course(t)'
<1> DEFINE d == Top(th).task
<1>1. /\ stack[th] # <<>> /\ Top(th) \in Call /\ Top(th).op = "freezeTask" /\ d \in Task
      /\ UNCHANGED <<taskInQueue, execTasks, work, tasks, requests>>
  BY FreezeTaskSeen, TopIsCall DEF At, qvars, svars, netvars
<1>2. CASE d = t
  <2>1. Top(th) \in Carriers(t) /\ Top(th) \in Bearers(t) /\ Top(th) \notin Adds(t) /\ Top(th) \notin Ends(t)
    BY <1>1, <1>2 DEF Carriers, TokenOps, Bearers, Adds, Ends
  <2>2. t \in tasks /\ ~Waits(t) /\ ~Worked(t)
    BY <1>1, <2>1, BearerKnown
  <2>3. \A e \in Exec : ~Held(t, e)
    BY <1>1, <2>1, TopCarries DEF Token, Placed
  <2>4. t \in tasks' /\ ~Queued(t)' /\ ~Worked(t)' /\ \A e \in Exec : ~Held(t, e)'
    BY <1>1, <2>2, <2>3 DEF Waits, Queued, Worked, Working, Held
  <2>5. ASSUME Continue(th, <<>>), freezer' = Append(freezer, d) PROVE Course(t)'
    <3>1. Waits(t)'
      BY <1>1, <1>2, <2>5, FreezerGains DEF Waits
    <3>2. QED
      BY <1>1, <2>1, <2>2, <2>4, <2>5, <3>1, NoFills, LaysDown
  <2>6. ASSUME UNCHANGED freezer, NEW a \in Call, Continue(th, <<a>>), a.op = "removeTask", a.task = d
        PROVE  Course(t)'
    <3>1. a \in Bearers(t) /\ a.op # "addTask"
      BY <1>2, <2>6 DEF Bearers
    <3>2. ~Waits(t)'
      BY <2>2, <2>4, <2>6 DEF Waits, Frozen
    <3>3. QED
      BY <1>1, <2>1, <2>2, <2>4, <2>6, <3>1, <3>2, HandsOn
  <2>7. QED
    BY <1>2, <2>2, <2>5, <2>6, FreezeTaskSeen DEF Waits
<1>3. CASE d # t
  <2>1. \/ Continue(th, <<>>)
        \/ \E a \in Call : Continue(th, <<a>>) /\ a.op = "removeTask" /\ a.task = d
    BY FreezeTaskSeen
  <2>2. /\ Top(th) \notin Mine(t)
        /\ \/ Continue(th, <<>>)
           \/ \E a \in Call : Continue(th, <<a>>) /\ a \notin Mine(t)
    BY <1>1, <1>3, <2>1, NotMine
  <2>3. Frozen(t)' <=> Frozen(t)
    BY <1>1, <1>3, FreezeTaskSeen, FreezerGains DEF Frozen
  <2>4. Rests(t)
    BY <1>1, <2>3 DEF Rests, Waits, Queued, Working, Held
  <2>5. QED
    BY <1>1, <2>2, <2>4, StillGoesOne, CourseAside
<1>4. QED
  BY <1>2, <1>3

LEMMA UnfreezeTasksCourse ==
  ASSUME TypeInv, NEW t \in Task, Course(t), Token(t), NEW th \in Thread, UnfreezeTasks(th)
  PROVE  Course(t)'
<1>1. /\ stack[th] # <<>> /\ Top(th) \in Call /\ Top(th).op = "unfreezeTasks" /\ Top(th) \in Fills
      /\ Top(th).loop \in Type \cup {NoType}
      /\ UNCHANGED <<taskInQueue, execTasks, work, tasks, requests>>
  BY UnfreezeTasksSeen, TopIsCall DEF At, qvars, svars, netvars, FrameType
<1>2. Top(th) \notin Mine(t)
  BY <1>1, NotMine DEF StrangeOps
<1>3. CASE Continue(th, Again(Top(th).loop)) /\ UNCHANGED freezer
  <2>1. Again(Top(th).loop) \in Seq(Fills)
    BY <1>1, AgainFills
  <2>2. QED
    BY <1>1, <1>2, <1>3, <2>1, StillFills, SameRests, CourseAside
<1>4. ASSUME UNCHANGED freezer, NEW a \in Fills, Continue(th, <<a>>) PROVE Course(t)'
  <2>1. a \in Call /\ a \notin Mine(t)
    BY FillsNotMine
  <2>2. QED
    BY <1>1, <1>2, <1>4, <2>1, StillGoesOne, SameRests, CourseAside
<1>5. ASSUME NEW i \in 1 .. Len(freezer), freezer' = RemoveAt(freezer, i),
             \/ freezer[i] \notin tasks /\ Continue(th, <<Top(th)>>)
             \/ /\ freezer[i] \in tasks
                /\ \E a \in Call : /\ Continue(th, <<a, Top(th)>>)
                                   /\ a.op = "dispatchTask" /\ a.task = freezer[i]
      PROVE  Course(t)'
  <2> DEFINE d == freezer[i]
  <2>1. CASE d # t
    <3>1. Frozen(t)' <=> Frozen(t)
      BY <1>5, <2>1, Thawed
    <3>2. Rests(t)
      BY <1>1, <3>1 DEF Rests, Waits, Queued, Working, Held
    <3>3. CASE Continue(th, <<Top(th)>>)
      BY <1>1, <1>2, <3>2, <3>3, StillGoesOne, CourseAside
    <3>4. ASSUME NEW a \in Call, Continue(th, <<a, Top(th)>>), a.op = "dispatchTask", a.task = d
          PROVE  Course(t)'
      <4>1. a \notin Mine(t)
        BY <2>1, <3>4, NotMine
      <4>2. QED
        BY <1>1, <1>2, <3>2, <3>4, <4>1, StillGoesTwo, CourseAside
    <3>5. QED
      BY <1>5, <3>3, <3>4
  <2>2. CASE d = t
    <3>1. Frozen(t) /\ ~Frozen(t)'
      BY <1>5, <2>2, Thawed DEF Token, InOnePlace
    <3>2. t \in tasks /\ ~Somewhere(stack, Bearers(t)) /\ ~Worked(t) /\ ~Queued(t)
          /\ \A e \in Exec : ~Held(t, e)
      BY <3>1, WaitsKnown DEF Waits, Token, InOnePlace
    <3>3. t \in tasks' /\ ~Waits(t)' /\ ~Worked(t)' /\ \A e \in Exec : ~Held(t, e)'
      BY <1>1, <3>1, <3>2 DEF Waits, Queued, Worked, Working, Held
    <3>4. PICK a \in Call : Continue(th, <<a, Top(th)>>) /\ a.op = "dispatchTask" /\ a.task = d
      BY <1>5, <2>2, <3>2
    <3>5. a \in Bearers(t) /\ a.op # "addTask"
      BY <2>2, <3>4 DEF Bearers, Carriers, TokenOps
    <3>6. QED
      BY <1>1, <1>2, <3>2, <3>3, <3>4, <3>5, HandsOnTwo
  <2>3. QED
    BY <2>1, <2>2
<1>6. QED
  BY <1>3, <1>4, <1>5, UnfreezeTasksSeen
LEMMA AddTaskCourse ==
  ASSUME TypeInv, NEW t \in Task, Course(t), Token(t), Work(t), NEW th \in Thread, AddTask(th)
  PROVE  Course(t)'
<1> DEFINE d == Top(th).task
<1>1. /\ stack[th] # <<>> /\ Top(th) \in Call /\ Top(th).op = "addTask" /\ d \in Task
      /\ UNCHANGED <<taskInQueue, freezer, execTasks, work, requests>>
  BY AddTaskSeen, TopIsCall DEF At, qvars, svars, netvars
<1>2. CASE d = t
  <2>1. Top(th) \in Adds(t) /\ Top(th) \in Carriers(t) /\ Top(th) \in Bearers(t)
    BY <1>1, <1>2 DEF Adds, Busy, BusyOps, Carriers, TokenOps, Bearers
  <2>2. Somewhere(stack, Adds(t)) /\ Asked(t)
    BY <1>1, <2>1, TopSomewhere DEF Course
  <2>3. PICK a \in Call : /\ tasks' = tasks \cup {t} /\ Continue(th, <<a>>)
                          /\ a.op = "dispatchTask" /\ a.task = t
    BY <1>2, <2>2, AddTaskSeen DEF Asked
  <2> DEFINE g == <<a>>
  <2>4. stack \in Stacks /\ stack' = Swap(stack, th, g) /\ Top(th) = Head(stack[th])
        /\ g \in Seq(Call) /\ Continue(th, g)
    BY <2>3, StackIsStacks DEF Continue, Swap, Top
  <2>5. \A S : (Has(g, S) <=> a \in S) /\ AtMostOne(g, S)
    BY HasSingle
  <2> HIDE DEF g
  <2>6. a \in Bearers(t) /\ a \in Carriers(t) /\ a \notin Adds(t) /\ a \notin Ends(t) /\ a \notin Cleans(t)
    BY <2>3 DEF Bearers, Carriers, TokenOps, Adds, Ends, Cleans
  <2>7. Sole(stack, Carriers(t)) /\ ~Placed(t)
    BY <1>1, <2>1, TopCarries DEF Token
  <2>8. Sole(stack, Adds(t))
    BY <2>7, AddsCarry DEF Sole, AtMostOne, Has
  <2>9. ~Somewhere(stack, Ends(t))
    <3>1. ~Behind(stack, Ends(t), Adds(t))
      BY <1>1, <2>1, <2>4, <2>8, BehindReplaced
    <3>2. QED
      BY <2>2, <3>1 DEF Asked
  <2>10. ~Somewhere(stack, Bearers(t) \ Adds(t))
    BY <2>2, <2>9 DEF Asked, Somewhere, Has
  <2>11. ~Somewhere(stack', Adds(t)) /\ ~Somewhere(stack', Cleans(t))
    BY <1>1, <2>1, <2>2, <2>4, <2>5, <2>6, <2>8, GoesOn DEF Asked
  <2>12. Sole(stack', Bearers(t))
    <3>1. ~Somewhere(stack, Bearers(t) \ Carriers(t))
      BY <2>10, AddsCarry DEF Somewhere, Has
    <3>2. Sole(stack, Bearers(t))
      BY <2>7, <3>1 DEF Sole, AtMostOne, Somewhere, Has
    <3>3. QED
      BY <1>1, <2>1, <2>4, <2>5, <3>2, Replaced
  <2>13. Somewhere(stack', Bearers(t))
    BY <1>1, <2>4, <2>5, <2>6, Replaced
  <2>14. ~Worked(t)'
    BY <1>1, <2>2 DEF Work, Fresh, Worked, Working
  <2>15. ~Waits(t)' /\ \A e \in Exec : ~Held(t, e)'
    BY <1>1, <2>7 DEF Placed, Waits, Queued, Frozen, Held
  <2>16. t \in tasks'
    BY <2>3
  <2>17. QED
    BY <2>11, <2>12, <2>13, <2>14, <2>15, <2>16 DEF Course, Known, Credit
<1>3. CASE d # t
  <2>1. Top(th) \notin Mine(t)
    BY <1>1, <1>3, NotMine
  <2>2. t \in tasks' <=> t \in tasks
    BY <1>1, <1>3, AddTaskSeen
  <2>3. Rests(t)
    BY <1>1, <2>2 DEF Rests, Waits, Queued, Frozen, Working, Held
  <2>4. Still(t)
    <3>1. ASSUME NEW g \in Seq(Fills), Continue(th, g) PROVE Still(t)
      BY <1>1, <2>1, <3>1, StillFills
    <3>2. ASSUME NEW a \in Call, Continue(th, <<a>>), a.op = "dispatchTask", a.task = d PROVE Still(t)
      <4>1. a \notin Mine(t)
        BY <1>3, <3>2, NotMine
      <4>2. QED
        BY <1>1, <2>1, <3>2, <4>1, StillGoesOne
    <3>3. QED
      BY <3>1, <3>2, AddTaskSeen
  <2>5. QED
    BY <2>3, <2>4, CourseAside
<1>4. QED
  BY <1>2, <1>3

\* a step of the call that bears t: what it may rely on
LEMMA TopBears ==
  ASSUME TypeInv, NEW t \in Task, Course(t), Token(t), NEW th \in Thread, stack[th] # <<>>,
         Top(th) \in Call, Top(th).task = t, Top(th).op \in TokenOps, Top(th).op # "addTask",
         UNCHANGED <<taskInQueue, execTasks, work>>
  PROVE  /\ Top(th) \in Bearers(t) /\ t \in tasks
         /\ ~Waits(t) /\ ~Queued(t)' /\ ~Worked(t)'
         /\ \A e \in Exec : ~Held(t, e) /\ ~Held(t, e)'
<1>1. Top(th) \in Carriers(t) /\ Top(th) \in Bearers(t) /\ Top(th) \notin Adds(t) /\ Top(th) \notin Ends(t)
  BY DEF Carriers, Bearers, Adds, Ends, TokenOps
<1>2. t \in tasks /\ ~Waits(t) /\ ~Worked(t)
  BY <1>1, BearerKnown
<1>3. \A e \in Exec : ~Held(t, e)
  BY <1>1, TopCarries DEF Token, Placed
<1>4. QED
  BY <1>1, <1>2, <1>3 DEF Waits, Queued, Worked, Working, Held

LEMMA DispatchTaskCourse ==
  ASSUME TypeInv, NEW t \in Task, Course(t), Token(t), Calm, NEW th \in Thread, DispatchTask(th)
  PROVE  Course(t)'
<1> DEFINE d == Top(th).task
<1>1. /\ stack[th] # <<>> /\ Top(th) \in Call /\ Top(th).op = "dispatchTask" /\ d \in Task
      /\ UNCHANGED <<taskInQueue, execTasks, work, tasks, requests>>
  BY DispatchTaskSeen, TopIsCall DEF At, qvars, svars, netvars
<1>2. CASE d = t
  <2>1. /\ Top(th) \in Bearers(t) /\ t \in tasks
        /\ ~Waits(t) /\ ~Queued(t)' /\ ~Worked(t)'
        /\ \A e \in Exec : ~Held(t, e) /\ ~Held(t, e)'
    BY <1>1, <1>2, TopBears DEF TokenOps
  <2>2. taskInExec[t] = NoExec
    <3>1. taskInExec[t] \in Exec \cup {NoExec}
      BY DEF TypeInv, STypeOK
    <3>2. QED
      BY <2>1, <3>1 DEF Calm, TaskIndexConsistent, Held
  <2>3. PICK a \in Call : /\ freezer' = RemoveFirst(freezer, t) /\ Continue(th, <<a>>)
                          /\ a.op = "getNextExecutor" /\ a.task = t
    BY <1>2, <2>2, DispatchTaskSeen
  <2>4. ~Waits(t)'
    BY <2>1, <2>3, Unfrozen DEF Waits
  <2>5. a \in Bearers(t) /\ a.op # "addTask"
    BY <2>3 DEF Bearers, Carriers, TokenOps
  <2>6. QED
    BY <1>1, <2>1, <2>3, <2>4, <2>5, HandsOn
<1>3. CASE d # t
  <2>1. /\ \/ UNCHANGED freezer
           \/ freezer' = RemoveFirst(freezer, d)
        /\ \/ Continue(th, <<>>)
           \/ \E a \in Call : Continue(th, <<a>>) /\ a.op = "getNextExecutor" /\ a.task = d
    BY DispatchTaskSeen
  <2>2. /\ Top(th) \notin Mine(t)
        /\ \/ Continue(th, <<>>)
           \/ \E a \in Call : Continue(th, <<a>>) /\ a \notin Mine(t)
    BY <1>1, <1>3, <2>1, NotMine
  <2>3. Frozen(t)' <=> Frozen(t)
    BY <1>3, <2>1, Unfrozen DEF Frozen
  <2>4. Rests(t)
    BY <1>1, <2>3 DEF Rests, Waits, Queued, Working, Held
  <2>5. QED
    BY <1>1, <2>2, <2>4, StillGoesOne, CourseAside
<1>4. QED
  BY <1>2, <1>3

LEMMA GetNextExecutorCourse ==
  ASSUME TypeInv, NEW t \in Task, Course(t), Token(t), NEW th \in Thread, GetNextExecutor(th)
  PROVE  Course(t)'
<1> DEFINE d == Top(th).task
<1>1. /\ stack[th] # <<>> /\ Top(th) \in Call /\ Top(th).op = "getNextExecutor" /\ d \in Task
      /\ UNCHANGED <<taskInQueue, freezer, execTasks, work, tasks, requests>>
  BY GetNextExecutorSeen, TopIsCall DEF At, qvars, svars, netvars
<1>2. \/ \E a \in Call : /\ Continue(th, <<a>>)
                         /\ a.op \in {"freezeTask", "removeTask"} /\ a.task = d
      \/ \E a, b \in Call : /\ Continue(th, <<a, b>>)
                            /\ a.op = "pushTask" /\ a.task = d /\ b \in Fills
  BY GetNextExecutorSeen
<1>3. CASE d = t
  <2>1. /\ Top(th) \in Bearers(t) /\ t \in tasks
        /\ ~Waits(t) /\ ~Queued(t)' /\ ~Worked(t)'
        /\ \A e \in Exec : ~Held(t, e) /\ ~Held(t, e)'
    BY <1>1, <1>3, TopBears DEF TokenOps
  <2>2. ~Waits(t)' /\ t \in tasks'
    BY <1>1, <2>1 DEF Waits, Frozen
  <2>3. ASSUME NEW a \in Call, Continue(th, <<a>>), a.op \in {"freezeTask", "removeTask"}, a.task = d
        PROVE  Course(t)'
    <3>1. a \in Bearers(t) /\ a.op # "addTask"
      BY <1>3, <2>3 DEF Bearers, Carriers, TokenOps
    <3>2. QED
      BY <1>1, <2>1, <2>2, <2>3, <3>1, HandsOn
  <2>4. ASSUME NEW a \in Call, NEW b \in Call, Continue(th, <<a, b>>), a.op = "pushTask", a.task = d,
               b \in Fills
        PROVE  Course(t)'
    <3>1. a \in Bearers(t) /\ a.op # "addTask" /\ b \notin Mine(t)
      BY <1>3, <2>4, FillsNotMine DEF Bearers, Carriers, TokenOps
    <3>2. QED
      BY <1>1, <2>1, <2>2, <2>4, <3>1, HandsOnTwo
  <2>5. QED
    BY <1>2, <2>3, <2>4
<1>4. CASE d # t
  <2>1. Top(th) \notin Mine(t)
    BY <1>1, <1>4, NotMine
  <2>2. ASSUME NEW a \in Call, Continue(th, <<a>>), a.op \in {"freezeTask", "removeTask"}, a.task = d
        PROVE  Still(t)
    <3>1. a \notin Mine(t)
      BY <1>4, <2>2, NotMine
    <3>2. QED
      BY <1>1, <2>1, <2>2, <3>1, StillGoesOne
  <2>3. ASSUME NEW a \in Call, NEW b \in Call, Continue(th, <<a, b>>), a.op = "pushTask", a.task = d,
               b \in Fills
        PROVE  Still(t)
    <3>1. a \notin Mine(t) /\ b \notin Mine(t)
      BY <1>4, <2>3, NotMine, FillsNotMine
    <3>2. QED
      BY <1>1, <2>1, <2>3, <3>1, StillGoesTwo
  <2>4. QED
    BY <1>1, <1>2, <2>2, <2>3, SameRests, CourseAside
<1>5. QED
  BY <1>3, <1>4

LEMMA PushTaskStepCourse ==
  ASSUME TypeInv, NEW t \in Task, Course(t), Token(t), NEW th \in Thread, PushTaskStep(th)
  PROVE  Course(t)'
<1> DEFINE d == Top(th).task
<1>1. /\ stack[th] # <<>> /\ Top(th) \in Call /\ Top(th).op = "pushTask" /\ d \in Task
      /\ Top(th).type \in Type /\ Continue(th, <<>>)
      /\ UNCHANGED <<freezer, execTasks, work, tasks, requests>>
      /\ \A x \in Task : taskInQueue'[x] = IF x = d /\ ~Queued(x) THEN Top(th).type ELSE taskInQueue[x]
  BY PushTaskStepSeen, TopIsCall DEF At, svars, netvars
<1>2. CASE d = t
  <2>1. Top(th) \in Carriers(t) /\ Top(th) \in Bearers(t) /\ Top(th) \notin Adds(t) /\ Top(th) \notin Ends(t)
    BY <1>1, <1>2 DEF Carriers, Bearers, Adds, Ends, TokenOps
  <2>2. t \in tasks /\ ~Waits(t) /\ ~Worked(t)
    BY <1>1, <2>1, BearerKnown
  <2>3. \A e \in Exec : ~Held(t, e)
    BY <1>1, <2>1, TopCarries DEF Token, Placed
  <2>4. t \in tasks' /\ ~Worked(t)' /\ \A e \in Exec : ~Held(t, e)'
    BY <1>1, <2>2, <2>3 DEF Worked, Working, Held
  <2>5. Waits(t)'
    BY <1>1, <1>2, <2>2, IdAssumption DEF Waits, Queued
  <2>6. QED
    BY <1>1, <2>1, <2>2, <2>4, <2>5, NoFills, LaysDown
<1>3. CASE d # t
  <2>1. Top(th) \notin Mine(t)
    BY <1>1, <1>3, NotMine
  <2>2. Rests(t)
    BY <1>1, <1>3 DEF Rests, Waits, Queued, Frozen, Working, Held
  <2>3. QED
    BY <1>1, <2>1, <2>2, StillGoesOne, CourseAside
<1>4. QED
  BY <1>2, <1>3

LEMMA SendCourse ==
  ASSUME TypeInv, NEW t \in Task, Course(t), Token(t), NEW th \in Thread, Send(th) PROVE Course(t)'
<1>1. /\ stack[th] # <<>> /\ Top(th) \in Call /\ Top(th).op = "send"
      /\ Top(th).loop \in Type \cup {NoType}
      /\ UNCHANGED <<freezer, execTasks, work, tasks, requests>>
  BY SendSeen, TopIsCall DEF At, svars, netvars
<1>2. Top(th) \notin Mine(t)
  BY <1>1, NotMine DEF StrangeOps
<1>3. ASSUME UNCHANGED qvars, NEW g \in Seq(Fills), Continue(th, g) PROVE Course(t)'
  BY <1>1, <1>2, <1>3, StillFills, SameRests, CourseAside DEF qvars
<1>4. ASSUME NEW y \in Type, Picked(th, Top(th), y) PROVE Course(t)'
  <2>1. PICK a \in Call :
          /\ Continue(th, <<a>>)
          /\ a.op = "handOver" /\ a.task \in Task /\ taskInQueue[a.task] = y
          /\ \A x \in Task : taskInQueue'[x] = IF x = a.task THEN NoType ELSE taskInQueue[x]
    BY <1>4 DEF Picked
  <2>2. CASE a.task = t
    <3>1. Queued(t) /\ ~Queued(t)'
      BY <2>1, <2>2, IdAssumption DEF Queued
    <3>2. t \in tasks /\ ~Somewhere(stack, Bearers(t)) /\ ~Worked(t) /\ ~Frozen(t)
          /\ \A e \in Exec : ~Held(t, e)
      BY <3>1, WaitsKnown DEF Waits, Token, InOnePlace
    <3>3. t \in tasks' /\ ~Waits(t)' /\ ~Worked(t)' /\ \A e \in Exec : ~Held(t, e)'
      BY <1>1, <3>1, <3>2 DEF Waits, Frozen, Worked, Working, Held
    <3>4. a \in Bearers(t) /\ a.op # "addTask"
      BY <2>1, <2>2 DEF Bearers, Carriers, TokenOps
    <3>5. QED
      BY <1>1, <2>1, <3>2, <3>3, <3>4, HandsOn
  <2>3. CASE a.task # t
    <3>1. a \notin Mine(t)
      BY <2>1, <2>3, NotMine
    <3>2. Rests(t)
      BY <1>1, <2>1, <2>3 DEF Rests, Waits, Queued, Frozen, Working, Held
    <3>3. QED
      BY <1>1, <1>2, <2>1, <3>1, <3>2, StillGoesOne, CourseAside
  <2>4. QED
    BY <2>2, <2>3
<1>5. Again(Top(th).loop) \in Seq(Fills)
  BY <1>1, AgainFills
<1>6. QED
  BY <1>3, <1>4, <1>5, NoFills, SendSeen
\* the task is forgotten, and the calls that clean up after it are made
LEMMA RemoveTaskCourse ==
  ASSUME TypeInv, NEW t \in Task, Course(t), Token(t), Calm, NEW th \in Thread, RemoveTask(th)
  PROVE  Course(t)'
<1> DEFINE d == Top(th).task
<1>1. /\ stack[th] # <<>> /\ Top(th) \in Call /\ Top(th).op = "removeTask" /\ d \in Task
      /\ UNCHANGED <<taskInQueue, freezer, execTasks, taskInExec, work, requests>>
  BY RemoveTaskSeen, TopIsCall DEF At, qvars, svars, netvars
<1>2. CASE d \notin tasks
  <2>1. Continue(th, <<>>) /\ UNCHANGED tasks
    BY <1>2, RemoveTaskSeen
  <2>2. CASE d # t
    BY <1>1, <2>1, <2>2, NotMine, StillGoesOne, SameRests, CourseAside
  <2>3. CASE d = t
    <3>1. Top(th) \in Ends(t) /\ Top(th) \in Bearers(t) /\ Top(th) \notin Undoes(t)
          /\ Top(th) \notin Adds(t)
      BY <1>1, <2>3 DEF Ends, Bearers, Undoes, Adds, Busy, BusyOps
    <3>2. Somewhere(stack, Adds(t)) /\ Asked(t) /\ Sole(stack, Ends(t))
      BY <1>1, <1>2, <2>3, <3>1, TopSomewhere DEF Course, Gone, Asked
    <3> DEFINE g == <<>>
    <3>3. stack \in Stacks /\ stack' = Swap(stack, th, g) /\ Top(th) = Head(stack[th])
          /\ g \in Seq(Call) /\ Continue(th, g)
      BY <2>1, StackIsStacks DEF Continue, Swap, Top
    <3>4. \A S : ~Has(g, S)
      BY HasNone
    <3> HIDE DEF g
    <3>5. ~Somewhere(stack', Ends(t)) /\ ~Somewhere(stack', Cleans(t))
          /\ ~Somewhere(stack', Bearers(t) \ (Adds(t) \cup Ends(t)))
      BY <1>1, <3>1, <3>2, <3>3, <3>4, GoesOn DEF Asked
    <3>6. Somewhere(stack', Adds(t))
      BY <1>1, <3>1, <3>2, <3>3, Replaced
    <3>7. Sole(stack', Ends(t))
      BY <3>5, NoneIsSole
    <3>8. t \notin tasks'
      BY <1>2, <2>1, <2>3
    <3>9. Credit(t)'
      <4>1. \A e \in Exec : Behind(stack, Undoes(t), IdleChecks(e))
                              => Behind(stack', Undoes(t), IdleChecks(e))
        BY <1>1, <3>1, <3>3, BehindReplaced
      <4>2. Credit(t)
        BY DEF Course
      <4>3. QED
        BY <1>1, <1>2, <2>3, <3>8, <4>1, <4>2 DEF Credit, Held
    <3>10. QED
      BY <3>5, <3>6, <3>7, <3>8, <3>9 DEF Course, Asked
  <2>4. QED
    BY <2>2, <2>3
<1>3. CASE d \in tasks
  <2>1. tasks' = tasks \ {d} /\ CleanUp(th, d)
    BY <1>3, RemoveTaskSeen
  <2>2. PICK a, b, c \in Call, r \in Seq(Call) :
          /\ Continue(th, <<a, b, c>> \o r)
          /\ a.op = "removeQueued" /\ a.task = d
          /\ b.op = "removeRunning" /\ b.task = d
          /\ c.op = "removeFrozen" /\ c.task = d
          /\ \/ taskInExec[d] = NoExec /\ r = <<>>
             \/ \E x \in Call : r = <<x>> /\ x.op = "sendIfIdle" /\ x.exec = taskInExec[d]
    BY <2>1 DEF CleanUp
  <2> DEFINE k == <<a, b, c>>
             g == k \o r
  <2>3. k \in Seq(Call) /\ g \in Seq(Call) /\ Continue(th, g)
        /\ \A S : (Has(k, S) <=> a \in S \/ b \in S \/ c \in S) /\ (Has(g, S) <=> Has(k, S) \/ Has(r, S))
    <3>1. k \in Seq(Call) /\ \A S : Has(k, S) <=> a \in S \/ b \in S \/ c \in S
      BY HasTriple
    <3> HIDE DEF k
    <3>2. g \in Seq(Call) /\ \A S : Has(g, S) <=> Has(k, S) \/ Has(r, S)
      BY <3>1, HasConcat
    <3>3. Continue(th, g)
      BY <2>2 DEF k
    <3>4. QED
      BY <3>1, <3>2, <3>3
  <2>4. \A S : Has(r, S) => \E x \in Call : x.op = "sendIfIdle" /\ x \in S
    BY <2>2, HasNone, HasSingle
  <2>5. \A S, T : Has(k, S) /\ Has(r, T) => Follows(g, S, T)
    BY <2>2, <2>3, FollowsConcat
  <2>6. stack \in Stacks /\ stack' = Swap(stack, th, g) /\ Top(th) = Head(stack[th])
    BY <2>3, StackIsStacks DEF Continue, Swap, Top
  <2> HIDE DEF k, g, d
  <2>7. CASE d # t
    <3>1. a \notin Mine(t) /\ b \notin Mine(t) /\ c \notin Mine(t) /\ Top(th) \notin Mine(t)
      BY <1>1, <2>2, <2>7, NotMine DEF d
    <3>2. ~Has(r, Mine(t))
      BY <2>4, NotMine DEF StrangeOps
    <3>3. ~Has(g, Mine(t))
      BY <2>3, <3>1, <3>2
    <3>4. Rests(t)
      BY <1>1, <2>1, <2>7 DEF Rests, Waits, Queued, Frozen, Working, Held
    <3>5. QED
      BY <1>1, <2>3, <3>1, <3>3, <3>4, StillGoes, CourseAside
  <2>8. CASE d = t
    <3>1. Top(th) \in Bearers(t) /\ Top(th) \notin Adds(t)
      BY <1>1, <2>8 DEF d, Bearers, Adds, Busy, BusyOps
    <3>2. Known(t) /\ ~Waits(t) /\ ~Worked(t) /\ ~Somewhere(stack, Adds(t))
      BY <1>1, <1>3, <2>8, <3>1, TopSomewhere DEF Course, Known, Asked
    <3>3. a \notin Bearers(t) /\ b \notin Bearers(t) /\ c \notin Bearers(t)
          /\ a \notin Adds(t) /\ b \notin Adds(t) /\ c \notin Adds(t) /\ b \in Undoes(t)
      BY <2>2, <2>8 DEF Bearers, Carriers, TokenOps, Adds, Undoes, Busy, BusyOps
    <3>4. ~Has(r, Bearers(t)) /\ ~Has(r, Adds(t))
      BY <2>4 DEF Bearers, Carriers, TokenOps, Adds, Busy, BusyOps
    <3>5. ~Has(g, Bearers(t)) /\ ~Has(g, Adds(t))
      BY <2>3, <3>3, <3>4
    <3>6. ~Somewhere(stack', Bearers(t)) /\ ~Somewhere(stack', Adds(t))
      BY <1>1, <2>3, <3>1, <3>2, <3>5, GoesOn DEF Known
    <3>7. t \notin tasks' /\ requests'[t] # 0
      BY <1>1, <1>3, <2>1, <2>8 DEF Token
    <3>8. Gone(t)'
      BY <1>1, <3>2, <3>6 DEF Gone, Waits, Queued, Frozen, Worked, Working
    <3>9. ASSUME NEW e \in Exec, Held(t, e)' PROVE Behind(stack', Undoes(t), IdleChecks(e))
      <4>1. taskInExec[t] = e /\ e # NoExec
        BY <1>1, <3>9, IdAssumption DEF Held, Calm, TaskIndexConsistent
      <4>2. Has(r, IdleChecks(e))
        <5>1. PICK x \in Call : r = <<x>> /\ x.op = "sendIfIdle" /\ x.exec = e
          BY <2>2, <2>8, <4>1
        <5>2. x \in IdleChecks(e)
          BY <5>1 DEF IdleChecks
        <5>3. QED
          BY <5>1, <5>2, HasSingle
      <4>3. Follows(g, Undoes(t), IdleChecks(e))
        BY <2>3, <2>5, <3>3, <4>2
      <4>4. QED
        BY <1>1, <2>3, <2>6, <4>3, BehindReplaced
    <3>10. QED
      BY <3>6, <3>7, <3>8, <3>9 DEF Course, Credit
  <2>9. QED
    BY <2>7, <2>8
<1>4. QED
  BY <1>2, <1>3

\* one of those calls
LEMMA CleansUp ==
  ASSUME TypeInv, NEW t \in Task, Course(t), NEW th \in Thread, stack[th] # <<>>,
         Top(th) \in Cleans(t), NEW g \in Seq(Fills), Continue(th, g),
         UNCHANGED <<work, tasks, requests>>, Waits(t)' => Waits(t),
         \A e \in Exec : Held(t, e)' => Held(t, e) /\ Top(th) \notin Undoes(t)
  PROVE  Course(t)'
<1>1. t \notin tasks /\ ~Somewhere(stack, Adds(t)) /\ Gone(t) /\ requests[t] # 0
  BY CleanGone
<1>2. g \in Seq(Call) /\ ~Has(g, Bearers(t)) /\ ~Has(g, Adds(t))
  BY HasNoFill, FillsNotMine, MineParts
<1>3. ~Somewhere(stack', Adds(t)) /\ ~Somewhere(stack', Bearers(t))
  BY <1>1, <1>2, GoesOn DEF Gone
<1>4. stack \in Stacks /\ stack' = Swap(stack, th, g) /\ Top(th) = Head(stack[th])
  BY <1>2, StackIsStacks DEF Continue, Swap, Top
<1>5. Gone(t)'
  BY <1>1, <1>3 DEF Gone, Worked, Working
<1>6. ASSUME NEW e \in Exec, Held(t, e)' PROVE Behind(stack', Undoes(t), IdleChecks(e))
  <2>1. Behind(stack, Undoes(t), IdleChecks(e))
    BY <1>1, <1>6 DEF Course, Credit
  <2>2. QED
    BY <1>2, <1>4, <1>6, <2>1, BehindReplaced
<1>7. QED
  BY <1>1, <1>3, <1>5, <1>6 DEF Course, Credit

LEMMA RemoveQueuedCourse ==
  ASSUME TypeInv, NEW t \in Task, Course(t), NEW th \in Thread, RemoveQueued(th) PROVE Course(t)'
<1> DEFINE d == Top(th).task
<1>1. /\ stack[th] # <<>> /\ Top(th) \in Call /\ Top(th).op = "removeQueued" /\ d \in Task
      /\ Continue(th, <<>>) /\ UNCHANGED <<freezer, execTasks, work, tasks, requests>>
      /\ \A x \in Task : taskInQueue'[x] = IF x = d THEN NoType ELSE taskInQueue[x]
  BY RemoveQueuedSeen, TopIsCall DEF At, svars, netvars
<1>2. CASE d = t
  <2>1. Top(th) \in Cleans(t) /\ Top(th) \notin Undoes(t)
    BY <1>1, <1>2 DEF Cleans, Undoes
  <2>2. (Waits(t)' => Waits(t)) /\ \A e \in Exec : Held(t, e)' => Held(t, e)
    BY <1>1, <1>2 DEF Waits, Queued, Frozen, Held
  <2>3. QED
    BY <1>1, <2>1, <2>2, NoFills, CleansUp
<1>3. CASE d # t
  <2>1. Rests(t)
    BY <1>1, <1>3 DEF Rests, Waits, Queued, Frozen, Working, Held
  <2>2. QED
    BY <1>1, <1>3, <2>1, NotMine, StillGoesOne, CourseAside
<1>4. QED
  BY <1>2, <1>3

LEMMA RemoveFrozenCourse ==
  ASSUME TypeInv, NEW t \in Task, Course(t), NEW th \in Thread, RemoveFrozen(th) PROVE Course(t)'
<1> DEFINE d == Top(th).task
<1>1. /\ stack[th] # <<>> /\ Top(th) \in Call /\ Top(th).op = "removeFrozen" /\ d \in Task
      /\ Continue(th, <<>>) /\ UNCHANGED <<taskInQueue, execTasks, work, tasks, requests>>
      /\ freezer' = RemoveFirst(freezer, d)
  BY RemoveFrozenSeen, TopIsCall DEF At, qvars, svars, netvars
<1>2. (Frozen(t)' => Frozen(t)) /\ (t # d => (Frozen(t)' <=> Frozen(t)))
  BY <1>1, Unfrozen
<1>3. CASE d = t
  <2>1. Top(th) \in Cleans(t) /\ Top(th) \notin Undoes(t)
    BY <1>1, <1>3 DEF Cleans, Undoes
  <2>2. (Waits(t)' => Waits(t)) /\ \A e \in Exec : Held(t, e)' => Held(t, e)
    BY <1>1, <1>2 DEF Waits, Queued, Held
  <2>3. QED
    BY <1>1, <2>1, <2>2, NoFills, CleansUp
<1>4. CASE d # t
  <2>1. Rests(t)
    BY <1>1, <1>2, <1>4 DEF Rests, Waits, Queued, Working, Held
  <2>2. QED
    BY <1>1, <1>4, <2>1, NotMine, StillGoesOne, CourseAside
<1>5. QED
  BY <1>3, <1>4

\* a task that ExecutorState forgets is with no executor
LEMMA Unheld ==
  ASSUME TypeInv, Books, Calm, NEW t \in Task, StateRemoveTask(t), NEW e \in Exec PROVE ~Held(t, e)'
<1>1. CASE taskInExec[t] = NoExec
  <2>1. UNCHANGED svars
    BY <1>1 DEF StateRemoveTask
  <2>2. QED
    BY <1>1, <2>1, IdAssumption DEF Calm, TaskIndexConsistent, svars, Held
<1>2. CASE taskInExec[t] # NoExec
  <2> DEFINE x == taskInExec[t]
  <2>1. x \in Exec /\ StateRemoveTaskFrom(x, t)
    BY <1>2 DEF TypeInv, STypeOK, StateRemoveTask
  <2>2. t \in execTasks[x] /\ (e # x => t \notin execTasks[e])
    BY <2>1 DEF Calm, TaskIndexConsistent
  <2>3. x \in registered
    <3>1. QED
      BY <2>1, <2>2 DEF Books
  <2>4. HoldsTask(x, t)
    BY <2>2, <2>3 DEF HoldsTask
  <2> HIDE DEF x
  <2>5. Held(t, e)' <=> Held(t, e) /\ ~(HoldsTask(x, t) /\ t = t /\ e = x)
    BY <2>1, LessHeld
  <2>6. QED
    BY <2>2, <2>4, <2>5 DEF Held
<1>3. QED
  BY <1>1, <1>2
LEMMA RemoveRunningCourse ==
  ASSUME TypeInv, Books, Calm, NEW t \in Task, Course(t), NEW th \in Thread, RemoveRunning(th)
  PROVE  Course(t)'
<1> DEFINE d == Top(th).task
           g == Again(Top(th).loop)
<1>1. /\ stack[th] # <<>> /\ Top(th) \in Call /\ Top(th).op = "removeRunning" /\ d \in Task
      /\ UNCHANGED <<taskInQueue, freezer, work, tasks, requests>>
      /\ StateRemoveTask(d) /\ g \in Seq(Fills) /\ Continue(th, g)
  BY RemoveRunningSeen, TopIsCall, AgainFills DEF At, qvars, netvars
<1> HIDE DEF g
<1>2. CASE d = t
  <2>1. Top(th) \in Cleans(t)
    BY <1>1, <1>2 DEF Cleans
  <2>2. (Waits(t)' => Waits(t)) /\ \A e \in Exec : ~Held(t, e)'
    BY <1>1, <1>2, Unheld DEF Waits, Queued, Frozen
  <2>3. QED
    BY <1>1, <2>1, <2>2, CleansUp
<1>3. CASE d # t
  <2>1. Rests(t)
    BY <1>1, StateRemoveTaskHolds DEF Rests, Waits, Queued, Frozen, Working
  <2>2. QED
    BY <1>1, <1>3, <2>1, NotMine, StillFills, CourseAside
<1>4. QED
  BY <1>2, <1>3

\* the connections of the executors the mind has are open
LEMMA ConnectedOpen ==
  ASSUME TypeInv, Tidy, Calm, NEW e \in connected
  PROVE  e \in Exec /\ Open(e) /\ e \in registered
BY DEF TypeInv, MindTypeOK, NetTypeOK, Tidy, Net, Calm, Open

LEMMA HandOverCourse ==
  ASSUME TypeInv, NEW t \in Task, Course(t), Token(t), NEW th \in Thread, HandOver(th)
  PROVE  Course(t)'
<1> DEFINE d == Top(th).task
           e == Top(th).exec
<1>1. /\ stack[th] # <<>> /\ Top(th) \in Call /\ Top(th).op = "handOver" /\ d \in Task /\ e \in Exec
      /\ UNCHANGED <<taskInQueue, freezer, work, tasks, requests>> /\ StateAddTask(e, d)
  BY HandOverSeen, TopIsCall DEF At, qvars, netvars
<1>2. PICK a \in Call : Continue(th, <<a>>) /\ a.op = "message" /\ a.exec = e /\ a.task = d
  BY HandOverSeen
<1>3. execTasks \in [Exec -> SUBSET Task]
  BY DEF TypeInv, STypeOK
<1>4. \A c \in Exec : Held(t, c)' => Held(t, c) \/ (t = d /\ c = e)
  BY <1>1, <1>3 DEF StateAddTask, Held
<1>5. CASE d = t
  <2>1. Top(th) \in Carriers(t) /\ Top(th) \in Bearers(t) /\ Top(th) \notin Adds(t) /\ Top(th) \notin Ends(t)
    BY <1>1, <1>5 DEF Carriers, Bearers, Adds, Ends, TokenOps
  <2>2. t \in tasks /\ ~Waits(t) /\ ~Worked(t)
    BY <1>1, <2>1, BearerKnown
  <2>3. \A c \in Exec : ~Held(t, c)
    BY <1>1, <2>1, TopCarries DEF Token, Placed
  <2>4. t \in tasks' /\ ~Waits(t)' /\ ~Worked(t)'
    BY <1>1, <2>2 DEF Waits, Queued, Frozen, Worked, Working
  <2>5. a \in Bearers(t) /\ a \in Answers(t, e) /\ a.op # "addTask"
    BY <1>2, <1>5 DEF Bearers, Answers, Busy, BusyOps
  <2>6. \A c \in Exec : Held(t, c)' => a \in Answers(t, c) \/ a \in Ends(t)
    BY <1>4, <2>3, <2>5
  <2> HIDE DEF d, e
  <2>7. QED
    BY <1>1, <1>2, <2>1, <2>2, <2>4, <2>5, <2>6, HandsOn
<1>6. CASE d # t
  <2>1. Rests(t)
    BY <1>1, <1>4, <1>6 DEF Rests, Waits, Queued, Frozen, Working
  <2>2. Top(th) \notin Mine(t) /\ a \notin Mine(t)
    BY <1>1, <1>2, <1>6, NotMine
  <2>3. QED
    BY <1>1, <1>2, <2>1, <2>2, StillGoesOne, CourseAside
<1>7. QED
  BY <1>5, <1>6

\* nothing that is sent is refused
Delivered == Connected /\ "sendRefused" \notin Faults

\* an executor works on one more task
LEMMA WorkGains ==
  ASSUME TypeInv, NEW e \in Exec, NEW w \in WorkType, work' = [work EXCEPT ![e] = Append(@, w)],
         NEW t, NEW c \in Exec
  PROVE  Working(t, c)' <=> Working(t, c) \/ (c = e /\ w.task = t)
<1>1. work \in [Exec -> Seq(WorkType)]
  BY DEF TypeInv, NetTypeOK
<1>2. CASE c = e
  <2>1. work'[c] = Append(work[c], w) /\ work[c] \in Seq(WorkType)
    BY <1>1, <1>2
  <2>2. Has(Append(work[c], w), WorkOf(t)) <=> Has(work[c], WorkOf(t)) \/ w \in WorkOf(t)
    BY <2>1, HasAppend
  <2>3. QED
    BY <1>2, <2>1, <2>2 DEF Working, WorkOf
<1>3. CASE c # e
  BY <1>1, <1>3 DEF Working
<1>4. QED
  BY <1>2, <1>3

LEMMA MessageCourse ==
  ASSUME TypeInv, Tidy, Calm, Delivered, NEW t \in Task, Course(t), Token(t), Work(t),
         NEW th \in Thread, Message(th), Course(Top(th).task)
  PROVE  Course(t)'
<1> DEFINE d == Top(th).task
           e == Top(th).exec
           g == Again(Top(th).loop)
<1>1. /\ stack[th] # <<>> /\ Top(th) \in Call /\ Top(th).op = "message" /\ d \in Task /\ e \in Exec
      /\ UNCHANGED <<taskInQueue, freezer, execTasks, tasks, requests>>
      /\ g \in Seq(Fills)
  BY MessageSeen, TopIsCall, AgainFills DEF At, qvars, svars
<1>2. d \in tasks
  <2>1. Top(th) \in Bearers(d) /\ Top(th) \notin Adds(d) /\ Top(th) \notin Ends(d)
    BY <1>1 DEF Bearers, Adds, Ends
  <2> HIDE DEF d
  <2>2. QED
    BY <1>1, <2>1, BearerKnown DEF d
<1>3. transport[e] # "closed"
  BY <1>1 DEF Calm
<1>4. PICK w \in WorkType : /\ w.task = d /\ work' = [work EXCEPT ![e] = Append(@, w)]
                            /\ Continue(th, g)
  BY <1>2, <1>3, MessageSeen DEF Delivered, Connected, Trusty, Once
<1> HIDE DEF g
<1>5. \A c \in Exec : Working(t, c)' <=> Working(t, c) \/ (c = e /\ d = t)
  BY <1>1, <1>4, WorkGains
<1>6. CASE d = t
  <2>1. Top(th) \in Bearers(t) /\ Top(th) \notin Adds(t) /\ Top(th) \notin Ends(t)
        /\ Top(th) \in Answers(t, e)
    BY <1>1, <1>6 DEF Bearers, Adds, Ends, Answers, Busy, BusyOps
  <2>2. t \in tasks /\ ~Waits(t) /\ ~Worked(t)
    BY <1>1, <2>1, BearerKnown
  <2>3. t \in tasks' /\ ~Waits(t)' /\ Worked(t)'
    BY <1>1, <1>5, <1>6, <2>2 DEF Waits, Queued, Frozen, Worked
  <2>4. e \in connected
    BY <1>1, TopNoStray DEF Strays
  <2>5. Held(t, e)
    <3>1. Open(e) /\ Somewhere(stack, Answers(t, e))
      BY <1>1, <2>1, <2>4, ConnectedOpen, TopSomewhere
    <3>2. QED
      BY <1>1, <2>2, <3>1 DEF Work, Credited
  <2>6. \A c \in Exec : Held(t, c)' => Working(t, c)'
    BY <1>1, <1>5, <1>6, <2>5 DEF Held, Token, InOnePlace
  <2> HIDE DEF d, e
  <2>7. QED
    BY <1>1, <1>4, <2>1, <2>2, <2>3, <2>6, LaysDown
<1>7. CASE d # t
  <2>1. Rests(t)
    BY <1>1, <1>5, <1>7 DEF Rests, Waits, Queued, Frozen, Held
  <2>2. Top(th) \notin Mine(t)
    BY <1>1, <1>7, NotMine
  <2>3. QED
    BY <1>1, <1>4, <2>1, <2>2, StillFills, CourseAside
<1>8. QED
  BY <1>6, <1>7

LEMMA TaskReceivedCourse ==
  ASSUME TypeInv, Tidy, Calm, NEW t \in Task, Course(t), Token(t), Work(t),
         NEW th \in Thread, TaskReceived(th)
  PROVE  Course(t)'
<1> DEFINE d == Top(th).task
           e == Top(th).exec
<1>1. /\ stack[th] # <<>> /\ Top(th) \in Call /\ Top(th).op = "taskReceived" /\ d \in Task /\ e \in Exec
      /\ UNCHANGED <<taskInQueue, freezer, work, tasks, requests>>
  BY TaskReceivedSeen, TopIsCall DEF At, qvars, netvars
<1>2. CASE d = t
  <2>1. Top(th) \in Bearers(t) /\ Top(th) \notin Adds(t) /\ Top(th) \notin Ends(t)
        /\ Top(th) \in Answers(t, e)
    BY <1>1, <1>2 DEF Bearers, Adds, Ends, Answers, Busy, BusyOps
  <2>2. t \in tasks /\ ~Waits(t) /\ ~Worked(t)
    BY <1>1, <2>1, BearerKnown
  <2>3. e \in connected
    BY <1>1, TopNoStray DEF Strays
  <2>4. Open(e) /\ e \in registered /\ Somewhere(stack, Answers(t, e))
    BY <1>1, <2>1, <2>3, ConnectedOpen, TopSomewhere
  <2>5. Held(t, e)
    BY <1>1, <2>2, <2>4 DEF Work, Credited
  <2>6. taskInExec[t] = e /\ e # NoExec
    BY <1>1, <2>5, IdAssumption DEF Held, Calm, TaskIndexConsistent
  <2>7. HoldsTask(e, t) /\ RemoveSucceeds(e, t)
    BY <2>4, <2>5, <2>6 DEF HoldsTask, RemoveSucceeds, Held
  <2>8. PICK a \in Call : /\ StateRemoveTaskFrom(e, t) /\ Continue(th, <<a>>)
                          /\ a.op = "taskReturned" /\ a.task = t
    BY <1>2, <2>2, <2>7, TaskReceivedSeen
  <2>9. \A c \in Exec : ~Held(t, c)'
    <3>1. \A c \in Exec : Held(t, c)' => Held(t, c) /\ c # e
      BY <1>1, <2>7, <2>8, LessHeld
    <3>2. QED
      BY <1>1, <2>5, <3>1 DEF Token, InOnePlace
  <2>10. t \in tasks' /\ ~Waits(t)' /\ ~Worked(t)'
    BY <1>1, <2>2 DEF Waits, Queued, Frozen, Worked, Working
  <2>11. a \in Bearers(t) /\ a.op # "addTask"
    BY <2>8 DEF Bearers, Carriers, TokenOps
  <2> HIDE DEF d, e
  <2>12. QED
    BY <1>1, <2>1, <2>2, <2>8, <2>9, <2>10, <2>11, HandsOn
<1>3. CASE d # t
  <2>1. Top(th) \notin Mine(t)
    BY <1>1, <1>3, NotMine
  <2>2. CASE UNCHANGED svars /\ Continue(th, <<>>)
    BY <1>1, <2>1, <2>2, StillGoesOne, SameRests, CourseAside DEF svars
  <2>3. ASSUME StateRemoveTaskFrom(e, d), NEW a \in Call, Continue(th, <<a>>),
               \/ a.op = "taskReturned" /\ a.task = d
               \/ a.op = "send"
        PROVE  Course(t)'
    <3>1. \A c \in Exec : Held(t, c)' => Held(t, c)
      BY <1>1, <2>3, LessHeld
    <3>2. Rests(t)
      BY <1>1, <3>1 DEF Rests, Waits, Queued, Frozen, Working
    <3>3. a \notin Mine(t)
      BY <1>3, <2>3, NotMine DEF StrangeOps
    <3>4. QED
      BY <1>1, <2>1, <2>3, <3>2, <3>3, StillGoesOne, CourseAside
  <2>4. QED
    BY <2>2, <2>3, TaskReceivedSeen
<1>4. QED
  BY <1>2, <1>3

LEMMA StoreTaskCourse ==
  ASSUME TypeInv, NEW t \in Task, Course(t), Token(t), NEW th \in Thread, StoreTask(th)
  PROVE  Course(t)'
<1> DEFINE d == Top(th).task
<1>1. /\ stack[th] # <<>> /\ Top(th) \in Call /\ Top(th).op = "storeTask" /\ d \in Task
      /\ UNCHANGED <<taskInQueue, freezer, execTasks, work, tasks, requests>>
  BY StoreTaskSeen, TopIsCall DEF At, qvars, svars, netvars
<1>2. PICK b \in Call : /\ b.op = "send"
                        /\ \/ d \notin tasks /\ Continue(th, <<b>>)
                           \/ \E a \in Call : /\ Continue(th, <<a, b>>)
                                              /\ a.op \in {"dispatchTask", "freezeTask"} /\ a.task = d
  BY StoreTaskSeen
<1>3. b \notin Mine(t)
  BY <1>2, NotMine DEF StrangeOps
<1>4. CASE d = t
  <2>1. /\ Top(th) \in Bearers(t) /\ t \in tasks
        /\ ~Waits(t) /\ ~Queued(t)' /\ ~Worked(t)'
        /\ \A e \in Exec : ~Held(t, e) /\ ~Held(t, e)'
    BY <1>1, <1>4, TopBears DEF TokenOps
  <2>2. PICK a \in Call : /\ Continue(th, <<a, b>>)
                          /\ a.op \in {"dispatchTask", "freezeTask"} /\ a.task = t
    BY <1>2, <1>4, <2>1
  <2>3. ~Waits(t)' /\ t \in tasks'
    BY <1>1, <2>1 DEF Waits, Frozen
  <2>4. a \in Bearers(t) /\ a.op # "addTask"
    BY <2>2 DEF Bearers, Carriers, TokenOps
  <2>5. QED
    BY <1>1, <1>3, <2>1, <2>2, <2>3, <2>4, HandsOnTwo
<1>5. CASE d # t
  <2>1. Top(th) \notin Mine(t)
    BY <1>1, <1>5, NotMine
  <2>2. ASSUME NEW a \in Call, Continue(th, <<a, b>>), a.op \in {"dispatchTask", "freezeTask"}, a.task = d
        PROVE  Still(t)
    <3>1. a \notin Mine(t)
      BY <1>5, <2>2, NotMine
    <3>2. QED
      BY <1>1, <1>3, <2>1, <2>2, <3>1, StillGoesTwo
  <2>3. CASE Continue(th, <<b>>)
    BY <1>1, <1>3, <2>1, <2>3, StillGoesOne, SameRests, CourseAside
  <2>4. QED
    BY <1>1, <1>2, <2>2, <2>3, SameRests, CourseAside
<1>6. QED
  BY <1>4, <1>5

LEMMA TaskReturnedCourse ==
  ASSUME TypeInv, Tidy, Calm, NEW t \in Task, Course(t), Token(t), NEW th \in Thread, TaskReturned(th)
  PROVE  Course(t)'
<1> DEFINE d == Top(th).task
           e == Top(th).exec
<1>1. /\ stack[th] # <<>> /\ Top(th) \in Call /\ Top(th).op = "taskReturned" /\ d \in Task /\ e \in Exec
      /\ UNCHANGED <<taskInQueue, freezer, execTasks, tasks, requests>>
  BY TaskReturnedSeen, TopIsCall DEF At, qvars, svars
<1>2. e \in connected
  BY <1>1, TopNoStray DEF Strays
<1>3. Top(th).type \in TypesOf(e)
  BY <1>1, TopFits DEF Fit
<1>4. UNCHANGED work
  BY <1>2, <1>3, TaskReturnedSeen DEF netvars
<1>5. \/ \E a \in Call : Continue(th, <<a>>) /\ a.op = "storeTask" /\ a.task = d
      \/ /\ "saveError" \in Faults
         /\ \E a \in Call : a.op = "send" /\ \/ Continue(th, <<a>>)
                                             \/ \E b \in Call : /\ Continue(th, <<a, b>>)
                                                                /\ b.op = "removeTask" /\ b.task = d
  <2>1. ASSUME NEW a \in Call, NEW r \in Seq(Call), Continue(th, <<a>> \o r),
               \/ r = <<>>
               \/ \E b \in Call : r = <<b>> /\ b.op = "removeTask" /\ b.task = d
        PROVE  \/ Continue(th, <<a>>)
               \/ \E b \in Call : Continue(th, <<a, b>>) /\ b.op = "removeTask" /\ b.task = d
    <3>1. <<a>> \o <<>> = <<a>>
      OBVIOUS
    <3>2. ASSUME NEW b \in Call PROVE <<a>> \o <<b>> = <<a, b>>
      <4>1. /\ <<a>> \in Seq(Call) /\ <<b>> \in Seq(Call) /\ <<a, b>> \in Seq(Call)
            /\ Len(<<a>>) = 1 /\ Len(<<b>>) = 1 /\ Len(<<a, b>>) = 2
            /\ <<a>>[1] = a /\ <<b>>[1] = b /\ <<a, b>>[1] = a /\ <<a, b>>[2] = b
        OBVIOUS
      <4> DEFINE x == <<a>>
                 y == <<b>>
                 z == <<a, b>>
      <4> HIDE DEF x, y, z
      <4>2. x \o y \in Seq(Call) /\ Len(x \o y) = 2 /\ (x \o y)[1] = a /\ (x \o y)[2] = b
        BY <4>1, ConcatProperties DEF x, y
      <4>3. z \in Seq(Call) /\ Len(z) = 2 /\ z[1] = a /\ z[2] = b
        BY <4>1 DEF z
      <4>4. x \o y = z
        BY <4>2, <4>3, SeqEqual
      <4>5. QED
        BY <4>4 DEF x, y, z
    <3>3. QED
      BY <2>1, <3>1, <3>2
  <2>2. QED
    BY <1>2, <1>3, <2>1, TaskReturnedSeen
<1>6. CASE d = t
  <2>1. /\ Top(th) \in Bearers(t) /\ t \in tasks
        /\ ~Waits(t) /\ ~Queued(t)' /\ ~Worked(t)'
        /\ \A c \in Exec : ~Held(t, c) /\ ~Held(t, c)'
    BY <1>1, <1>4, <1>6, TopBears DEF TokenOps
  <2>2. ~Waits(t)' /\ t \in tasks'
    BY <1>1, <2>1 DEF Waits, Frozen
  <2>3. ASSUME NEW a \in Call, Continue(th, <<a>>), a.op = "storeTask", a.task = d PROVE Course(t)'
    <3>1. a \in Bearers(t) /\ a.op # "addTask"
      BY <1>6, <2>3 DEF Bearers, Carriers, TokenOps
    <3>2. QED
      BY <1>1, <2>1, <2>2, <2>3, <3>1, HandsOn
  <2>4. ASSUME "saveError" \in Faults, NEW g \in Seq(Call), Continue(th, g),
               AtMostOne(g, Bearers(t)), ~Has(g, Cleans(t)), ~Has(g, Adds(t))
        PROVE  Course(t)'
    <3> HIDE DEF d, e
    <3>1. QED
      BY <1>1, <2>1, <2>2, <2>4, KnownMoves
  <2>5. ASSUME "saveError" \in Faults, NEW a \in Call, a.op = "send", Continue(th, <<a>>) PROVE Course(t)'
    <3> DEFINE g == <<a>>
    <3>1. a \notin Bearers(t) /\ a \notin Cleans(t) /\ a \notin Adds(t)
      BY <2>5, NotMine, MineParts DEF StrangeOps
    <3>2. g \in Seq(Call) /\ Continue(th, g)
          /\ AtMostOne(g, Bearers(t)) /\ ~Has(g, Cleans(t)) /\ ~Has(g, Adds(t))
      BY <2>5, <3>1, HasSingle
    <3> HIDE DEF g
    <3>3. QED
      BY <2>4, <2>5, <3>2
  <2>6. ASSUME "saveError" \in Faults, NEW a \in Call, a.op = "send", NEW b \in Call,
               Continue(th, <<a, b>>), b.op = "removeTask"
        PROVE  Course(t)'
    <3> DEFINE g == <<a, b>>
    <3>1. a \notin Bearers(t) /\ a \notin Cleans(t) /\ a \notin Adds(t)
          /\ b \notin Cleans(t) /\ b \notin Adds(t)
      BY <2>6, NotMine, MineParts DEF StrangeOps, Cleans, Adds, Busy, BusyOps
    <3>2. g \in Seq(Call) /\ Continue(th, g)
          /\ AtMostOne(g, Bearers(t)) /\ ~Has(g, Cleans(t)) /\ ~Has(g, Adds(t))
      BY <2>6, <3>1, HasPair
    <3> HIDE DEF g
    <3>3. QED
      BY <2>4, <2>6, <3>2
  <2>7. QED
    BY <1>5, <2>3, <2>5, <2>6
<1>7. CASE d # t
  <2>1. Top(th) \notin Mine(t) /\ Rests(t)
    BY <1>1, <1>4, <1>7, NotMine, SameRests
  <2>2. ASSUME NEW a \in Call, Continue(th, <<a>>), a.op = "send" \/ (a.op = "storeTask" /\ a.task = d)
        PROVE  Course(t)'
    <3>1. a \notin Mine(t)
      BY <1>7, <2>2, NotMine DEF StrangeOps
    <3>2. QED
      BY <1>1, <2>1, <2>2, <3>1, StillGoesOne, CourseAside
  <2>3. ASSUME NEW a \in Call, a.op = "send", NEW b \in Call,
               Continue(th, <<a, b>>), b.op = "removeTask", b.task = d
        PROVE  Course(t)'
    <3>1. a \notin Mine(t) /\ b \notin Mine(t)
      BY <1>7, <2>3, NotMine DEF StrangeOps
    <3>2. QED
      BY <1>1, <2>1, <2>3, <3>1, StillGoesTwo, CourseAside
  <2>4. QED
    BY <1>5, <2>2, <2>3
<1>8. QED
  BY <1>6, <1>7
-----------------------------------------------------------------------------
\* a handler that does not concern t begins
LEMMA CourseStarts ==
  ASSUME TypeInv, NEW t \in Task, Course(t), NEW th \in Thread, NEW g \in Seq(Call), Starts(th, g),
         ~Has(g, Mine(t)), Rests(t)
  PROVE  Course(t)'
BY StillStarts, CourseAside

LEMMA ConnectCourse ==
  ASSUME TypeInv, NEW t \in Task, Course(t), NEW th \in Worker, NEW e \in Exec, Connect(th, e)
  PROVE  Course(t)'
<1>1. UNCHANGED <<taskInQueue, freezer, execTasks, work, tasks, requests>> /\ th \in Thread
  BY ConnectSeen DEF qvars, svars, Thread
<1>2. PICK a \in Call : Starts(th, <<a>>) /\ a.op = "addExecutor"
  BY ConnectSeen
<1>3. <<a>> \in Seq(Call) /\ ~Has(<<a>>, Mine(t))
  BY <1>2, HasSingle, NotMine DEF StrangeOps
<1>4. QED
  BY <1>1, <1>2, <1>3, SameRests, CourseStarts

LEMMA PeriodicCourse ==
  ASSUME TypeInv, NEW t \in Task, Course(t), Periodic PROVE Course(t)'
<1>1. UNCHANGED <<taskInQueue, freezer, execTasks, work, tasks, requests>> /\ Scheduler \in Thread
  BY PeriodicSeen DEF qvars, svars, netvars, Thread
<1>2. PICK g \in Seq(Fills) : Starts(Scheduler, g)
  BY PeriodicSeen
<1>3. g \in Seq(Call) /\ ~Has(g, Mine(t))
  BY HasNoFill, FillsNotMine
<1>4. QED
  BY <1>1, <1>2, <1>3, SameRests, CourseStarts

\* an executor that answers for d works on everything else as before
LEMMA AnswerEndsOne ==
  ASSUME TypeInv, NEW t \in Task, NEW e \in Exec, NEW i \in 1 .. Len(work[e]),
         work' = [work EXCEPT ![e] = RemoveAt(@, i)], work[e][i].task # t, NEW c \in Exec
  PROVE  Working(t, c)' <=> Working(t, c)
<1>1. work \in [Exec -> Seq(WorkType)]
  BY DEF TypeInv, NetTypeOK
<1>2. CASE c = e
  <2>1. work'[c] = RemoveAt(work[c], i) /\ work[c] \in Seq(WorkType)
    BY <1>1, <1>2
  <2>2. /\ Has(RemoveAt(work[c], i), WorkOf(t)) => Has(work[c], WorkOf(t))
        /\ Has(work[c], WorkOf(t)) => Has(RemoveAt(work[c], i), WorkOf(t)) \/ work[c][i] \in WorkOf(t)
    BY <1>2, <2>1, HasRemoveAt
  <2>3. QED
    BY <1>2, <2>1, <2>2 DEF Working, WorkOf
<1>3. CASE c # e
  BY <1>1, <1>3 DEF Working
<1>4. QED
  BY <1>2, <1>3

LEMMA HandleReplyCourse ==
  ASSUME TypeInv, Trusty, NEW t \in Task, Course(t), Token(t), Work(t), Tidy,
         NEW th \in Worker, NEW e \in Exec, NEW kind \in Replies, HandleReply(th, e, kind)
  PROVE  Course(t)'
<1>1. /\ UNCHANGED <<taskInQueue, freezer, execTasks, tasks, transport, requests>> /\ th \in Thread
      /\ Open(e)
  BY HandleReplySeen DEF qvars, svars, Thread, Open
<1>2. PICK i \in 1 .. Len(work[e]) :
        /\ work' = [work EXCEPT ![e] = RemoveAt(@, i)]
        /\ Answered(th, e, work[e][i].task)
  BY HandleReplySeen
<1> DEFINE d == work[e][i].task
<1>3. PICK a \in Call :
        /\ Starts(th, <<a>>) /\ a.task = d
        /\ \/ a.op = "taskReceived" /\ a.exec = e
           \/ a.op = "removeTask"
  BY <1>2 DEF Answered, Trusty
<1>4. CASE d # t
  <2>1. <<a>> \in Seq(Call) /\ ~Has(<<a>>, Mine(t))
    BY <1>3, <1>4, HasSingle, NotMine
  <2>2. Rests(t)
    BY <1>1, <1>2, <1>4, AnswerEndsOne DEF Rests, Waits, Queued, Frozen, Held
  <2>3. QED
    BY <1>1, <1>3, <2>1, <2>2, CourseStarts
<1>5. CASE d = t
  <2>1. /\ Working(t, e)
        /\ AtMostOne(work[e], WorkOf(t)) => ~Working(t, e)'
        /\ Hushed(t)
    BY <1>1, <1>2, <1>5, AnswerEnds
  <2>2. t \in tasks /\ ~Somewhere(stack, Bearers(t)) /\ ~Waits(t) /\ ~Somewhere(stack, Cleans(t))
        /\ ~Somewhere(stack, Adds(t))
    BY <2>1, WorkedKnown DEF Worked, Course, Known, Asked
  <2>3. ~Worked(t)'
    BY <2>1 DEF Work, OneWorker, Worked, Hushed
  <2>4. a \in Bearers(t) /\ a \notin Cleans(t) /\ a \notin Adds(t)
        /\ (a \in Ends(t) \/ a \in Answers(t, e))
    BY <1>3, <1>5 DEF Bearers, Cleans, Adds, Ends, Answers, Busy, BusyOps
  <2>5. \A S : /\ Somewhere(stack', S) <=> Somewhere(stack, S) \/ a \in S
               /\ Sole(stack, S) /\ ~(a \in S /\ Somewhere(stack, S)) => Sole(stack', S)
    BY <1>1, <1>3, BeginsWith
  <2>6. /\ Somewhere(stack', Bearers(t)) /\ Sole(stack', Bearers(t))
        /\ ~Somewhere(stack', Cleans(t)) /\ ~Somewhere(stack', Adds(t))
        /\ Somewhere(stack', Ends(t)) \/ Somewhere(stack', Answers(t, e))
    BY <2>2, <2>4, <2>5, NoneIsSole
  <2>7. t \in tasks' /\ ~Waits(t)'
    BY <1>1, <2>2 DEF Waits, Queued, Frozen
  <2>8. Known(t)'
    BY <2>3, <2>6, <2>7 DEF Known
  <2>9. Credit(t)'
    <3>1. Held(t, e)
      BY <1>1, <2>1, <2>2 DEF Work, Credited
    <3>2. \A c \in Exec : Held(t, c)' => c = e
      BY <1>1, <3>1 DEF Held, Token, InOnePlace
    <3>3. QED
      BY <2>6, <2>7, <3>2 DEF Credit
  <2>10. QED
    BY <2>6, <2>7, <2>8, <2>9 DEF Course
<1>6. QED
  BY <1>4, <1>5

\* a task nobody asked for is asked for
\* RequestSeen without its existential quantifiers
LEMMA RequestBegins ==
  ASSUME TypeInv, NEW th \in Worker, NEW d \in Task, NEW kind \in Requests, Request(th, d, kind)
  PROVE  LET a == CallTask("addTask", d)
             b == CallTask("removeTask", d)
         IN  /\ a \in Call /\ a.op = "addTask" /\ a.task = d
             /\ b \in Call /\ b.op = "removeTask" /\ b.task = d
             /\ Starts(th, <<a>>) \/ Starts(th, <<b, a>>)
<1> DEFINE a == CallTask("addTask", d)
           b == CallTask("removeTask", d)
<1>1. /\ a \in Call /\ a.op = "addTask" /\ a.task = d
      /\ b \in Call /\ b.op = "removeTask" /\ b.task = d
  BY CallTaskIsCall, CallTaskFields
<1>2. Starts(th, <<a>>) \/ Starts(th, <<b, a>>)
  BY DEF Request, Start, Starts
<1>3. QED
  BY <1>1, <1>2

LEMMA RequestCourse ==
  ASSUME TypeInv, Once, NEW t \in Task, Course(t), Token(t),
         NEW th \in Worker, NEW d \in Task, NEW kind \in Requests, Request(th, d, kind)
  PROVE  Course(t)'
<1>1. /\ UNCHANGED <<taskInQueue, freezer, execTasks, work, tasks>> /\ th \in Thread
      /\ requests[d] < MaxRequests /\ requests' = [requests EXCEPT ![d] = @ + 1]
  BY RequestSeen DEF qvars, svars, netvars, Thread
<1>2. requests \in [Task -> Nat] /\ MaxRequests \in Nat
  BY DispatcherAssumption DEF TypeInv
<1>3. /\ t = d => requests[t] = 0 /\ requests'[t] # 0
      /\ t # d => requests'[t] = requests[t]
  BY <1>1, <1>2 DEF Once
<1>4. CASE t # d
  <2>1. PICK g \in Seq(Call) : Starts(th, g) /\ Asks(g, d)
    BY RequestAsks
  <2>2. ~Has(g, Mine(t))
    <3>1. ASSUME NEW i \in DOMAIN g PROVE g[i] \notin Mine(t)
      BY <1>4, <2>1 DEF Asks, Mine, Bearers, Carriers, Cleans
    <3>2. QED
      BY <3>1 DEF Has
  <2>3. Rests(t)
    BY <1>1, <1>3, <1>4 DEF Rests, Waits, Queued, Frozen, Working, Held
  <2>4. QED
    BY <1>1, <2>1, <2>2, <2>3, CourseStarts
<1>5. CASE t = d
  <2>1. t \notin tasks /\ ~Carried(t) /\ ~Placed(t) /\ ~Somewhere(stack, Cleans(t)) /\ requests[t] = 0
    BY <1>3, <1>5 DEF Token, Course
  <2>2. ~Somewhere(stack, Adds(t))
    BY <2>1, AddsCarry DEF Carried, Somewhere, Has
  <2>3. Gone(t)
    BY <2>1, <2>2 DEF Course
  <2>5. \A a \in Call : a.op = "addTask" /\ a.task = t =>
            /\ a \in Adds(t) /\ a \notin Cleans(t) /\ a \notin Ends(t)
            /\ a \notin Bearers(t) \ (Adds(t) \cup Ends(t))
    BY DEF Adds, Busy, BusyOps, Cleans, Ends
  <2>6. stack \in Stacks
    BY StackIsStacks
  <2>7. ~Somewhere(stack, Ends(t)) /\ ~Somewhere(stack, Bearers(t) \ (Adds(t) \cup Ends(t)))
    BY <2>3, MineParts DEF Gone, Somewhere, Has
  <2>8. t \notin tasks' /\ requests'[t] # 0
    BY <1>1, <1>3, <1>5, <2>1
  <2>9. Credit(t)'
    BY <1>1, <2>1 DEF Credit, Held, Placed
  <2>10. ASSUME NEW a \in Call, a.op = "addTask", a.task = d, Starts(th, <<a>>) PROVE Course(t)'
    <3>1. \A S : Somewhere(stack', S) <=> Somewhere(stack, S) \/ a \in S
      BY <1>1, <2>10, BeginsWith
    <3>2. /\ Somewhere(stack', Adds(t)) /\ ~Somewhere(stack', Cleans(t)) /\ ~Somewhere(stack', Ends(t))
          /\ ~Somewhere(stack', Bearers(t) \ (Adds(t) \cup Ends(t)))
      BY <1>5, <2>1, <2>5, <2>7, <2>10, <3>1
    <3>3. QED
      BY <2>8, <2>9, <3>2, NoneIsSole DEF Course, Asked
  <2>11. ASSUME NEW a \in Call, a.op = "addTask", a.task = d,
                NEW b \in Call, Starts(th, <<b, a>>), b.op = "removeTask", b.task = d
         PROVE  Course(t)'
    <3> DEFINE g == <<b, a>>
    <3>0. /\ a \in Adds(t) /\ a \notin Cleans(t) /\ a \notin Ends(t)
          /\ a \notin Bearers(t) \ (Adds(t) \cup Ends(t))
      BY <1>5, <2>5, <2>11
    <3>0a. stack[th] = <<>>
      BY <2>11 DEF Starts, Idle
    <3>1. b \in Ends(t) /\ b \notin Cleans(t) /\ b \notin Bearers(t) \ (Adds(t) \cup Ends(t))
      BY <1>5, <2>11 DEF Ends, Cleans
    <3>2. \A S : /\ Has(g, S) <=> b \in S \/ a \in S
                 /\ ~(b \in S /\ a \in S) => AtMostOne(g, S)
      BY HasPair
    <3>3. Follows(g, Ends(t), Adds(t))
      <4>1. 1 \in DOMAIN g /\ 2 \in DOMAIN g /\ 1 < 2 /\ g[1] = b /\ g[2] = a
        OBVIOUS
      <4>2. QED
        BY <3>0, <3>1, <4>1 DEF Follows
    <3>4. g \in Seq(Call) /\ stack' = [stack EXCEPT ![th] = g]
      BY <2>11 DEF Starts
    <3> HIDE DEF g
    <3>5. \A S : /\ Somewhere(stack', S) <=> Somewhere(stack, S) \/ Has(g, S)
                 /\ Sole(stack, S) /\ AtMostOne(g, S) /\ ~(Has(g, S) /\ Somewhere(stack, S))
                      => Sole(stack', S)
      BY <1>1, <2>6, <3>0a, <3>4, Begun
    <3>6. Behind(stack', Ends(t), Adds(t))
      BY <1>1, <2>6, <3>0a, <3>3, <3>4, BehindBegun
    <3>7. /\ Somewhere(stack', Adds(t)) /\ ~Somewhere(stack', Cleans(t))
          /\ ~Somewhere(stack', Bearers(t) \ (Adds(t) \cup Ends(t)))
      BY <2>1, <3>0, <2>7, <3>1, <3>2, <3>5
    <3>8. Sole(stack', Ends(t))
      BY <3>0, <2>7, <3>2, <3>5, NoneIsSole
    <3>9. QED
      BY <2>8, <2>9, <3>6, <3>7, <3>8 DEF Course, Asked
  <2>12. QED
    BY <2>10, <2>11, RequestBegins
<1>6. QED
  BY <1>4, <1>5

LEMMA ThreadStepCourse ==
  ASSUME TypeInv, Books, Tidy, Calm, Delivered, CourseInv, NEW t \in Task, Token(t), Work(t),
         NEW th \in Thread, ThreadStep(th)
  PROVE  Course(t)'
<1>1. Course(t)
  BY DEF CourseInv
<1>2. ASSUME Message(th) PROVE Course(t)'
  <2>1. Top(th).task \in Task
    BY <1>2, MessageSeen
  <2>2. QED
    BY <1>1, <1>2, <2>1, MessageCourse DEF CourseInv
<1>3. ~RemoveExecutor(th) /\ ~DropState(th) /\ ~Requeue(th) /\ ~DisconnectClient(th)
  BY NoRemoval DEF RemoveExecutor, DropState, Requeue, DisconnectClient
<1>4. QED
  BY <1>1, <1>2, <1>3, AddExecutorCourse, AnnounceTypesCourse, FreezeTaskCourse, UnfreezeTasksCourse,
     AddTaskCourse, DispatchTaskCourse, GetNextExecutorCourse, PushTaskStepCourse, RemoveTaskCourse,
     RemoveQueuedCourse, RemoveRunningCourse, RemoveFrozenCourse, FillLoopCourse, FillAllCourse,
     SendCourse, SendIfIdleCourse, HandOverCourse, TaskReceivedCourse, TaskReturnedCourse,
     StoreTaskCourse DEF ThreadStep

LEMMA NextCourse ==
  ASSUME TypeInv, Books, Tidy, Calm, Delivered, CourseInv, NEW t \in Task, Token(t), Work(t), [Next]_vars
  PROVE  Course(t)'
<1>1. Course(t)
  BY DEF CourseInv
<1>2. ASSUME NEW e \in Exec, Disconnect(e) PROVE Course(t)'
  BY <1>2, DisconnectSeen DEF Delivered, Connected
<1>3. ASSUME NEW th \in Worker, NEW e \in Exec, HandleDrop(th, e) PROVE Course(t)'
  BY <1>3, HandleDropSeen DEF Tidy, Net, Calm
<1>4. ASSUME NEW d \in Task, Ripen(d) PROVE Course(t)'
  <2>1. UNCHANGED <<taskInQueue, freezer, execTasks, work, tasks, requests, stack>>
    BY <1>4, RipenSeen DEF qvars, svars, netvars
  <2>2. QED
    BY <1>1, <2>1, SameRests, StillStays, CourseAside
<1>5. CASE UNCHANGED vars
  <2>1. UNCHANGED <<taskInQueue, freezer, execTasks, work, tasks, requests, stack>>
    BY <1>5 DEF vars, mindvars, qvars, svars, netvars
  <2>2. QED
    BY <1>1, <2>1, SameRests, StillStays, CourseAside
<1>6. CASE Next
  BY <1>1, <1>2, <1>3, <1>4, <1>6, ConnectCourse, HandleReplyCourse, RequestCourse, PeriodicCourse,
     ThreadStepCourse DEF Next, Delivered, Connected, Trusty
<1>7. QED
  BY <1>5, <1>6

LEMMA InitCourse == Init => CourseInv
<1> SUFFICES ASSUME Init, NEW t \in Task PROVE Course(t)
  BY DEF CourseInv
<1>1. \A S : ~Somewhere(stack, S)
  BY DEF Init, Somewhere, Has
<1>2. /\ t \notin tasks /\ requests[t] = 0 /\ taskInQueue[t] = NoType
      /\ freezer = <<>> /\ \A e \in Exec : execTasks[e] = {} /\ work[e] = <<>>
  BY DEF Init, QInit, SInit
<1>3. ~Waits(t) /\ ~Worked(t) /\ \A e \in Exec : ~Held(t, e)
  BY <1>2 DEF Waits, Queued, Frozen, ToSet, Worked, Working, Has, Held
<1>4. QED
  BY <1>1, <1>2, <1>3 DEF Course, Gone, Credit

LEMMA SpecCourse == ASSUME Delivered PROVE Spec => []CourseInv
<1>1. TypeInv /\ Books /\ (Tidy /\ MatchInv) /\ Calm /\ TokenInv /\ WorkInv /\ CourseInv /\ [Next]_vars
        => CourseInv'
  BY NextCourse DEF TokenInv, WorkInv, CourseInv
<1>2. (Spec => []TokenInv) /\ (Spec => [](Tidy /\ MatchInv)) /\ (Spec => []Calm) /\ (Spec => []WorkInv)
  BY SpecToken, SpecTidy, SpecCalm, SpecWork DEF Delivered, Connected, Trusty
<1>3. QED
  BY <1>1, <1>2, InitCourse, SpecBooks, SpecTypeInv, PTL DEF Spec

LEMMA KnownIsCaredFor ==
  ASSUME TypeInv, Tidy, Calm, CourseInv, WorkInv, "saveError" \notin Faults PROVE NoTaskLost
<1> SUFFICES ASSUME AtRest, NEW t \in tasks PROVE CaredFor(t)
  BY DEF NoTaskLost
<1>1. t \in Task /\ Course(t) /\ Work(t)
  BY DEF TypeInv, MindTypeOK, CourseInv, WorkInv
<1>2. ~Somewhere(stack, Bearers(t))
  BY DEF AtRest, Idle, Somewhere, Has
<1>3. Waits(t) \/ Worked(t)
  BY <1>1, <1>2 DEF Course, Known
<1>4. ASSUME NEW e \in Exec, Working(t, e) PROVE CaredFor(t)
  <2>1. work[e] # <<>>
    BY <1>4 DEF Working, Has
  <2>2. e \in connected /\ Open(e)
    BY <2>1, ConnectedOpen DEF Calm
  <2>3. Held(t, e)
    BY <1>1, <1>4, <2>2 DEF Work, Credited
  <2>4. WorksOn(e, t)
    BY <1>4 DEF Working, Has, WorkOf, WorksOn
  <2>5. QED
    BY <2>2, <2>3, <2>4 DEF CaredFor, Held
<1>5. QED
  BY <1>3, <1>4 DEF Waits, Queued, Frozen, CaredFor, Worked

(***************************************************************************)
(* No task is lost: when no handler runs, every task the mind knows waits  *)
(* in a queue or in the freezer, or is worked on by an executor that the   *)
(* mind credits with it; whatever the dispatches of __dispatchTask, the    *)
(* sends of __sendTaskToExecutor, the answers of __taskReceived and the    *)
(* clean-ups of removeTask were in the middle of.  It needs that no        *)
(* connection breaks, no message is refused and no callback that saves a   *)
(* task fails: each of these loses tasks.                                  *)
(***************************************************************************)
THEOREM NoTaskIsLost == Delivered /\ "saveError" \notin Faults => (Spec => []NoTaskLost)
<1> SUFFICES ASSUME Delivered, "saveError" \notin Faults PROVE Spec => []NoTaskLost
  OBVIOUS
<1>1. TypeInv /\ (Tidy /\ MatchInv) /\ Calm /\ CourseInv /\ WorkInv => NoTaskLost
  BY KnownIsCaredFor
<1>2. (Spec => [](Tidy /\ MatchInv)) /\ (Spec => []Calm) /\ (Spec => []WorkInv)
  BY SpecTidy, SpecCalm, SpecWork DEF Delivered, Connected, Trusty
<1>3. QED
  BY <1>1, <1>2, SpecCourse, SpecTypeInv, PTL
-----------------------------------------------------------------------------
(***************************************************************************)
(* Who is woken up for the work that waits.  When a task waits for a type  *)
(* of a connected executor, the executor holds a task, or a call is still  *)
(* to look at the queues: one that serves this executor, or one that goes  *)
(* round the executors of the type.  A call that puts a task in the queue  *)
(* has such a call behind it on its stack.                                 *)
(***************************************************************************)
Nudges(e) == {f \in Call : /\ f.op \in {"send", "sendIfIdle", "handOver", "taskReturned", "storeTask"}
                           /\ f.exec = e}

Wakes(y) == {f \in Call : \/ f.op = "fillLoop" /\ f.type = y
                          \/ f.op \in {"unfreezeTasks", "send", "handOver", "message"} /\ f.loop = y}

Rouses(e, y) == Nudges(e) \cup Wakes(y)

Pushes(y) == {f \in Call : f.op = "pushTask" /\ f.type = y}

\* a fill loop that asks an executor that does not serve its type
Loopy == {f \in Call : f.op = "send" /\ f.loop # NoType /\ f.loop \notin TypesOf(f.exec)}

Holds(e) == \E t \in Task : Held(t, e)

Wake(e, y) ==
    e \in connected /\ y \in TypesOf(e) =>
        /\ e \in typeToId[y]
        /\ queues[y] # <<>> => Holds(e) \/ Somewhere(stack, Rouses(e, y))

WakeInv ==
    /\ \A y \in Type : typeToId[y] \subseteq connected
    /\ ~Somewhere(stack, Loopy)
    /\ \A th \in Thread, y \in Type : Trails(stack[th], Pushes(y), Wakes(y))
    /\ \A e \in Exec, y \in Type : Wake(e, y)

\* calls that put nothing in a queue and ask no executor for what it does not serve
Rash == {f \in Call : f.op = "pushTask" \/ f \in Loopy}

LEMMA RashParts ==
  ASSUME NEW g, ~Has(g, Rash), NEW y \in Type
  PROVE  ~Has(g, Loopy) /\ Trails(g, Pushes(y), Wakes(y))
BY DEF Rash, Has, Trails, Pushes, Loopy

LEMMA FillsNotRash == \A f \in Fills : f \in Call /\ f \notin Rash
BY DEF Fills, Rash, Loopy

\* a call goes on: who may be asleep afterwards was asleep before
LEMMA WakeGoes ==
  ASSUME TypeInv, WakeInv, NEW th \in Thread, stack[th] # <<>>, NEW g \in Seq(Call), Continue(th, g),
         connected' \subseteq Exec,
         \A y \in Type : typeToId'[y] \subseteq connected',
         ~Has(g, Loopy), \A y \in Type : Trails(g, Pushes(y), Wakes(y)),
         \A e \in connected', y \in Type : y \in TypesOf(e) =>
            /\ e \in typeToId'[y]
            /\ queues'[y] # <<>> =>
                 \/ Holds(e)'
                 \/ Has(g, Rouses(e, y))
                 \/ Somewhere(stack', Rouses(e, y))
                 \/ /\ e \in connected /\ queues[y] # <<>> /\ ~Holds(e)
                    /\ Top(th) \notin Rouses(e, y)
  PROVE  WakeInv'
<1>1. stack \in Stacks /\ stack' = Swap(stack, th, g) /\ Top(th) = Head(stack[th])
      /\ stack[th] \in Seq(Call)
  BY StackIsStacks DEF Continue, Swap, Top, Stacks
<1>2. ~Somewhere(stack', Loopy)
  BY GoesOn DEF WakeInv
<1>3. ASSUME NEW d \in Thread, NEW y \in Type PROVE Trails(stack'[d], Pushes(y), Wakes(y))
  <2>1. CASE d # th
    <3>1. stack'[d] = stack[d]
      BY <1>1, <2>1 DEF Stacks, Swap
    <3>2. QED
      BY <3>1 DEF WakeInv
  <2>2. CASE d = th
    <3> DEFINE r == Tail(stack[th])
    <3>1. stack'[d] = g \o r /\ r \in Seq(Call)
      BY <1>1, <2>2, HeadTailProperties DEF Stacks, Swap
    <3>2. Trails(r, Pushes(y), Wakes(y))
      BY <1>1, FollowsHeadTail DEF WakeInv
    <3> HIDE DEF r
    <3>3. QED
      BY <3>1, <3>2, FollowsConcat
  <2>3. QED
    BY <2>1, <2>2
<1>4. ASSUME NEW e \in connected', NEW y \in Type, y \in TypesOf(e), queues'[y] # <<>>, ~Holds(e)'
      PROVE  Somewhere(stack', Rouses(e, y))
  <2>1. CASE Has(g, Rouses(e, y))
    BY <1>1, <2>1, Replaced
  <2>2. CASE e \in connected /\ queues[y] # <<>> /\ ~Holds(e) /\ Top(th) \notin Rouses(e, y)
    <3>1. Somewhere(stack, Rouses(e, y))
      BY <1>4, <2>2 DEF WakeInv, Wake
    <3>2. QED
      BY <1>1, <2>2, <3>1, Replaced
  <2>3. QED
    BY <1>4, <2>1, <2>2
<1>5. ASSUME NEW e \in Exec, NEW y \in Type PROVE Wake(e, y)'
  BY <1>4 DEF Wake
<1>6. QED
  BY <1>2, <1>3, <1>5 DEF WakeInv

\* a call that puts nothing in a queue
LEMMA WakePasses ==
  ASSUME TypeInv, WakeInv, NEW th \in Thread, stack[th] # <<>>, NEW g \in Seq(Call), Continue(th, g),
         UNCHANGED <<connected, typeToId>>, ~Has(g, Rash),
         \A y \in Type : queues[y] = <<>> => queues'[y] = <<>>,
         \A e \in Exec, y \in Type :
            /\ Holds(e) => Holds(e)' \/ Has(g, Rouses(e, y)) \/ Somewhere(stack', Rouses(e, y))
            /\ e \in connected /\ y \in TypesOf(e) /\ queues'[y] # <<>> /\ Top(th) \in Rouses(e, y)
                 => Holds(e)' \/ Has(g, Rouses(e, y))
  PROVE  WakeInv'
<1>1. connected' \subseteq Exec /\ (\A y \in Type : typeToId'[y] \subseteq connected')
  BY DEF TypeInv, MindTypeOK, WakeInv
<1>2. ~Has(g, Loopy) /\ (\A y \in Type : Trails(g, Pushes(y), Wakes(y)))
  BY RashParts DEF Has, Rash
<1>3. ASSUME NEW e \in connected', NEW y \in Type, y \in TypesOf(e)
      PROVE  /\ e \in typeToId'[y]
             /\ queues'[y] # <<>> =>
                  \/ Holds(e)'
                  \/ Has(g, Rouses(e, y))
                  \/ Somewhere(stack', Rouses(e, y))
                  \/ /\ e \in connected /\ queues[y] # <<>> /\ ~Holds(e)
                     /\ Top(th) \notin Rouses(e, y)
  BY <1>1, <1>3 DEF WakeInv, Wake
<1>4. QED
  BY <1>1, <1>2, <1>3, WakeGoes

\* a call that looks after nobody
RouseOps == {"fillLoop", "unfreezeTasks", "send", "handOver", "message", "sendIfIdle",
             "taskReturned", "storeTask"}

LEMMA NoRouse == ASSUME NEW f, f.op \notin RouseOps, NEW e, NEW y PROVE f \notin Rouses(e, y)
BY DEF RouseOps, Rouses, Nudges, Wakes

LEMMA WakeQuiet ==
  ASSUME TypeInv, WakeInv, NEW th \in Thread, stack[th] # <<>>, NEW g \in Seq(Call), Continue(th, g),
         Top(th).op \notin RouseOps, UNCHANGED <<connected, typeToId, execTasks>>, ~Has(g, Rash),
         \A y \in Type : queues[y] = <<>> => queues'[y] = <<>>
  PROVE  WakeInv'
<1>1. \A e \in Exec, y \in Type : (Holds(e) <=> Holds(e)') /\ Top(th) \notin Rouses(e, y)
  BY NoRouse DEF Holds, Held
<1>2. QED
  BY <1>1, WakePasses

LEMMA WakeQuietFills ==
  ASSUME TypeInv, WakeInv, NEW th \in Thread, stack[th] # <<>>, NEW g \in Seq(Fills), Continue(th, g),
         Top(th).op \notin RouseOps, UNCHANGED <<connected, svars>>,
         \A y \in Type : queues[y] = <<>> => queues'[y] = <<>>
  PROVE  WakeInv'
<1>1. g \in Seq(Call) /\ ~Has(g, Rash)
  BY HasNoFill, FillsNotRash
<1>2. UNCHANGED <<connected, typeToId, execTasks>>
  BY DEF svars
<1>3. QED
  BY <1>1, <1>2, WakeQuiet

LEMMA NotRash ==
  ASSUME NEW f \in Call, f.op # "pushTask", f.op # "send" \/ f.loop = NoType PROVE f \notin Rash
BY DEF Rash, Loopy

LEMMA WakeQuietOne ==
  ASSUME TypeInv, WakeInv, NEW th \in Thread, stack[th] # <<>>, NEW a \in Call, Continue(th, <<a>>),
         a \notin Rash, Top(th).op \notin RouseOps, UNCHANGED <<connected, svars>>,
         \A y \in Type : queues[y] = <<>> => queues'[y] = <<>>
  PROVE  WakeInv'
<1> DEFINE g == <<a>>
<1>1. g \in Seq(Call) /\ Continue(th, g) /\ ~Has(g, Rash)
  BY HasSingle
<1>2. UNCHANGED <<connected, typeToId, execTasks>>
  BY DEF svars
<1> HIDE DEF g
<1>3. QED
  BY <1>1, <1>2, WakeQuiet
-----------------------------------------------------------------------------
(***************************************************************************)
(* An executor has no free slot only when it holds a task, and one of a    *)
(* type has the most free slots.                                           *)
(***************************************************************************)
LEMMA LeastOf ==
  ASSUME NEW I \in SUBSET Nat, I # {}
  PROVE  \E x \in I : \A y \in I : x <= y
<1> DEFINE R == OpToRel(<, Nat)
<1>1. \A x, y \in Nat : y < x => <<y, x>> \in R
  BY DEF OpToRel
<1>2. IsWellFoundedOn(R, Nat)
  BY NatLessThanWellFounded DEF R
<1> HIDE DEF R
<1>3. PICK x \in I : \A y \in I : <<y, x>> \notin R
  BY <1>2, WFMin
<1>4. \A y \in I : x \in Nat /\ y \in Nat /\ ~(y < x)
  BY <1>1, <1>3
<1>5. QED
  BY <1>4

LEMMA SlotCount ==
  ASSUME TypeInv, Books, Calm, NEW e \in connected
  PROVE  FreeSlots(e) \in Int /\ (FreeSlots(e) <= 0 => Holds(e))
<1>1. /\ e \in registered /\ e \in Exec /\ IsFiniteSet(execTasks[e]) /\ MaxTasks[e] \in Nat \ {0}
      /\ execTasks[e] \subseteq Task
  BY StateAssumption DEF Calm, Books, TypeInv, MindTypeOK, STypeOK
<1>2. FreeSlots(e) = MaxTasks[e] - Cardinality(execTasks[e])
  BY <1>1 DEF FreeSlots
<1>3. Cardinality(execTasks[e]) \in Nat /\ (Cardinality(execTasks[e]) = 0 <=> execTasks[e] = {})
  BY <1>1, FS_CardinalityType, FS_EmptySet
<1>4. FreeSlots(e) <= 0 => execTasks[e] # {}
  BY <1>1, <1>2, <1>3
<1>5. QED
  BY <1>1, <1>2, <1>3, <1>4 DEF Holds, Held

LEMMA NoIdle ==
  ASSUME TypeInv, Books, Calm, WakeInv, NEW y \in Type, IdleExecutors(y) = {}, NEW e \in typeToId[y]
  PROVE  Holds(e)
<1> DEFINE S == typeToId[y]
           Above(x) == {z \in S : FreeSlots(x) < FreeSlots(z)}
           I == {Cardinality(Above(x)) : x \in S}
<1>1. S \subseteq connected /\ IsFiniteSet(S) /\ e \in S
  BY FS_Subset DEF WakeInv, Books
<1>2. \A x \in S : FreeSlots(x) \in Int /\ (FreeSlots(x) <= 0 => Holds(x))
  BY <1>1, SlotCount
<1>3. \A x \in S : IsFiniteSet(Above(x)) /\ Cardinality(Above(x)) \in Nat
  BY <1>1, FS_Subset, FS_CardinalityType
<1>4. PICK x \in S : \A z \in S : Cardinality(Above(x)) <= Cardinality(Above(z))
  <2>1. I \in SUBSET Nat /\ I # {}
    BY <1>1, <1>3
  <2>2. PICK n \in I : \A m \in I : n <= m
    BY <2>1, LeastOf
  <2>3. PICK x \in S : n = Cardinality(Above(x))
    BY <2>2
  <2>4. ASSUME NEW z \in S PROVE Cardinality(Above(x)) <= Cardinality(Above(z))
    <3>1. Cardinality(Above(z)) \in I
      OBVIOUS
    <3> HIDE DEF I, Above
    <3>2. QED
      BY <2>2, <2>3, <3>1
  <2> HIDE DEF I, Above
  <2>5. QED
    BY <2>4
<1>5. Above(x) = {}
  <2> SUFFICES ASSUME NEW z \in Above(x) PROVE FALSE
    OBVIOUS
  <2>1. z \in S /\ FreeSlots(x) < FreeSlots(z) /\ FreeSlots(x) \in Int /\ FreeSlots(z) \in Int
    BY <1>2
  <2>2. Above(z) \in SUBSET Above(x) /\ z \notin Above(z)
    BY <1>2, <2>1
  <2>3. Cardinality(Above(z)) < Cardinality(Above(x))
    <3>1. /\ Cardinality(Above(z)) <= Cardinality(Above(x))
          /\ Cardinality(Above(x)) = Cardinality(Above(z)) => Above(x) = Above(z)
      BY <1>3, <2>2, FS_Subset
    <3>2. Above(x) # Above(z)
      BY <2>2
    <3> HIDE DEF Above
    <3>3. QED
      BY <1>3, <2>1, <3>1, <3>2
  <2> HIDE DEF Above
  <2>4. QED
    BY <1>3, <1>4, <2>1, <2>3
<1>6. \A z \in S : FreeSlots(z) <= FreeSlots(x)
  BY <1>2, <1>5
<1>7. ~(FreeSlots(x) > 0)
  BY <1>6 DEF IdleExecutors
<1>8. FreeSlots(e) <= 0
  BY <1>1, <1>2, <1>6, <1>7
<1>9. QED
  BY <1>1, <1>2, <1>8
-----------------------------------------------------------------------------
(***************************************************************************)
(* Every step keeps that.                                                  *)
(***************************************************************************)
LEMMA AddExecutorWake ==
  ASSUME TypeInv, WakeInv, NEW th \in Thread, AddExecutor(th) PROVE WakeInv'
<1> DEFINE e == Top(th).exec
<1>1. /\ stack[th] # <<>> /\ e \in Exec /\ UNCHANGED <<qvars, execTasks>>
      /\ Top(th).op \notin RouseOps
  BY AddExecutorSeen DEF At, RouseOps
<1>2. PICK g \in Seq(Fills) :
        /\ Continue(th, g)
        /\ \/ UNCHANGED <<typeToId, connected>>
           \/ /\ connected' = connected \cup {e}
              /\ StateAddExecutor(e)
              /\ \A y \in TypesOf(e) : \E j \in DOMAIN g : g[j].op = "unfreezeTasks" /\ g[j].loop = y
  BY AddExecutorSeen
<1>3. g \in Seq(Call) /\ ~Has(g, Rash)
  BY HasNoFill, FillsNotRash
<1>4. CASE UNCHANGED <<typeToId, connected>>
  BY <1>1, <1>2, <1>3, <1>4, WakeQuiet DEF qvars
<1>5. CASE /\ connected' = connected \cup {e}
           /\ StateAddExecutor(e)
           /\ \A y \in TypesOf(e) : \E j \in DOMAIN g : g[j].op = "unfreezeTasks" /\ g[j].loop = y
  <2>1. \A y \in Type : typeToId'[y] = IF y \in TypesOf(e) THEN typeToId[y] \cup {e} ELSE typeToId[y]
    BY <1>5 DEF StateAddExecutor
  <2>2. connected' \subseteq Exec /\ (\A y \in Type : typeToId'[y] \subseteq connected')
    BY <1>1, <1>5, <2>1 DEF WakeInv, TypeInv, MindTypeOK
  <2>3. ~Has(g, Loopy) /\ (\A y \in Type : Trails(g, Pushes(y), Wakes(y)))
    BY <1>3, RashParts DEF Has, Rash
  <2>4. ASSUME NEW y \in Type, y \in TypesOf(e) PROVE Has(g, Rouses(e, y))
    <3>1. PICK j \in DOMAIN g : g[j].op = "unfreezeTasks" /\ g[j].loop = y
      BY <1>5, <2>4
    <3>2. g[j] \in Call
      BY <1>3, LenProperties, ElementOfSeq
    <3>3. QED
      BY <3>1, <3>2 DEF Has, Rouses, Wakes
  <2>5. \A c \in Exec, y \in Type : (Holds(c) <=> Holds(c)') /\ Top(th) \notin Rouses(c, y)
    BY <1>1, NoRouse DEF Holds, Held
  <2>6. ASSUME NEW c \in connected', NEW y \in Type, y \in TypesOf(c)
        PROVE  /\ c \in typeToId'[y]
               /\ queues'[y] # <<>> =>
                    \/ Holds(c)'
                    \/ Has(g, Rouses(c, y))
                    \/ Somewhere(stack', Rouses(c, y))
                    \/ /\ c \in connected /\ queues[y] # <<>> /\ ~Holds(c)
                       /\ Top(th) \notin Rouses(c, y)
    <3>1. CASE c = e
      BY <2>1, <2>4, <2>6, <3>1
    <3>2. CASE c # e
      <4>1. c \in connected /\ c \in Exec
        BY <1>5, <2>2, <3>2
      <4>2. c \in typeToId[y]
        BY <2>6, <4>1 DEF WakeInv, Wake
      <4>3. QED
        BY <1>1, <2>1, <2>5, <4>1, <4>2 DEF qvars
    <3>3. QED
      BY <3>1, <3>2
  <2> HIDE DEF e
  <2>7. QED
    BY <1>1, <1>2, <1>3, <2>2, <2>3, <2>6, WakeGoes
<1>6. QED
  BY <1>2, <1>4, <1>5

LEMMA AnnounceTypesWake ==
  ASSUME TypeInv, WakeInv, NEW th \in Thread, AnnounceTypes(th) PROVE WakeInv'
<1>1. stack[th] # <<>> /\ Top(th).op \notin RouseOps /\ UNCHANGED <<qvars, svars, connected>>
  BY AnnounceTypesSeen DEF At, RouseOps
<1>2. PICK g \in Seq(Fills) : Continue(th, g)
  BY AnnounceTypesSeen
<1>3. QED
  BY <1>1, <1>2, WakeQuietFills DEF qvars

LEMMA FillAllWake ==
  ASSUME TypeInv, WakeInv, NEW th \in Thread, FillAll(th) PROVE WakeInv'
<1>1. stack[th] # <<>> /\ Top(th).op \notin RouseOps /\ UNCHANGED <<qvars, svars, connected>>
  BY FillAllSeen DEF At, RouseOps
<1>2. PICK g \in Seq(Fills) : Continue(th, g)
  BY FillAllSeen
<1>3. QED
  BY <1>1, <1>2, WakeQuietFills DEF qvars

LEMMA FreezeTaskWake ==
  ASSUME TypeInv, WakeInv, NEW th \in Thread, FreezeTask(th) PROVE WakeInv'
<1>1. stack[th] # <<>> /\ Top(th).op \notin RouseOps /\ UNCHANGED <<qvars, svars, connected>>
  BY FreezeTaskSeen DEF At, RouseOps
<1>2. CASE Continue(th, <<>>)
  BY <1>1, <1>2, NoFills, WakeQuietFills DEF qvars
<1>3. ASSUME NEW a \in Call, Continue(th, <<a>>), a.op = "removeTask" PROVE WakeInv'
  BY <1>1, <1>3, NotRash, WakeQuietOne DEF qvars
<1>4. QED
  BY <1>2, <1>3, FreezeTaskSeen

LEMMA AddTaskWake ==
  ASSUME TypeInv, WakeInv, NEW th \in Thread, AddTask(th) PROVE WakeInv'
<1>1. stack[th] # <<>> /\ Top(th).op \notin RouseOps /\ UNCHANGED <<qvars, svars, connected>>
  BY AddTaskSeen DEF At, RouseOps
<1>2. ASSUME NEW g \in Seq(Fills), Continue(th, g) PROVE WakeInv'
  BY <1>1, <1>2, WakeQuietFills DEF qvars
<1>3. ASSUME NEW a \in Call, Continue(th, <<a>>), a.op = "dispatchTask" PROVE WakeInv'
  BY <1>1, <1>3, NotRash, WakeQuietOne DEF qvars
<1>4. QED
  BY <1>2, <1>3, AddTaskSeen

LEMMA DispatchTaskWake ==
  ASSUME TypeInv, WakeInv, NEW th \in Thread, DispatchTask(th) PROVE WakeInv'
<1>1. stack[th] # <<>> /\ Top(th).op \notin RouseOps /\ UNCHANGED <<qvars, svars, connected>>
  BY DispatchTaskSeen DEF At, RouseOps
<1>2. CASE Continue(th, <<>>)
  BY <1>1, <1>2, NoFills, WakeQuietFills DEF qvars
<1>3. ASSUME NEW a \in Call, Continue(th, <<a>>), a.op = "getNextExecutor" PROVE WakeInv'
  BY <1>1, <1>3, NotRash, WakeQuietOne DEF qvars
<1>4. QED
  BY <1>2, <1>3, DispatchTaskSeen

LEMMA GetNextExecutorWake ==
  ASSUME TypeInv, WakeInv, NEW th \in Thread, GetNextExecutor(th) PROVE WakeInv'
<1>1. stack[th] # <<>> /\ Top(th).op \notin RouseOps /\ UNCHANGED <<qvars, svars, connected>>
  BY GetNextExecutorSeen DEF At, RouseOps
<1>2. ASSUME NEW a \in Call, Continue(th, <<a>>), a.op \in {"freezeTask", "removeTask"} PROVE WakeInv'
  BY <1>1, <1>2, NotRash, WakeQuietOne DEF qvars
<1>3. ASSUME NEW a \in Call, NEW b \in Call, Continue(th, <<a, b>>), a.op = "pushTask", b \in Fills,
             \/ b.op = "unfreezeTasks" /\ b.loop = a.type
             \/ b.op = "fillLoop" /\ b.type = a.type
      PROVE  WakeInv'
  <2> DEFINE g == <<a, b>>
  <2>1. g \in Seq(Call) /\ Continue(th, g)
    BY <1>3
  <2>2. ~Has(g, Loopy)
    BY <1>3, HasPair DEF Loopy, Fills
  <2>3. ASSUME NEW y \in Type PROVE Trails(g, Pushes(y), Wakes(y))
    <3>1. DOMAIN g = 1 .. 2 /\ g[1] = a /\ g[2] = b
      OBVIOUS
    <3>2. b \notin Pushes(y) /\ (a \in Pushes(y) => b \in Wakes(y))
      BY <1>3 DEF Pushes, Wakes, Fills
    <3> HIDE DEF g
    <3>3. QED
      BY <3>1, <3>2 DEF Trails
  <2> HIDE DEF g
  <2>4. connected' \subseteq Exec /\ (\A y \in Type : typeToId'[y] \subseteq connected')
    BY <1>1 DEF WakeInv, TypeInv, MindTypeOK, svars
  <2>5. \A c \in Exec, y \in Type : (Holds(c) <=> Holds(c)') /\ Top(th) \notin Rouses(c, y)
    BY <1>1, NoRouse DEF Holds, Held, svars
  <2>6. ASSUME NEW c \in connected', NEW y \in Type, y \in TypesOf(c)
        PROVE  /\ c \in typeToId'[y]
               /\ queues'[y] # <<>> =>
                    \/ Holds(c)'
                    \/ Has(g, Rouses(c, y))
                    \/ Somewhere(stack', Rouses(c, y))
                    \/ /\ c \in connected /\ queues[y] # <<>> /\ ~Holds(c)
                       /\ Top(th) \notin Rouses(c, y)
    BY <1>1, <2>4, <2>5, <2>6 DEF WakeInv, Wake, svars, qvars
  <2>7. QED
    BY <1>1, <2>1, <2>2, <2>3, <2>4, <2>6, WakeGoes
<1>4. QED
  BY <1>2, <1>3, GetNextExecutorSeen

LEMMA PushTaskStepWake ==
  ASSUME TypeInv, WakeInv, NEW th \in Thread, PushTaskStep(th) PROVE WakeInv'
<1>1. /\ stack[th] # <<>> /\ Top(th).op = "pushTask" /\ Top(th) \in Call /\ Top(th).type \in Type
      /\ UNCHANGED <<svars, connected>> /\ Continue(th, <<>>)
      /\ \A y \in Type : y # Top(th).type => queues'[y] = queues[y]
  BY PushTaskStepSeen, TopIsCall DEF At
<1>2. <<>> \in Seq(Call)
  OBVIOUS
<1>3. ~Has(<<>>, Loopy) /\ (\A y \in Type : Trails(<<>>, Pushes(y), Wakes(y)))
  BY HasNone DEF Trails
<1>4. connected' \subseteq Exec /\ (\A y \in Type : typeToId'[y] \subseteq connected')
  BY <1>1 DEF WakeInv, TypeInv, MindTypeOK, svars
<1>5. \A c \in Exec, y \in Type : (Holds(c) <=> Holds(c)') /\ Top(th) \notin Rouses(c, y)
  BY <1>1, NoRouse DEF Holds, Held, svars, RouseOps
<1>6. ASSUME NEW y \in Type, y = Top(th).type, NEW c \in Exec PROVE Somewhere(stack', Rouses(c, y))
  <2> DEFINE r == Tail(stack[th])
  <2>1. stack \in Stacks /\ stack[th] \in Seq(Call) /\ Top(th) = Head(stack[th])
    BY StackIsStacks DEF Stacks, Top
  <2>2. Head(stack[th]) \in Pushes(y) /\ Trails(stack[th], Pushes(y), Wakes(y))
    BY <1>1, <1>6, <2>1 DEF Pushes, WakeInv
  <2>3. Has(r, Wakes(y))
    BY <1>1, <2>1, <2>2, FollowsHeadTail
  <2>4. r \in Seq(Call) /\ stack'[th] = <<>> \o r
    BY <1>1, <2>1, HeadTailProperties DEF Continue, Stacks
  <2> HIDE DEF r
  <2>5. Has(<<>> \o r, Wakes(y))
    BY <1>2, <2>3, <2>4, HasConcat
  <2>6. Has(stack'[th], Rouses(c, y))
    BY <2>4, <2>5 DEF Has, Rouses
  <2>7. QED
    BY <2>6 DEF Somewhere
<1>7. ASSUME NEW c \in connected', NEW y \in Type, y \in TypesOf(c)
      PROVE  /\ c \in typeToId'[y]
             /\ queues'[y] # <<>> =>
                  \/ Holds(c)'
                  \/ Has(<<>>, Rouses(c, y))
                  \/ Somewhere(stack', Rouses(c, y))
                  \/ /\ c \in connected /\ queues[y] # <<>> /\ ~Holds(c)
                     /\ Top(th) \notin Rouses(c, y)
  BY <1>1, <1>4, <1>5, <1>6, <1>7 DEF WakeInv, Wake, svars
<1>8. QED
  BY <1>1, <1>2, <1>3, <1>4, <1>7, WakeGoes

LEMMA RemoveTaskWake ==
  ASSUME TypeInv, WakeInv, NEW th \in Thread, RemoveTask(th) PROVE WakeInv'
<1>1. stack[th] # <<>> /\ Top(th).op \notin RouseOps /\ UNCHANGED <<qvars, svars, connected>>
  BY RemoveTaskSeen DEF At, RouseOps
<1>2. CASE Continue(th, <<>>)
  BY <1>1, <1>2, NoFills, WakeQuietFills DEF qvars
<1>3. CASE CleanUp(th, Top(th).task)
  <2> DEFINE d == Top(th).task
  <2>1. PICK a, b, c \in Call, r \in Seq(Call) :
          /\ Continue(th, <<a, b, c>> \o r)
          /\ a.op = "removeQueued" /\ a.task = d
          /\ b.op = "removeRunning" /\ b.task = d
          /\ c.op = "removeFrozen" /\ c.task = d
          /\ \/ taskInExec[d] = NoExec /\ r = <<>>
             \/ \E x \in Call : r = <<x>> /\ x.op = "sendIfIdle" /\ x.exec = taskInExec[d]
    BY <1>3 DEF CleanUp
  <2> DEFINE k == <<a, b, c>>
             g == k \o r
  <2>2. a \notin Rash /\ b \notin Rash /\ c \notin Rash
    BY <2>1, NotRash
  <2>3. ~Has(r, Rash)
    BY <2>1, HasNone, HasSingle, NotRash
  <2>4. k \in Seq(Call) /\ ~Has(k, Rash)
    BY <2>2, HasTriple
  <2> HIDE DEF k
  <2>5. g \in Seq(Call) /\ ~Has(g, Rash)
    BY <2>3, <2>4, HasConcat
  <2>6. Continue(th, g)
    BY <2>1 DEF k
  <2> HIDE DEF g
  <2>7. QED
    BY <1>1, <2>5, <2>6, WakeQuiet DEF qvars, svars
<1>4. QED
  BY <1>2, <1>3, RemoveTaskSeen

LEMMA RemoveQueuedWake ==
  ASSUME TypeInv, WakeInv, NEW th \in Thread, RemoveQueued(th) PROVE WakeInv'
<1>1. /\ stack[th] # <<>> /\ Top(th).op \notin RouseOps /\ UNCHANGED <<svars, connected>>
      /\ Continue(th, <<>>) /\ \A y \in Type : queues[y] = <<>> => queues'[y] = <<>>
  BY RemoveQueuedSeen DEF At, RouseOps
<1>2. QED
  BY <1>1, NoFills, WakeQuietFills

LEMMA RemoveFrozenWake ==
  ASSUME TypeInv, WakeInv, NEW th \in Thread, RemoveFrozen(th) PROVE WakeInv'
<1>1. /\ stack[th] # <<>> /\ Top(th).op \notin RouseOps /\ UNCHANGED <<qvars, svars, connected>>
      /\ Continue(th, <<>>)
  BY RemoveFrozenSeen DEF At, RouseOps
<1>2. QED
  BY <1>1, NoFills, WakeQuietFills DEF qvars

\* an executor that loses a forgotten task is asked whether it is idle
LEMMA RemoveRunningWake ==
  ASSUME TypeInv, Books, Calm, CourseInv, WakeInv, NEW th \in Thread, RemoveRunning(th) PROVE WakeInv'
<1> DEFINE d == Top(th).task
           g == Again(Top(th).loop)
<1>1. /\ stack[th] # <<>> /\ Top(th) \in Call /\ Top(th).op = "removeRunning" /\ d \in Task
      /\ UNCHANGED <<qvars, connected, tasks>> /\ StateRemoveTask(d)
      /\ g \in Seq(Fills) /\ Continue(th, g)
  BY RemoveRunningSeen, TopIsCall, AgainFills DEF At
<1>2. UNCHANGED typeToId
  BY <1>1 DEF StateRemoveTask, StateRemoveTaskFrom, svars
<1>3. Top(th) \in Cleans(d) /\ Top(th) \in Undoes(d) /\ Top(th).op \notin RouseOps
  BY <1>1 DEF Cleans, Undoes, Busy, BusyOps, RouseOps
<1> HIDE DEF d, g
<1>4. g \in Seq(Call) /\ ~Has(g, Rash)
  BY <1>1, HasNoFill, FillsNotRash
<1>5. d \notin tasks /\ Course(d)
  BY <1>1, <1>3, CleanGone DEF CourseInv
<1>6. stack \in Stacks /\ stack' = Swap(stack, th, g) /\ Top(th) = Head(stack[th])
  BY <1>1, StackIsStacks DEF Continue, Swap, Top
<1>7. ASSUME NEW e \in Exec, NEW y \in Type, Holds(e)
      PROVE  Holds(e)' \/ Somewhere(stack', Rouses(e, y))
  <2>1. PICK t \in Task : Held(t, e)
    BY <1>7 DEF Holds
  <2>2. CASE t # d
    <3>1. Held(t, e)'
      <4>1. CASE taskInExec[d] = NoExec
        BY <1>1, <2>1, <4>1 DEF StateRemoveTask, svars, Held
      <4>2. CASE taskInExec[d] # NoExec
        <5>1. taskInExec[d] \in Exec /\ StateRemoveTaskFrom(taskInExec[d], d)
          BY <1>1, <4>2 DEF TypeInv, STypeOK, StateRemoveTask
        <5>2. QED
          BY <1>1, <2>1, <2>2, <5>1, LessHeld
      <4>3. QED
        BY <4>1, <4>2
    <3>2. QED
      BY <3>1 DEF Holds
  <2>3. CASE t = d
    <3>1. Behind(stack, Undoes(d), IdleChecks(e))
      BY <1>5, <2>1, <2>3 DEF Course, Credit
    <3>2. Somewhere(stack', IdleChecks(e))
      BY <1>1, <1>4, <1>6, <3>1, BehindReplaced
    <3>3. IdleChecks(e) \subseteq Rouses(e, y)
      BY DEF IdleChecks, Rouses, Nudges
    <3>4. QED
      BY <3>2, <3>3 DEF Somewhere, Has
  <2>4. QED
    BY <2>2, <2>3
<1>8. \A e \in Exec, y \in Type : Top(th) \notin Rouses(e, y)
  BY <1>3, NoRouse
<1>9. QED
  BY <1>1, <1>2, <1>4, <1>7, <1>8, WakePasses DEF qvars

\* a loop of the fill ends when every executor of the type holds tasks
LEMMA FillLoopWake ==
  ASSUME TypeInv, Books, Tidy, Calm, WakeInv, NEW th \in Thread, FillLoop(th) PROVE WakeInv'
<1> DEFINE y == Top(th).type
<1>1. /\ stack[th] # <<>> /\ Top(th) \in Call /\ Top(th).op = "fillLoop" /\ y \in Type
      /\ UNCHANGED <<qvars, svars, connected>>
  BY FillLoopSeen, TopIsCall DEF At
<1>2. \A e \in Exec, x \in Type : Top(th) \in Rouses(e, x) => x = y
  BY <1>1 DEF Rouses, Nudges, Wakes
<1>3. \A e \in Exec : Holds(e) <=> Holds(e)'
  BY <1>1 DEF Holds, Held, svars
<1>4. CASE IdleExecutors(y) = {} /\ Continue(th, <<>>)
  <2>1. <<>> \in Seq(Call) /\ ~Has(<<>>, Rash)
    BY HasNone
  <2>2. ASSUME NEW e \in connected, y \in TypesOf(e) PROVE Holds(e)
    <3>1. e \in typeToId[y]
      BY <1>1, <2>2 DEF WakeInv, Wake, TypeInv, MindTypeOK
    <3> HIDE DEF y
    <3>2. QED
      BY <1>1, <1>4, <3>1, NoIdle
  <2> HIDE DEF y
  <2>3. \A e \in Exec, x \in Type :
            /\ Holds(e) => Holds(e)' \/ Has(<<>>, Rouses(e, x)) \/ Somewhere(stack', Rouses(e, x))
            /\ e \in connected /\ x \in TypesOf(e) /\ queues'[x] # <<>> /\ Top(th) \in Rouses(e, x)
                 => Holds(e)' \/ Has(<<>>, Rouses(e, x))
    BY <1>2, <1>3, <2>2
  <2>4. UNCHANGED <<connected, typeToId>> /\ \A x \in Type : queues[x] = <<>> => queues'[x] = <<>>
    BY <1>1 DEF qvars, svars
  <2>5. QED
    BY <1>1, <1>4, <2>1, <2>3, <2>4, WakePasses
<1>5. ASSUME NEW c \in IdleExecutors(y), NEW a \in Call, Continue(th, <<a>>), c \in Exec,
             a.op = "send", a.exec = c, a.loop = y
      PROVE  WakeInv'
  <2> DEFINE g == <<a>>
  <2>1. c \in typeToId[y]
    BY <1>5 DEF IdleExecutors
  <2>2. a \notin Rash
    BY <1>1, <1>5, <2>1 DEF Rash, Loopy, Tidy, TypesServed
  <2>3. g \in Seq(Call) /\ ~Has(g, Rash) /\ Continue(th, g)
    BY <1>5, <2>2, HasSingle
  <2>4. \A e \in Exec : a \in Rouses(e, y)
    BY <1>5 DEF Rouses, Wakes
  <2>5. \A e \in Exec : Has(g, Rouses(e, y))
    BY <2>4, HasSingle
  <2>6. UNCHANGED <<connected, typeToId>> /\ \A x \in Type : queues[x] = <<>> => queues'[x] = <<>>
    BY <1>1 DEF qvars, svars
  <2> HIDE DEF g, y
  <2>7. QED
    BY <1>1, <1>2, <1>3, <2>3, <2>5, <2>6, WakePasses
<1>6. QED
  BY <1>4, <1>5, FillLoopSeen

\* a call that goes on for the same executors
LEMMA WakeHandsOn ==
  ASSUME TypeInv, WakeInv, NEW th \in Thread, stack[th] # <<>>, NEW g \in Seq(Call), Continue(th, g),
         UNCHANGED <<connected, svars>>, ~Has(g, Rash),
         \A y \in Type : queues[y] = <<>> => queues'[y] = <<>>,
         \A e \in Exec, y \in Type :
            e \in connected /\ y \in TypesOf(e) /\ queues'[y] # <<>> /\ Top(th) \in Rouses(e, y)
                 => Holds(e) \/ Has(g, Rouses(e, y))
  PROVE  WakeInv'
<1>1. \A e \in Exec : Holds(e) <=> Holds(e)'
  BY DEF Holds, Held, svars
<1>2. UNCHANGED <<connected, typeToId>>
  BY DEF svars
<1>3. QED
  BY <1>1, <1>2, WakePasses

\* a fill loop that goes on serves every executor of its type
LEMMA AgainRouses ==
  ASSUME NEW loop \in Type \cup {NoType}
  PROVE  /\ Again(loop) \in Seq(Call) /\ ~Has(Again(loop), Rash)
         /\ \A e \in Exec, y \in Type : loop = y => Has(Again(loop), Rouses(e, y))
<1>1. Again(loop) \in Seq(Call) /\ ~Has(Again(loop), Rash)
  BY AgainFills, HasNoFill, FillsNotRash
<1>2. ASSUME NEW e \in Exec, NEW y \in Type, loop = y PROVE Has(Again(loop), Rouses(e, y))
  <2>1. loop # NoType
    BY <1>2, IdAssumption
  <2>2. PICK a \in Fills : Again(loop) = <<a>> /\ a.op = "fillLoop" /\ a.type = loop
    BY <2>1, AgainFills
  <2>3. a \in Rouses(e, y)
    BY <1>2, <2>2 DEF Rouses, Wakes, Fills
  <2>4. QED
    BY <2>2, <2>3, HasSingle
<1>3. QED
  BY <1>1, <1>2

LEMMA UnfreezeTasksWake ==
  ASSUME TypeInv, WakeInv, NEW th \in Thread, UnfreezeTasks(th) PROVE WakeInv'
<1> DEFINE f == Top(th)
<1>1. /\ stack[th] # <<>> /\ f \in Call /\ f.op = "unfreezeTasks" /\ f.loop \in Type \cup {NoType}
      /\ UNCHANGED <<qvars, svars, connected>>
  BY UnfreezeTasksSeen, TopIsCall DEF At, FrameType
<1>2. \A e \in Exec, y \in Type : f \in Rouses(e, y) => f.loop = y
  BY <1>1 DEF Rouses, Nudges, Wakes
<1>3. CASE Continue(th, Again(f.loop))
  <2> DEFINE g == Again(f.loop)
  <2>1. /\ g \in Seq(Call) /\ ~Has(g, Rash) /\ Continue(th, g)
        /\ \A e \in Exec, y \in Type : f.loop = y => Has(g, Rouses(e, y))
    BY <1>1, <1>3, AgainRouses
  <2> HIDE DEF g
  <2>2. QED
    BY <1>1, <1>2, <2>1, WakeHandsOn DEF qvars
<1>4. ASSUME NEW a \in Call, Continue(th, <<a>>), a.op = "unfreezeTasks", a.loop = f.loop PROVE WakeInv'
  <2> DEFINE g == <<a>>
  <2>1. a \notin Rash /\ \A e \in Exec, y \in Type : f.loop = y => a \in Rouses(e, y)
    BY <1>4, NotRash DEF Rouses, Wakes
  <2>2. /\ g \in Seq(Call) /\ ~Has(g, Rash) /\ Continue(th, g)
        /\ \A e \in Exec, y \in Type : f.loop = y => Has(g, Rouses(e, y))
    BY <1>4, <2>1, HasSingle
  <2> HIDE DEF g
  <2>3. QED
    BY <1>1, <1>2, <2>2, WakeHandsOn DEF qvars
<1>5. ASSUME NEW a \in Call, Continue(th, <<a, f>>), a.op = "dispatchTask" PROVE WakeInv'
  <2> DEFINE g == <<a, f>>
  <2>1. a \notin Rash /\ f \notin Rash /\ \A e \in Exec, y \in Type : f.loop = y => f \in Rouses(e, y)
    BY <1>1, <1>5, NotRash DEF Rouses, Wakes
  <2>2. /\ g \in Seq(Call) /\ ~Has(g, Rash) /\ Continue(th, g)
        /\ \A e \in Exec, y \in Type : f.loop = y => Has(g, Rouses(e, y))
    BY <1>1, <1>5, <2>1, HasPair
  <2> HIDE DEF g
  <2>3. QED
    BY <1>1, <1>2, <2>2, WakeHandsOn DEF qvars
<1>6. CASE Continue(th, <<f>>)
  BY <1>1, <1>4, <1>6
<1> HIDE DEF f
<1>7. QED
  <2>1. \A a \in Fills : a \in Call
    BY DEF Fills
  <2>2. QED
    BY <1>3, <1>4, <1>5, <1>6, <2>1, UnfreezeTasksSeen DEF f

\* no call asks an executor for a type it does not serve
LEMMA TopNotLoopy ==
  ASSUME TypeInv, WakeInv, NEW th \in Thread, stack[th] # <<>> PROVE Top(th) \notin Loopy
BY TopSomewhere DEF WakeInv

LEMMA SendWake ==
  ASSUME TypeInv, WakeInv, NEW th \in Thread, Send(th) PROVE WakeInv'
<1> DEFINE f == Top(th)
<1>1. /\ stack[th] # <<>> /\ f \in Call /\ f.op = "send" /\ f.loop \in Type \cup {NoType} /\ f.exec \in Exec
      /\ UNCHANGED <<svars, connected>> /\ f \notin Loopy
  BY SendSeen, TopIsCall, TopNotLoopy DEF At
<1>2. \A e \in Exec, y \in Type : f \in Rouses(e, y) <=> (f.exec = e \/ f.loop = y)
  BY <1>1 DEF Rouses, Nudges, Wakes
<1>3. CASE f.exec \notin connected /\ UNCHANGED qvars /\ Continue(th, Again(f.loop))
  <2> DEFINE g == Again(f.loop)
  <2>1. /\ g \in Seq(Call) /\ ~Has(g, Rash) /\ Continue(th, g)
        /\ \A e \in Exec, y \in Type : f.loop = y => Has(g, Rouses(e, y))
    BY <1>1, <1>3, AgainRouses
  <2> HIDE DEF g, f
  <2>2. QED
    BY <1>1, <1>2, <1>3, <2>1, WakeHandsOn DEF qvars, f
<1>4. CASE /\ f.exec \in connected /\ UNCHANGED qvars
           /\ \A y \in TypesOf(f.exec) : queues[y] = <<>>
           /\ Continue(th, <<>>)
  <2>1. <<>> \in Seq(Call) /\ ~Has(<<>>, Rash)
    BY HasNone
  <2>2. ASSUME NEW e \in Exec, NEW y \in Type, y \in TypesOf(e), f \in Rouses(e, y) PROVE queues'[y] = <<>>
    <3>1. y \in TypesOf(f.exec)
      BY <1>1, <1>2, <2>2, IdAssumption DEF Loopy
    <3>2. QED
      BY <1>4, <3>1 DEF qvars
  <2> HIDE DEF f
  <2>3. QED
    BY <1>1, <1>4, <2>1, <2>2, WakeHandsOn DEF qvars, f
<1>5. ASSUME NEW y \in Type, Picked(th, f, y) PROVE WakeInv'
  <2>1. PICK a \in Call : /\ Continue(th, <<a>>)
                          /\ a.op = "handOver" /\ a.exec = f.exec /\ a.loop = f.loop
    BY <1>5 DEF Picked
  <2>2. \A x \in Type : queues[x] = <<>> => queues'[x] = <<>>
    BY <1>5 DEF Picked
  <2> DEFINE g == <<a>>
  <2>3. a \notin Rash /\ \A e \in Exec, x \in Type : f \in Rouses(e, x) => a \in Rouses(e, x)
    BY <1>2, <2>1, NotRash DEF Rouses, Nudges, Wakes
  <2>4. /\ g \in Seq(Call) /\ ~Has(g, Rash) /\ Continue(th, g)
        /\ \A e \in Exec, x \in Type : f \in Rouses(e, x) => Has(g, Rouses(e, x))
    BY <2>1, <2>3, HasSingle
  <2> HIDE DEF g, f
  <2>5. QED
    BY <1>1, <2>2, <2>4, WakeHandsOn DEF f
<1>6. QED
  BY <1>3, <1>4, <1>5, SendSeen

LEMMA SendIfIdleWake ==
  ASSUME TypeInv, Books, Calm, WakeInv, NEW th \in Thread, SendIfIdle(th) PROVE WakeInv'
<1> DEFINE f == Top(th)
<1>1. /\ stack[th] # <<>> /\ f \in Call /\ f.op = "sendIfIdle" /\ f.exec \in Exec
      /\ UNCHANGED <<qvars, svars, connected>>
  BY SendIfIdleSeen, TopIsCall DEF At
<1>2. \A e \in Exec, y \in Type : f \in Rouses(e, y) => f.exec = e
  BY <1>1 DEF Rouses, Nudges, Wakes
<1>3. CASE FreeSlots(f.exec) = 0 /\ Continue(th, <<>>)
  <2>1. <<>> \in Seq(Call) /\ ~Has(<<>>, Rash)
    BY HasNone
  <2> HIDE DEF f
  <2>2. f.exec \in connected => Holds(f.exec)
    BY <1>3, SlotCount
  <2>3. QED
    BY <1>1, <1>2, <1>3, <2>1, <2>2, WakeHandsOn DEF qvars, f
<1>4. ASSUME NEW a \in Call, Continue(th, <<a>>), a.op = "send", a.exec = f.exec, a.loop = NoType
      PROVE  WakeInv'
  <2> DEFINE g == <<a>>
  <2>1. a \notin Rash /\ \A y \in Type : a \in Rouses(f.exec, y)
    BY <1>4, NotRash DEF Rouses, Nudges
  <2>2. /\ g \in Seq(Call) /\ ~Has(g, Rash) /\ Continue(th, g)
        /\ \A y \in Type : Has(g, Rouses(f.exec, y))
    BY <1>4, <2>1, HasSingle
  <2> HIDE DEF g, f
  <2>3. QED
    BY <1>1, <1>2, <2>2, WakeHandsOn DEF qvars, f
<1>5. QED
  BY <1>3, <1>4, SendIfIdleSeen

LEMMA HandOverWake ==
  ASSUME TypeInv, Calm, WakeInv, NEW th \in Thread, HandOver(th) PROVE WakeInv'
<1> DEFINE f == Top(th)
<1>1. /\ stack[th] # <<>> /\ f \in Call /\ f.op = "handOver" /\ f.exec \in Exec /\ f.task \in Task
      /\ UNCHANGED <<qvars, connected, typeToId>> /\ StateAddTask(f.exec, f.task)
  BY HandOverSeen, TopIsCall DEF At, StateAddTask
<1>2. PICK a \in Call : /\ Continue(th, <<a>>)
                        /\ a.op = "message" /\ a.loop = f.loop
  BY HandOverSeen
<1>3. \A e \in Exec, y \in Type : f \in Rouses(e, y) => f.exec = e \/ f.loop = y
  BY <1>1 DEF Rouses, Nudges, Wakes
<1>4. \A e \in Exec : Holds(e) => Holds(e)'
  BY <1>1 DEF TypeInv, STypeOK, StateAddTask, Holds, Held
<1>5. ASSUME NEW e \in Exec, e = f.exec PROVE Holds(e)'
  <2>1. e \in registered
    BY <1>1, <1>5, TopNoStray DEF Strays, Calm
  <2>2. f.task \in execTasks'[e]
    BY <1>1, <1>5, <2>1 DEF TypeInv, STypeOK, StateAddTask
  <2>3. QED
    BY <1>1, <2>2 DEF Holds, Held
<1> DEFINE g == <<a>>
<1>6. a \notin Rash /\ \A e \in Exec, y \in Type : f.loop = y => a \in Rouses(e, y)
  BY <1>2, NotRash DEF Rouses, Wakes
<1>7. /\ g \in Seq(Call) /\ ~Has(g, Rash) /\ Continue(th, g)
      /\ \A e \in Exec, y \in Type : f.loop = y => Has(g, Rouses(e, y))
  BY <1>2, <1>6, HasSingle
<1> HIDE DEF g
<1>8. \A e \in Exec, y \in Type :
         /\ Holds(e) => Holds(e)' \/ Has(g, Rouses(e, y)) \/ Somewhere(stack', Rouses(e, y))
         /\ e \in connected /\ y \in TypesOf(e) /\ queues'[y] # <<>> /\ Top(th) \in Rouses(e, y)
              => Holds(e)' \/ Has(g, Rouses(e, y))
  BY <1>3, <1>4, <1>5, <1>7
<1> HIDE DEF f
<1>9. QED
  BY <1>1, <1>7, <1>8, WakePasses DEF qvars

LEMMA MessageWake ==
  ASSUME TypeInv, Once, CourseInv, WakeInv, NEW th \in Thread, Message(th) PROVE WakeInv'
<1> DEFINE f == Top(th)
           g == Again(f.loop)
<1>1. /\ stack[th] # <<>> /\ f \in Call /\ f.op = "message" /\ f.task \in Task
      /\ f.loop \in Type \cup {NoType} /\ UNCHANGED <<qvars, svars, connected>>
  BY MessageSeen, TopIsCall DEF At
<1>2. f.task \in tasks
  <2>1. f \in Bearers(f.task) /\ f \notin Adds(f.task) /\ f \notin Ends(f.task)
    BY <1>1 DEF Bearers, Adds, Ends
  <2>2. QED
    BY <1>1, <2>1, BearerKnown DEF CourseInv
<1>3. Continue(th, g)
  BY <1>2, MessageSeen DEF Once
<1>4. \A e \in Exec, y \in Type : f \in Rouses(e, y) => f.loop = y
  BY <1>1 DEF Rouses, Nudges, Wakes
<1>5. /\ g \in Seq(Call) /\ ~Has(g, Rash)
      /\ \A e \in Exec, y \in Type : f.loop = y => Has(g, Rouses(e, y))
  BY <1>1, AgainRouses
<1> HIDE DEF g
<1>6. QED
  BY <1>1, <1>3, <1>4, <1>5, WakeHandsOn DEF qvars

LEMMA TaskReceivedWake ==
  ASSUME TypeInv, WakeInv, NEW th \in Thread, TaskReceived(th) PROVE WakeInv'
<1> DEFINE d == Top(th).task
           c == Top(th).exec
<1>1. /\ stack[th] # <<>> /\ Top(th).op \notin RouseOps /\ c \in Exec /\ d \in Task
      /\ UNCHANGED <<qvars, connected>>
  BY TaskReceivedSeen DEF At, RouseOps
<1>2. CASE UNCHANGED svars /\ Continue(th, <<>>)
  BY <1>1, <1>2, NoFills, WakeQuietFills DEF qvars
<1>3. ASSUME NEW a \in Call, Continue(th, <<a>>), a.exec = c, StateRemoveTaskFrom(c, d),
             a.op \in {"taskReturned", "send"}, a.op = "send" => a.loop = NoType
      PROVE  WakeInv'
  <2> DEFINE g == <<a>>
  <2>1. a \notin Rash /\ \A y \in Type : a \in Rouses(c, y)
    BY <1>3, NotRash DEF Rouses, Nudges
  <2>2. /\ g \in Seq(Call) /\ ~Has(g, Rash) /\ Continue(th, g)
        /\ \A y \in Type : Has(g, Rouses(c, y))
    BY <1>3, <2>1, HasSingle
  <2>3. \A e \in Exec, y \in Type : Top(th) \notin Rouses(e, y)
    BY <1>1, NoRouse
  <2>4. UNCHANGED typeToId
    BY <1>3 DEF StateRemoveTaskFrom, svars
  <2> HIDE DEF g, c, d
  <2>5. \A e \in Exec : e # c /\ Holds(e) => Holds(e)'
    BY <1>1, <1>3, LessHeld DEF Holds
  <2>6. QED
    BY <1>1, <2>2, <2>3, <2>4, <2>5, WakePasses DEF qvars
<1>4. QED
  BY <1>2, <1>3, TaskReceivedSeen

LEMMA TaskReturnedWake ==
  ASSUME TypeInv, Tidy, Calm, WakeInv, NEW th \in Thread, TaskReturned(th) PROVE WakeInv'
<1> DEFINE f == Top(th)
<1>1. /\ stack[th] # <<>> /\ f \in Call /\ f.op = "taskReturned" /\ f.exec \in Exec
      /\ UNCHANGED <<qvars, svars, connected>>
  BY TaskReturnedSeen, TopIsCall DEF At
<1>2. f.exec \in connected /\ f.type \in TypesOf(f.exec)
  BY <1>1, TopNoStray, TopFits DEF Strays, Fit
<1>3. \A e \in Exec, y \in Type : f \in Rouses(e, y) => f.exec = e
  BY <1>1 DEF Rouses, Nudges, Wakes
<1>4. ASSUME NEW a \in Call, NEW r \in Seq(Call), Continue(th, <<a>> \o r), ~Has(r, Rash),
             a.exec = f.exec, a.op \in {"storeTask", "send"}, a.op = "send" => a.loop = NoType
      PROVE  WakeInv'
  <2> DEFINE k == <<a>>
             g == k \o r
  <2>1. a \notin Rash /\ \A y \in Type : a \in Rouses(f.exec, y)
    BY <1>4, NotRash DEF Rouses, Nudges
  <2>2. k \in Seq(Call) /\ ~Has(k, Rash) /\ \A y \in Type : Has(k, Rouses(f.exec, y))
    BY <2>1, HasSingle
  <2>3. Continue(th, g)
    BY <1>4
  <2> HIDE DEF k
  <2>4. g \in Seq(Call) /\ ~Has(g, Rash) /\ \A y \in Type : Has(g, Rouses(f.exec, y))
    BY <1>4, <2>2, HasConcat
  <2> HIDE DEF g, f
  <2>5. QED
    BY <1>1, <1>3, <2>3, <2>4, WakeHandsOn DEF qvars, f
<1>5. ASSUME NEW a \in Call, Continue(th, <<a>>), a.exec = f.exec, a.op = "storeTask" PROVE WakeInv'
  <2>1. <<>> \in Seq(Call) /\ ~Has(<<>>, Rash) /\ <<a>> \o <<>> = <<a>>
    BY HasNone, ConcatEmptySeq
  <2>2. QED
    BY <1>4, <1>5, <2>1
<1>6. ASSUME NEW a \in Call, NEW r \in Seq(Call), Continue(th, <<a>> \o r),
             a.exec = f.exec, a.op = "send", a.loop = NoType,
             r = <<>> \/ \E b \in Call : r = <<b>> /\ b.op = "removeTask" /\ b.task = f.task
      PROVE  WakeInv'
  <2>1. ~Has(r, Rash)
    BY <1>6, HasNone, HasSingle, NotRash
  <2>2. QED
    BY <1>4, <1>6, <2>1
<1>7. QED
  BY <1>2, <1>5, <1>6, TaskReturnedSeen

LEMMA StoreTaskWake ==
  ASSUME TypeInv, WakeInv, NEW th \in Thread, StoreTask(th) PROVE WakeInv'
<1> DEFINE f == Top(th)
<1>1. /\ stack[th] # <<>> /\ f \in Call /\ f.op = "storeTask" /\ f.exec \in Exec
      /\ UNCHANGED <<qvars, svars, connected>>
  BY StoreTaskSeen, TopIsCall DEF At
<1>2. PICK b \in Call :
        /\ b.op = "send" /\ b.exec = f.exec /\ b.loop = NoType
        /\ \/ Continue(th, <<b>>)
           \/ \E a \in Call : Continue(th, <<a, b>>) /\ a.op \in {"dispatchTask", "freezeTask"}
  BY StoreTaskSeen
<1>3. \A e \in Exec, y \in Type : f \in Rouses(e, y) => f.exec = e
  BY <1>1 DEF Rouses, Nudges, Wakes
<1>4. b \notin Rash /\ \A y \in Type : b \in Rouses(f.exec, y)
  BY <1>2, NotRash DEF Rouses, Nudges
<1>5. ASSUME NEW g \in Seq(Call), ~Has(g, Rash), Continue(th, g),
             \A y \in Type : Has(g, Rouses(f.exec, y))
      PROVE  WakeInv'
  BY <1>1, <1>3, <1>5, WakeHandsOn DEF qvars
<1>6. CASE Continue(th, <<b>>)
  <2> DEFINE g == <<b>>
  <2>1. g \in Seq(Call) /\ ~Has(g, Rash) /\ Continue(th, g) /\ \A y \in Type : Has(g, Rouses(f.exec, y))
    BY <1>4, <1>6, HasSingle
  <2> HIDE DEF g, f
  <2>2. QED
    BY <1>5, <2>1
<1>7. ASSUME NEW a \in Call, Continue(th, <<a, b>>), a.op \in {"dispatchTask", "freezeTask"}
      PROVE  WakeInv'
  <2> DEFINE g == <<a, b>>
  <2>1. a \notin Rash
    BY <1>7, NotRash
  <2>2. g \in Seq(Call) /\ ~Has(g, Rash) /\ Continue(th, g) /\ \A y \in Type : Has(g, Rouses(f.exec, y))
    BY <1>4, <1>7, <2>1, HasPair
  <2> HIDE DEF g, f
  <2>3. QED
    BY <1>5, <2>2
<1>8. QED
  BY <1>2, <1>6, <1>7

LEMMA ThreadStepWake ==
  ASSUME TypeInv, Books, Tidy, Calm, Once, CourseInv, WakeInv, NEW th \in Thread, ThreadStep(th)
  PROVE  WakeInv'
<1>1. ~RemoveExecutor(th) /\ ~DropState(th) /\ ~Requeue(th) /\ ~DisconnectClient(th)
  BY NoRemoval DEF RemoveExecutor, DropState, Requeue, DisconnectClient
<1>2. QED
  BY <1>1, AddExecutorWake, AnnounceTypesWake, FreezeTaskWake, UnfreezeTasksWake, AddTaskWake,
     DispatchTaskWake, GetNextExecutorWake, PushTaskStepWake, RemoveTaskWake, RemoveQueuedWake,
     RemoveRunningWake, RemoveFrozenWake, FillLoopWake, FillAllWake, SendWake, SendIfIdleWake,
     HandOverWake, MessageWake, TaskReceivedWake, TaskReturnedWake, StoreTaskWake DEF ThreadStep

\* a handler that begins puts nothing in a queue
LEMMA WakeStarts ==
  ASSUME TypeInv, WakeInv, NEW th \in Thread, NEW g \in Seq(Call), Starts(th, g),
         UNCHANGED <<qvars, svars, connected>>, ~Has(g, Rash)
  PROVE  WakeInv'
<1>1. stack \in Stacks /\ stack[th] = <<>> /\ stack' = [stack EXCEPT ![th] = g]
  BY StackIsStacks DEF Starts, Idle
<1>2. \A S : Somewhere(stack', S) <=> Somewhere(stack, S) \/ Has(g, S)
  BY <1>1, Begun
<1>3. \A y \in Type : ~Has(g, Loopy) /\ Trails(g, Pushes(y), Wakes(y))
  BY RashParts
<1>4. ~Has(g, Loopy)
  BY DEF Has, Rash
<1>5. \A d \in Thread : stack'[d] = IF d = th THEN g ELSE stack[d]
  BY <1>1 DEF Stacks
<1>6. \A d \in Thread, y \in Type : Trails(stack'[d], Pushes(y), Wakes(y))
  BY <1>3, <1>5 DEF WakeInv
<1>7. ASSUME NEW e \in Exec, NEW y \in Type PROVE Wake(e, y)'
  BY <1>2 DEF WakeInv, Wake, Holds, Held, qvars, svars
<1>8. QED
  BY <1>2, <1>4, <1>6, <1>7 DEF WakeInv, svars

LEMMA WakeStartsOne ==
  ASSUME TypeInv, WakeInv, NEW th \in Thread, UNCHANGED <<qvars, svars, connected>>,
         NEW a \in Call, Starts(th, <<a>>), a \notin Rash
  PROVE  WakeInv'
<1> DEFINE g == <<a>>
<1>1. g \in Seq(Call) /\ ~Has(g, Rash) /\ Starts(th, g)
  BY HasSingle
<1> HIDE DEF g
<1>2. QED
  BY <1>1, WakeStarts

LEMMA ConnectWake ==
  ASSUME TypeInv, WakeInv, NEW th \in Worker, NEW e \in Exec, Connect(th, e) PROVE WakeInv'
<1>1. UNCHANGED <<qvars, svars, connected>> /\ th \in Thread
  BY ConnectSeen DEF Thread
<1>2. PICK a \in Call : Starts(th, <<a>>) /\ a.op = "addExecutor"
  BY ConnectSeen
<1>3. a \notin Rash
  BY <1>2, NotRash
<1>4. QED
  BY <1>1, <1>2, <1>3, WakeStartsOne

LEMMA HandleReplyWake ==
  ASSUME TypeInv, Trusty, WakeInv, NEW th \in Worker, NEW e \in Exec, NEW kind \in Replies,
         HandleReply(th, e, kind)
  PROVE  WakeInv'
<1>1. UNCHANGED <<qvars, svars, connected>> /\ th \in Thread
  BY HandleReplySeen DEF Thread
<1>2. PICK i \in 1 .. Len(work[e]) : Answered(th, e, work[e][i].task)
  BY HandleReplySeen
<1>3. PICK a \in Call : Starts(th, <<a>>) /\ a.op \in {"taskReceived", "removeTask"}
  BY <1>2 DEF Answered, Trusty
<1>4. a \notin Rash
  BY <1>3, NotRash
<1>5. QED
  BY <1>1, <1>3, <1>4, WakeStartsOne

LEMMA RequestWake ==
  ASSUME TypeInv, WakeInv, NEW th \in Worker, NEW t \in Task, NEW kind \in Requests, Request(th, t, kind)
  PROVE  WakeInv'
<1>1. UNCHANGED <<qvars, svars, connected>> /\ th \in Thread
  BY RequestSeen DEF Thread
<1>2. ASSUME NEW a \in Call, Starts(th, <<a>>), a.op = "addTask" PROVE WakeInv'
  BY <1>1, <1>2, NotRash, WakeStartsOne
<1>3. ASSUME NEW a \in Call, NEW b \in Call, Starts(th, <<b, a>>), a.op = "addTask", b.op = "removeTask"
      PROVE  WakeInv'
  <2> DEFINE g == <<b, a>>
  <2>1. g \in Seq(Call) /\ Starts(th, g) /\ ~Has(g, Rash)
    BY <1>3, HasPair, NotRash
  <2> HIDE DEF g
  <2>2. QED
    BY <1>1, <2>1, WakeStarts
<1>4. QED
  BY <1>2, <1>3, RequestBegins

LEMMA PeriodicWake == ASSUME TypeInv, WakeInv, Periodic PROVE WakeInv'
<1>1. UNCHANGED <<qvars, svars, connected>> /\ Scheduler \in Thread
  BY PeriodicSeen DEF Thread
<1>2. PICK g \in Seq(Fills) : Starts(Scheduler, g)
  BY PeriodicSeen
<1>3. g \in Seq(Call) /\ ~Has(g, Rash)
  BY HasNoFill, FillsNotRash
<1>4. QED
  BY <1>1, <1>2, <1>3, WakeStarts

LEMMA WakeStays ==
  ASSUME WakeInv, UNCHANGED <<qvars, svars, connected, stack>> PROVE WakeInv'
BY DEF WakeInv, Wake, Holds, Held, qvars, svars

LEMMA NextWake ==
  ASSUME TypeInv, Books, Tidy, Calm, Delivered, CourseInv, WakeInv, [Next]_vars PROVE WakeInv'
<1>1. ASSUME NEW e \in Exec, Disconnect(e) PROVE WakeInv'
  BY <1>1, DisconnectSeen DEF Delivered, Connected
<1>2. ASSUME NEW th \in Worker, NEW e \in Exec, HandleDrop(th, e) PROVE WakeInv'
  BY <1>2, HandleDropSeen DEF Tidy, Net, Calm
<1>3. ASSUME NEW t \in Task, Ripen(t) PROVE WakeInv'
  BY <1>3, RipenSeen, WakeStays
<1>4. CASE UNCHANGED vars
  BY <1>4, WakeStays DEF vars, mindvars
<1>5. CASE Next
  BY <1>1, <1>2, <1>3, <1>5, ConnectWake, HandleReplyWake, RequestWake, PeriodicWake, ThreadStepWake
     DEF Next, Delivered, Connected, Trusty
<1>6. QED
  BY <1>4, <1>5

LEMMA InitWake == Init => WakeInv
<1> SUFFICES ASSUME Init PROVE WakeInv
  OBVIOUS
<1>1. ~Somewhere(stack, Loopy) /\ \A th \in Thread, y \in Type : Trails(stack[th], Pushes(y), Wakes(y))
  BY DEF Init, Somewhere, Has, Trails
<1>2. connected = {} /\ \A y \in Type : typeToId[y] = {}
  BY DEF Init, SInit
<1>3. QED
  BY <1>1, <1>2 DEF WakeInv, Wake

LEMMA SpecWake == ASSUME Delivered PROVE Spec => []WakeInv
<1>1. TypeInv /\ Books /\ (Tidy /\ MatchInv) /\ Calm /\ CourseInv /\ WakeInv /\ [Next]_vars => WakeInv'
  BY NextWake
<1>2. (Spec => [](Tidy /\ MatchInv)) /\ (Spec => []Calm)
  BY SpecTidy, SpecCalm DEF Delivered, Connected, Trusty
<1>3. QED
  BY <1>1, <1>2, InitWake, SpecBooks, SpecTypeInv, SpecCourse, PTL DEF Spec

LEMMA NobodySleeps ==
  ASSUME TypeInv, Tidy, Calm, CourseInv, WakeInv PROVE WorkConserving
<1> SUFFICES ASSUME AtRest, NEW e \in connected, work[e] = <<>>, NEW y \in TypesOf(e), queues[y] # <<>>
             PROVE  FALSE
  BY DEF WorkConserving
<1>1. e \in Exec /\ y \in Type
  <2>1. e \in Exec /\ ExecTypes[e] \in Seq(Type)
    BY StateAssumption DEF TypeInv, MindTypeOK
  <2>2. QED
    BY <2>1, LenProperties, ElementOfSeq DEF TypesOf
<1>2. \A S : ~Somewhere(stack, S)
  BY DEF AtRest, Idle, Somewhere, Has
<1>3. PICK t \in Task : Held(t, e)
  BY <1>1, <1>2 DEF WakeInv, Wake, Holds
<1>4. ~Behind(stack, Undoes(t), IdleChecks(e))
  BY DEF AtRest, Idle, Behind, Follows
<1>5. Working(t, e)
  BY <1>1, <1>2, <1>3, <1>4 DEF CourseInv, Course, Credit
<1>6. QED
  BY <1>5 DEF Working, Has

(***************************************************************************)
(* No executor is left idle with work waiting for it: when no handler runs *)
(* and a task waits for a type of a connected executor, the executor is    *)
(* working.  No wake-up falls between the fill loops of __fillExecutors,   *)
(* the sends of __sendTaskToExecutor that answer a returned task, and the  *)
(* removals of removeTask that free a slot, whatever their order; with any *)
(* failure of the callbacks that dispatch or save, but with no connection  *)
(* lost and no message refused.                                            *)
(***************************************************************************)
THEOREM WorkIsConserved == Delivered => (Spec => []WorkConserving)
<1> SUFFICES ASSUME Delivered PROVE Spec => []WorkConserving
  OBVIOUS
<1>1. TypeInv /\ (Tidy /\ MatchInv) /\ Calm /\ CourseInv /\ WakeInv => WorkConserving
  BY NobodySleeps
<1>2. (Spec => [](Tidy /\ MatchInv)) /\ (Spec => []Calm)
  BY SpecTidy, SpecCalm DEF Delivered, Connected, Trusty
<1>3. QED
  BY <1>1, <1>2, SpecTypeInv, SpecCourse, SpecWake, PTL

-----------------------------------------------------------------------------
(***************************************************************************)
(* The mind implements TaskService.  What the invariants above leave open  *)
(* is what happens to a task that is forgotten: the calls that are to take *)
(* it further, or to forget it, are one while the mind knows it, none of   *)
(* them is left when it does not, and until it is known no more than one   *)
(* removal is on its way, ahead of the call that adds it.  Retained leaves *)
(* out the answer TaskError, whose removeTask may forget a task that some  *)
(* executor has: TaskService forgets only tasks that nobody runs.          *)
(***************************************************************************)
Retained == Once /\ "TaskError" \notin Replies

Takers(t) == Carriers(t) \cup Ends(t)

Fate(t) ==
    /\ t \in tasks => /\ Sole(stack, Takers(t))
                      /\ ~Somewhere(stack, Adds(t))
                      /\ Somewhere(stack, Ends(t)) => ~Placed(t)
    /\ t \notin tasks => /\ ~Placed(t)
                         /\ etask[t].path = <<>>
                         /\ ~Somewhere(stack, Carriers(t) \ Adds(t))
    /\ Somewhere(stack, Adds(t)) => /\ Sole(stack, Ends(t))
                                    /\ Somewhere(stack, Ends(t)) => Behind(stack, Ends(t), Adds(t))
    /\ t \notin tasks /\ ~Somewhere(stack, Adds(t)) => ~Somewhere(stack, Ends(t))

FateInv == \A t \in Task : Fate(t)

(***************************************************************************)
(* A thread that handles an answer does nothing else, so that the          *)
(* exception of one handler loses the answer of no other.                  *)
(***************************************************************************)
Returns == {f \in Call : f.op \in {"taskReceived", "taskReturned", "storeTask"}}

Lone == \A th \in Thread : Has(stack[th], Returns) => Tail(stack[th]) = <<>>

\* the calls that bring t back as done
Returning(t) == {f \in Call : f.op \in {"taskReturned", "storeTask"} /\ f.task = t /\ f.flag}

(***************************************************************************)
(* The variables of TaskService, task by task.                             *)
(***************************************************************************)
Stage(t) ==
    IF \E e \in Exec : Held(t, e) THEN "running"
    ELSE IF Frozen(t) THEN "frozen"
    ELSE IF Somewhere(stack, Returning(t)) THEN "returned"
    ELSE IF t \in tasks THEN "waiting"
    ELSE "unknown"

RunnerOf(t) == IF \E e \in Exec : Held(t, e) THEN CHOOSE e \in Exec : Held(t, e) ELSE NoExec

StepsOf(t) == Len(etask[t].path)

Stay(t) == Stage(t)' = Stage(t) /\ RunnerOf(t)' = RunnerOf(t) /\ StepsOf(t)' = StepsOf(t)

Goes(t, from, to) == Stage(t) = from /\ Stage(t)' = to

Turn(t) ==
    \/ Stay(t)
    \/ /\ \/ Goes(t, "unknown", "waiting") \/ Goes(t, "waiting", "frozen")
          \/ Goes(t, "frozen", "waiting") \/ Goes(t, "returned", "waiting")
       /\ RunnerOf(t)' = RunnerOf(t) /\ StepsOf(t)' = StepsOf(t)
    \/ Goes(t, "waiting", "running") /\ RunnerOf(t)' \in Exec /\ StepsOf(t)' = StepsOf(t)
    \/ /\ Goes(t, "running", "returned") \/ Goes(t, "running", "waiting")
       /\ RunnerOf(t)' = NoExec /\ StepsOf(t)' = StepsOf(t)
    \/ Goes(t, "returned", "waiting") /\ RunnerOf(t)' = RunnerOf(t) /\ StepsOf(t)' = StepsOf(t) + 1
    \/ Goes(t, "waiting", "unknown") /\ RunnerOf(t)' = RunnerOf(t) /\ StepsOf(t)' = 0

LEMMA MapsMean ==
  ASSUME TypeInv, TypeInv'
  PROVE  /\ phase = [t \in Task |-> Stage(t)] /\ phase' = [t \in Task |-> Stage(t)']
         /\ runner = [t \in Task |-> RunnerOf(t)] /\ runner' = [t \in Task |-> RunnerOf(t)']
         /\ steps = [t \in Task |-> StepsOf(t)] /\ steps' = [t \in Task |-> StepsOf(t)']
<1>1. stack \in Stacks /\ stack' \in Stacks
  BY DEF TypeInv, Stacks
<1>2. ASSUME NEW q \in Stacks, NEW t \in Task
      PROVE  (\E th \in Thread : \E i \in DOMAIN q[th] :
                /\ q[th][i].op \in {"taskReturned", "storeTask"}
                /\ q[th][i].task = t /\ q[th][i].flag)
             <=> Somewhere(q, Returning(t))
  <2>1. ASSUME NEW th \in Thread, NEW i \in DOMAIN q[th] PROVE q[th][i] \in Call
    <3>1. q[th] \in Seq(Call)
      BY DEF Stacks
    <3>2. i \in 1 .. Len(q[th])
      BY <3>1, LenProperties
    <3>3. QED
      BY <3>1, <3>2, ElementOfSeq
  <2>2. QED
    BY <2>1 DEF Somewhere, Has, Returning
<1>3. \A t \in Task : /\ ComingBack(t) <=> Somewhere(stack, Returning(t))
                      /\ ComingBack(t)' <=> Somewhere(stack', Returning(t))
  BY <1>1, <1>2 DEF ComingBack
<1>4. /\ phase = [t \in Task |-> Stage(t)]
      /\ phase' = [t \in Task |-> Stage(t)']
  BY <1>3 DEF phase, Stage, Held, Frozen
<1>5. /\ runner = [t \in Task |-> RunnerOf(t)]
      /\ runner' = [t \in Task |-> RunnerOf(t)']
  BY DEF runner, RunnerOf, Held
<1>6. /\ steps = [t \in Task |-> StepsOf(t)]
      /\ steps' = [t \in Task |-> StepsOf(t)']
  BY DEF steps, StepsOf
<1>7. QED
  BY <1>4, <1>5, <1>6

\* one task makes a turn of its life
LEMMA OneTurns ==
  ASSUME TypeInv, TypeInv', NEW d \in Task, Turn(d), \A t \in Task : t # d => Stay(t)
  PROVE  [Service!Next]_(Service!svcvars)
<1>1. /\ phase = [t \in Task |-> Stage(t)] /\ phase' = [t \in Task |-> Stage(t)']
      /\ runner = [t \in Task |-> RunnerOf(t)] /\ runner' = [t \in Task |-> RunnerOf(t)']
      /\ steps = [t \in Task |-> StepsOf(t)] /\ steps' = [t \in Task |-> StepsOf(t)']
  BY MapsMean
<1>2. \A t \in Task : t # d => /\ Stage(t)' = Stage(t) /\ RunnerOf(t)' = RunnerOf(t)
                               /\ StepsOf(t)' = StepsOf(t)
  BY DEF Stay
<1>3. /\ phase' = [phase EXCEPT ![d] = Stage(d)']
      /\ runner' = [runner EXCEPT ![d] = RunnerOf(d)']
      /\ steps' = [steps EXCEPT ![d] = StepsOf(d)']
      /\ phase[d] = Stage(d) /\ runner[d] = RunnerOf(d) /\ steps[d] = StepsOf(d)
  <2>1. phase' = [phase EXCEPT ![d] = Stage(d)'] /\ phase[d] = Stage(d)
    BY <1>1, <1>2
  <2>2. runner' = [runner EXCEPT ![d] = RunnerOf(d)'] /\ runner[d] = RunnerOf(d)
    BY <1>1, <1>2
  <2>3. steps' = [steps EXCEPT ![d] = StepsOf(d)'] /\ steps[d] = StepsOf(d)
    BY <1>1, <1>2
  <2>4. QED
    BY <2>1, <2>2, <2>3
<1>4. /\ Stage(d)' = Stage(d) => phase' = phase
      /\ RunnerOf(d)' = RunnerOf(d) => runner' = runner
      /\ StepsOf(d)' = StepsOf(d) => steps' = steps
  <2>1. Stage(d)' = Stage(d) => phase' = phase
    BY <1>1, <1>2
  <2>2. RunnerOf(d)' = RunnerOf(d) => runner' = runner
    BY <1>1, <1>2
  <2>3. StepsOf(d)' = StepsOf(d) => steps' = steps
    BY <1>1, <1>2
  <2>4. QED
    BY <2>1, <2>2, <2>3
<1> HIDE DEF phase, runner, steps
<1>5. CASE Stay(d)
  BY <1>4, <1>5 DEF Stay, Service!svcvars
<1>6. CASE /\ \/ Goes(d, "unknown", "waiting") \/ Goes(d, "waiting", "frozen")
              \/ Goes(d, "frozen", "waiting") \/ Goes(d, "returned", "waiting")
           /\ RunnerOf(d)' = RunnerOf(d) /\ StepsOf(d)' = StepsOf(d)
  <2>1. Service!Add(d) \/ Service!Freeze(d) \/ Service!Thaw(d) \/ Service!Discard(d)
    BY <1>3, <1>4, <1>6 DEF Goes, Service!Add, Service!Freeze, Service!Thaw, Service!Discard, Service!Move
  <2>2. QED
    BY <2>1 DEF Service!Next
<1>7. CASE Goes(d, "waiting", "running") /\ RunnerOf(d)' \in Exec /\ StepsOf(d)' = StepsOf(d)
  <2>1. Service!Run(d, RunnerOf(d)')
    BY <1>3, <1>4, <1>7 DEF Goes, Service!Run, Service!Move
  <2>2. QED
    BY <1>7, <2>1 DEF Service!Next
<1>8. CASE /\ Goes(d, "running", "returned") \/ Goes(d, "running", "waiting")
           /\ RunnerOf(d)' = NoExec /\ StepsOf(d)' = StepsOf(d)
  <2>1. Service!Return(d) \/ Service!GiveBack(d)
    BY <1>3, <1>4, <1>8 DEF Goes, Service!Return, Service!GiveBack, Service!Move
  <2>2. QED
    BY <2>1 DEF Service!Next
<1>9. CASE Goes(d, "returned", "waiting") /\ RunnerOf(d)' = RunnerOf(d) /\ StepsOf(d)' = StepsOf(d) + 1
  <2>1. Service!Credit(d)
    BY <1>3, <1>4, <1>9 DEF Goes, Service!Credit, Service!Move
  <2>2. QED
    BY <2>1 DEF Service!Next
<1>10. CASE Goes(d, "waiting", "unknown") /\ RunnerOf(d)' = RunnerOf(d) /\ StepsOf(d)' = 0
  <2>1. Service!Forget(d)
    BY <1>3, <1>4, <1>10 DEF Goes, Service!Forget
  <2>2. QED
    BY <2>1 DEF Service!Next
<1>11. QED
  BY <1>5, <1>6, <1>7, <1>8, <1>9, <1>10 DEF Turn

(***************************************************************************)
(* Where t is, for the maps.                                               *)
(***************************************************************************)
LEMMA RunnerIs ==
  ASSUME NEW t \in Task, NEW e \in Exec
  PROVE  /\ InOnePlace(t) /\ Held(t, e) => RunnerOf(t) = e
         /\ InOnePlace(t)' /\ Held(t, e)' => RunnerOf(t)' = e
<1>1. InOnePlace(t) /\ Held(t, e) => RunnerOf(t) = e
  BY DEF InOnePlace, RunnerOf
<1>2. InOnePlace(t)' /\ Held(t, e)' => RunnerOf(t)' = e
  BY DEF InOnePlace, RunnerOf
<1>3. QED
  BY <1>1, <1>2

LEMMA RunnerIsNone ==
  ASSUME NEW t
  PROVE  /\ (\A e \in Exec : ~Held(t, e)) => RunnerOf(t) = NoExec
         /\ (\A e \in Exec : ~Held(t, e)') => RunnerOf(t)' = NoExec
BY DEF RunnerOf

\* what the stages are read from does not change
LEMMA Stays ==
  ASSUME NEW t \in Task, InOnePlace(t), InOnePlace(t)',
         \A e \in Exec : Held(t, e)' <=> Held(t, e), Frozen(t)' <=> Frozen(t),
         Somewhere(stack', Returning(t)) <=> Somewhere(stack, Returning(t)),
         t \in tasks' <=> t \in tasks, etask'[t].path = etask[t].path
  PROVE  Stay(t)
<1>1. Stage(t)' = Stage(t)
  BY DEF Stage
<1>2. StepsOf(t)' = StepsOf(t)
  BY DEF StepsOf
<1>3. CASE \E e \in Exec : Held(t, e)
  <2>1. PICK e \in Exec : Held(t, e)
    BY <1>3
  <2>2. RunnerOf(t) = e /\ RunnerOf(t)' = e
    BY <2>1, RunnerIs
  <2>3. QED
    BY <1>1, <1>2, <2>2 DEF Stay
<1>4. CASE \A e \in Exec : ~Held(t, e)
  <2>1. RunnerOf(t) = NoExec /\ RunnerOf(t)' = NoExec
    BY <1>4, RunnerIsNone
  <2>2. QED
    BY <1>1, <1>2, <2>1 DEF Stay
<1>5. QED
  BY <1>3, <1>4

(***************************************************************************)
(* The calls that take t further, or forget it, stay, and none is new.     *)
(***************************************************************************)
Unheard(t) ==
    \A S \in SUBSET Takers(t) :
        /\ Somewhere(stack', S) <=> Somewhere(stack, S)
        /\ Sole(stack, S) => Sole(stack', S)
        /\ \A T \in SUBSET Takers(t) : Behind(stack, S, T) => Behind(stack', S, T)

LEMMA TakerParts ==
  ASSUME NEW t
  PROVE  /\ Carriers(t) \in SUBSET Takers(t) /\ Ends(t) \in SUBSET Takers(t)
         /\ Adds(t) \in SUBSET Takers(t) /\ Returning(t) \in SUBSET Takers(t)
         /\ Carriers(t) \ Adds(t) \in SUBSET Takers(t) /\ Takers(t) \in SUBSET Call
         /\ Returning(t) \in SUBSET (Carriers(t) \ Adds(t))
         /\ Takers(t) \in SUBSET Takers(t)
BY DEF Takers, Carriers, TokenOps, Ends, Adds, Busy, BusyOps, Returning

LEMMA GoesUnheard ==
  ASSUME TypeInv, NEW t, NEW th \in Thread, stack[th] # <<>>, NEW g \in Seq(Call), Continue(th, g),
         Top(th) \notin Takers(t), ~Has(g, Takers(t))
  PROVE  Unheard(t)
<1>1. stack \in Stacks /\ stack' = Swap(stack, th, g) /\ Top(th) = Head(stack[th])
  BY StackIsStacks DEF Continue, Swap, Top
<1> SUFFICES ASSUME NEW S \in SUBSET Takers(t), NEW T \in SUBSET Takers(t)
             PROVE  /\ Somewhere(stack', S) <=> Somewhere(stack, S)
                    /\ Sole(stack, S) => Sole(stack', S)
                    /\ Behind(stack, S, T) => Behind(stack', S, T)
  BY DEF Unheard
<1>2. ~Has(g, S) /\ AtMostOne(g, S) /\ Top(th) \notin S
  BY DEF Has, AtMostOne
<1>3. /\ Somewhere(stack', S) => Somewhere(stack, S) \/ Has(g, S)
      /\ Somewhere(stack, S) => Somewhere(stack', S) \/ Head(stack[th]) \in S
      /\ Sole(stack, S) /\ AtMostOne(g, S) /\ (Has(g, S) => Head(stack[th]) \in S \/ ~Somewhere(stack, S))
           => Sole(stack', S)
  BY <1>1, Replaced
<1>4. Behind(stack, S, T) => Behind(stack', S, T) \/ Head(stack[th]) \in S
  BY <1>1, BehindReplaced
<1>5. QED
  BY <1>1, <1>2, <1>3, <1>4

LEMMA GoesUnheardOne ==
  ASSUME TypeInv, NEW t, NEW th \in Thread, stack[th] # <<>>, Top(th) \notin Takers(t),
         \/ Continue(th, <<>>)
         \/ \E a \in Call : Continue(th, <<a>>) /\ a \notin Takers(t)
  PROVE  Unheard(t)
<1>1. CASE Continue(th, <<>>)
  <2>1. <<>> \in Seq(Call) /\ ~Has(<<>>, Takers(t))
    BY HasNone
  <2>2. QED
    BY <1>1, <2>1, GoesUnheard
<1>2. ASSUME NEW a \in Call, Continue(th, <<a>>), a \notin Takers(t) PROVE Unheard(t)
  <2>1. <<a>> \in Seq(Call) /\ ~Has(<<a>>, Takers(t))
    BY <1>2, HasSingle
  <2>2. QED
    BY <1>2, <2>1, GoesUnheard
<1>3. QED
  BY <1>1, <1>2

LEMMA GoesUnheardTwo ==
  ASSUME TypeInv, NEW t, NEW th \in Thread, stack[th] # <<>>, Top(th) \notin Takers(t),
         NEW a \in Call, NEW b \in Call, Continue(th, <<a, b>>), a \notin Takers(t), b \notin Takers(t)
  PROVE  Unheard(t)
<1>1. <<a, b>> \in Seq(Call) /\ ~Has(<<a, b>>, Takers(t))
  BY HasPair
<1>2. QED
  BY <1>1, GoesUnheard

LEMMA FillsTakeNone == ASSUME NEW t PROVE \A f \in Fills : f \in Call /\ f \notin Takers(t)
BY DEF Fills, Takers, Ends, Carriers, TokenOps

LEMMA FillsUnheard ==
  ASSUME TypeInv, NEW t, NEW th \in Thread, stack[th] # <<>>, Top(th) \notin Takers(t),
         NEW g \in Seq(Fills), Continue(th, g)
  PROVE  Unheard(t)
<1>1. g \in Seq(Call) /\ ~Has(g, Takers(t))
  BY HasNoFill, FillsTakeNone
<1>2. QED
  BY <1>1, GoesUnheard

LEMMA StartsUnheard ==
  ASSUME TypeInv, NEW t, NEW th \in Thread, NEW g \in Seq(Call), Starts(th, g), ~Has(g, Takers(t))
  PROVE  Unheard(t)
<1>1. stack \in Stacks /\ stack' = [stack EXCEPT ![th] = g] /\ stack[th] = <<>>
  BY StackIsStacks DEF Starts, Idle
<1> SUFFICES ASSUME NEW S \in SUBSET Takers(t), NEW T \in SUBSET Takers(t)
             PROVE  /\ Somewhere(stack', S) <=> Somewhere(stack, S)
                    /\ Sole(stack, S) => Sole(stack', S)
                    /\ Behind(stack, S, T) => Behind(stack', S, T)
  BY DEF Unheard
<1>2. ~Has(g, S) /\ AtMostOne(g, S)
  BY DEF Has, AtMostOne
<1>3. /\ Somewhere(stack', S) <=> Somewhere(stack, S) \/ Has(g, S)
      /\ Sole(stack, S) /\ AtMostOne(g, S) /\ ~(Has(g, S) /\ Somewhere(stack, S)) => Sole(stack', S)
  BY <1>1, Begun
<1>4. Behind(stack, S, T) => Behind(stack', S, T)
  BY <1>1, BehindBegun
<1>5. QED
  BY <1>2, <1>3, <1>4

LEMMA StillUnheard == ASSUME NEW t, UNCHANGED stack PROVE Unheard(t)
BY DEF Unheard, Somewhere, Sole, Behind

\* t stays where it is
Apart(t) ==
    /\ \A e \in Exec : Held(t, e)' <=> Held(t, e)
    /\ Frozen(t)' <=> Frozen(t)
    /\ Queued(t)' => Queued(t)
    /\ t \in tasks' <=> t \in tasks
    /\ etask'[t].path = etask[t].path

(***************************************************************************)
(* What is shown of a step: t is accounted for, makes at most one turn of  *)
(* its life, and none unless it is the task d that the step is about.      *)
(***************************************************************************)
Serves(t, d) == Fate(t)' /\ Turn(t) /\ (t # d => Stay(t))

StepServes == \E d : \A t \in Task : Serves(t, d)

LEMMA Unmoved ==
  ASSUME NEW t \in Task, Fate(t), Unheard(t), Placed(t)' => Placed(t), t \in tasks' <=> t \in tasks,
         etask'[t].path = etask[t].path
  PROVE  Fate(t)' /\ (Somewhere(stack', Returning(t)) <=> Somewhere(stack, Returning(t)))
<1>1. /\ Somewhere(stack', Takers(t)) <=> Somewhere(stack, Takers(t))
      /\ Sole(stack, Takers(t)) => Sole(stack', Takers(t))
      /\ Somewhere(stack', Adds(t)) <=> Somewhere(stack, Adds(t))
      /\ Somewhere(stack', Ends(t)) <=> Somewhere(stack, Ends(t))
      /\ Sole(stack, Ends(t)) => Sole(stack', Ends(t))
      /\ Behind(stack, Ends(t), Adds(t)) => Behind(stack', Ends(t), Adds(t))
      /\ Somewhere(stack', Carriers(t) \ Adds(t)) <=> Somewhere(stack, Carriers(t) \ Adds(t))
      /\ Somewhere(stack', Returning(t)) <=> Somewhere(stack, Returning(t))
  <2> USE TakerParts DEF Unheard
  <2>1. /\ Somewhere(stack', Takers(t)) <=> Somewhere(stack, Takers(t))
        /\ Sole(stack, Takers(t)) => Sole(stack', Takers(t))
    OBVIOUS
  <2>2. Somewhere(stack', Adds(t)) <=> Somewhere(stack, Adds(t))
    OBVIOUS
  <2>3. /\ Somewhere(stack', Ends(t)) <=> Somewhere(stack, Ends(t))
        /\ Sole(stack, Ends(t)) => Sole(stack', Ends(t))
        /\ Behind(stack, Ends(t), Adds(t)) => Behind(stack', Ends(t), Adds(t))
    OBVIOUS
  <2>4. Somewhere(stack', Carriers(t) \ Adds(t)) <=> Somewhere(stack, Carriers(t) \ Adds(t))
    OBVIOUS
  <2>5. Somewhere(stack', Returning(t)) <=> Somewhere(stack, Returning(t))
    OBVIOUS
  <2>6. QED
    BY <2>1, <2>2, <2>3, <2>4, <2>5
<1>2. Fate(t)'
  BY <1>1 DEF Fate
<1>3. QED
  BY <1>1, <1>2

LEMMA Aside ==
  ASSUME NEW t \in Task, Fate(t), InOnePlace(t), InOnePlace(t)', Unheard(t), Apart(t), NEW d
  PROVE  Serves(t, d)
<1>1. Placed(t)' => Placed(t)
  BY DEF Apart, Placed
<1>2. Fate(t)' /\ (Somewhere(stack', Returning(t)) <=> Somewhere(stack, Returning(t)))
  BY <1>1, Unmoved DEF Apart
<1>3. Stay(t)
  BY <1>2, Stays DEF Apart
<1>4. QED
  BY <1>2, <1>3 DEF Serves, Turn

\* the maps and the books are as they were
LEMMA SameApart ==
  ASSUME NEW t \in Task, UNCHANGED <<taskInQueue, freezer, execTasks, tasks>>, etask'[t].path = etask[t].path
  PROVE  Apart(t)
BY DEF Apart, Queued, Frozen, Held

(***************************************************************************)
(* The call on top takes t further, or no call is about it.                *)
(***************************************************************************)
LEMMA SoleTop ==
  ASSUME TypeInv, NEW th \in Thread, stack[th] # <<>>, NEW S, Sole(stack, S), Top(th) \in S,
         NEW T \in SUBSET S, Somewhere(stack, T)
  PROVE  Top(th) \in T
<1>1. stack[th] \in Seq(Call) /\ Top(th) = stack[th][1] /\ 1 \in DOMAIN stack[th]
  <2>1. stack[th] \in Seq(Call)
    BY StackIsStacks DEF Stacks
  <2>2. Top(th) = stack[th][1] /\ Len(stack[th]) \in Nat \ {0} /\ DOMAIN stack[th] = 1 .. Len(stack[th])
    BY <2>1, HeadTailProperties, LenProperties, EmptySeq DEF Top
  <2>3. QED
    BY <2>1, <2>2
<1>2. PICK d \in Thread : Has(stack[d], T)
  BY DEF Somewhere
<1>3. Has(stack[d], S) /\ Has(stack[th], S)
  BY <1>1, <1>2 DEF Has
<1>4. d = th
  BY <1>3 DEF Sole
<1>5. PICK i \in DOMAIN stack[th] : stack[th][i] \in T
  BY <1>2, <1>4 DEF Has
<1>6. i = 1
  BY <1>1, <1>5 DEF Sole, AtMostOne
<1>7. QED
  BY <1>1, <1>5, <1>6

LEMMA TakerMoves ==
  ASSUME TypeInv, NEW t \in Task, Fate(t), t \in tasks, t \in tasks',
         NEW th \in Thread, stack[th] # <<>>, NEW g \in Seq(Call), Continue(th, g),
         Top(th) \in Takers(t) \/ ~Somewhere(stack, Takers(t)),
         AtMostOne(g, Takers(t)), ~Has(g, Adds(t)), Has(g, Ends(t)) => ~Placed(t)'
  PROVE  /\ Fate(t)'
         /\ Somewhere(stack', Returning(t)) <=> Has(g, Returning(t))
         /\ Somewhere(stack, Returning(t)) <=> Top(th) \in Returning(t)
<1>1. stack \in Stacks /\ stack' = Swap(stack, th, g) /\ Top(th) = Head(stack[th])
  BY StackIsStacks DEF Continue, Swap, Top
<1>2. Sole(stack, Takers(t)) /\ ~Somewhere(stack, Adds(t))
  BY DEF Fate
<1>3. Sole(stack', Takers(t))
  <2>1. Sole(stack, Takers(t)) /\ AtMostOne(g, Takers(t))
           /\ (Has(g, Takers(t)) => Head(stack[th]) \in Takers(t) \/ ~Somewhere(stack, Takers(t)))
           => Sole(stack', Takers(t))
    BY <1>1, Replaced
  <2>2. QED
    BY <1>1, <1>2, <2>1
<1>4. ~Somewhere(stack', Adds(t))
  BY <1>2, GoesOn
<1>5. ASSUME NEW R \in SUBSET Takers(t)
      PROVE  /\ Somewhere(stack', R) <=> Has(g, R)
             /\ Somewhere(stack, R) <=> Top(th) \in R
  <2>1. /\ Somewhere(stack', R) => Somewhere(stack, R) \/ Has(g, R)
        /\ Has(g, R) => Somewhere(stack', R)
        /\ Head(stack[th]) \in R => Somewhere(stack, R)
    BY <1>1, Replaced
  <2>2. CASE Top(th) \in Takers(t)
    <3>1. Somewhere(stack', R) => Has(g, R)
      BY <1>1, <1>2, <2>2, OnlyNew
    <3>2. Somewhere(stack, R) => Top(th) \in R
      BY <1>2, <2>2, SoleTop
    <3>3. QED
      BY <1>1, <2>1, <3>1, <3>2
  <2>3. CASE ~Somewhere(stack, Takers(t))
    <3>1. ~Somewhere(stack, R)
      BY <2>3 DEF Somewhere, Has
    <3>2. QED
      BY <1>1, <2>1, <3>1
  <2>4. QED
    BY <2>2, <2>3
<1>6. /\ Somewhere(stack', Ends(t)) <=> Has(g, Ends(t))
      /\ Somewhere(stack', Returning(t)) <=> Has(g, Returning(t))
      /\ Somewhere(stack, Returning(t)) <=> Top(th) \in Returning(t)
  BY <1>5, TakerParts
<1>7. QED
  BY <1>3, <1>4, <1>6 DEF Fate

LEMMA CarrierKnown ==
  ASSUME TypeInv, NEW t \in Task, Fate(t), Token(t), NEW th \in Thread, stack[th] # <<>>,
         Top(th) \in Carriers(t) \ Adds(t)
  PROVE  t \in tasks /\ ~Placed(t) /\ Top(th) \in Takers(t) /\ \A e \in Exec : ~Held(t, e)
<1>1. Somewhere(stack, Carriers(t) \ Adds(t)) /\ Carried(t)
  BY TopSomewhere DEF Carried
<1>2. QED
  BY <1>1, TakerParts DEF Fate, Token, Placed

(***************************************************************************)
(* A call that takes t further is followed by others, and t lies with no   *)
(* executor and not in the freezer.                                        *)
(***************************************************************************)
LEMMA CarriesOn ==
  ASSUME TypeInv, NEW t \in Task, Fate(t), Token(t), NEW th \in Thread, stack[th] # <<>>,
         Top(th) \in Carriers(t) \ Adds(t), NEW g \in Seq(Call), Continue(th, g),
         AtMostOne(g, Takers(t)), ~Has(g, Adds(t)), Has(g, Ends(t)) => ~Queued(t)',
         t \in tasks' <=> t \in tasks, \A e \in Exec : ~Held(t, e)', ~Frozen(t)'
  PROVE  /\ Fate(t)'
         /\ RunnerOf(t) = NoExec /\ RunnerOf(t)' = NoExec
         /\ Stage(t) = IF Top(th) \in Returning(t) THEN "returned" ELSE "waiting"
         /\ Stage(t)' = IF Has(g, Returning(t)) THEN "returned" ELSE "waiting"
<1>1. t \in tasks /\ ~Placed(t) /\ Top(th) \in Takers(t) /\ \A e \in Exec : ~Held(t, e)
  BY CarrierKnown
<1>2. Has(g, Ends(t)) => ~Placed(t)'
  BY DEF Placed
<1>3. /\ Fate(t)'
      /\ Somewhere(stack', Returning(t)) <=> Has(g, Returning(t))
      /\ Somewhere(stack, Returning(t)) <=> Top(th) \in Returning(t)
  BY <1>1, <1>2, TakerMoves
<1>4. RunnerOf(t) = NoExec /\ RunnerOf(t)' = NoExec
  BY <1>1, RunnerIsNone
<1>5. Stage(t) = IF Top(th) \in Returning(t) THEN "returned" ELSE "waiting"
  BY <1>1, <1>3 DEF Stage, Placed
<1>6. Stage(t)' = IF Has(g, Returning(t)) THEN "returned" ELSE "waiting"
  BY <1>1, <1>3 DEF Stage
<1>7. QED
  BY <1>3, <1>4, <1>5, <1>6

LEMMA CarriesOnOne ==
  ASSUME TypeInv, NEW t \in Task, Fate(t), Token(t), NEW th \in Thread, stack[th] # <<>>,
         Top(th) \in Carriers(t) \ Adds(t),
         NEW a \in Call, Continue(th, <<a>>), a.op # "addTask", a \in Ends(t) => ~Queued(t)',
         t \in tasks' <=> t \in tasks, \A e \in Exec : ~Held(t, e)', ~Frozen(t)'
  PROVE  /\ Fate(t)'
         /\ RunnerOf(t) = NoExec /\ RunnerOf(t)' = NoExec
         /\ Stage(t) = IF Top(th) \in Returning(t) THEN "returned" ELSE "waiting"
         /\ Stage(t)' = IF a \in Returning(t) THEN "returned" ELSE "waiting"
<1> DEFINE g == <<a>>
<1>1. \A S : (Has(g, S) <=> a \in S) /\ AtMostOne(g, S)
  BY HasSingle
<1>2. g \in Seq(Call) /\ Continue(th, g) /\ a \notin Adds(t)
  BY DEF Adds
<1> HIDE DEF g
<1>3. AtMostOne(g, Takers(t)) /\ ~Has(g, Adds(t)) /\ (Has(g, Ends(t)) => ~Queued(t)')
  BY <1>1, <1>2
<1>4. Has(g, Returning(t)) <=> a \in Returning(t)
  BY <1>1
<1>5. QED
  BY <1>2, <1>3, <1>4, CarriesOn

LEMMA CarriesOnTwo ==
  ASSUME TypeInv, NEW t \in Task, Fate(t), Token(t), NEW th \in Thread, stack[th] # <<>>,
         Top(th) \in Carriers(t) \ Adds(t),
         NEW a \in Call, NEW b \in Call, Continue(th, <<a, b>>), a.op # "addTask", b.op # "addTask",
         a \notin Takers(t) \/ b \notin Takers(t), a \notin Ends(t), b \in Ends(t) => ~Queued(t)',
         t \in tasks' <=> t \in tasks, \A e \in Exec : ~Held(t, e)', ~Frozen(t)'
  PROVE  /\ Fate(t)'
         /\ RunnerOf(t) = NoExec /\ RunnerOf(t)' = NoExec
         /\ Stage(t) = IF Top(th) \in Returning(t) THEN "returned" ELSE "waiting"
         /\ Stage(t)' = IF a \in Returning(t) \/ b \in Returning(t) THEN "returned" ELSE "waiting"
<1> DEFINE g == <<a, b>>
<1>1. \A S : /\ Has(g, S) <=> a \in S \/ b \in S
             /\ ~(a \in S /\ b \in S) => AtMostOne(g, S)
  BY HasPair
<1>2. g \in Seq(Call) /\ Continue(th, g) /\ a \notin Adds(t) /\ b \notin Adds(t)
  BY DEF Adds
<1> HIDE DEF g
<1>3. AtMostOne(g, Takers(t)) /\ ~Has(g, Adds(t)) /\ (Has(g, Ends(t)) => ~Queued(t)')
  BY <1>1, <1>2
<1>4. Has(g, Returning(t)) <=> a \in Returning(t) \/ b \in Returning(t)
  BY <1>1
<1>5. QED
  BY <1>2, <1>3, <1>4, CarriesOn

LEMMA CarriesOnNone ==
  ASSUME TypeInv, NEW t \in Task, Fate(t), Token(t), NEW th \in Thread, stack[th] # <<>>,
         Top(th) \in Carriers(t) \ Adds(t), Continue(th, <<>>),
         t \in tasks' <=> t \in tasks, \A e \in Exec : ~Held(t, e)', ~Frozen(t)'
  PROVE  /\ Fate(t)'
         /\ RunnerOf(t) = NoExec /\ RunnerOf(t)' = NoExec
         /\ Stage(t) = IF Top(th) \in Returning(t) THEN "returned" ELSE "waiting"
         /\ Stage(t)' = "waiting"
<1>1. <<>> \in Seq(Call) /\ \A S : ~Has(<<>>, S) /\ AtMostOne(<<>>, S)
  BY HasNone
<1>2. QED
  BY <1>1, CarriesOn

\* a task of another name, or a call that is about none
LEMMA NotTaker ==
  ASSUME NEW t, NEW f \in Call, f.op # "requeue",
         f.op \notin TokenOps \cup {"removeTask"} \/ f.task # t
  PROVE  f \notin Takers(t)
BY DEF Takers, Ends, Carriers

(***************************************************************************)
(* The steps that are about no task.                                       *)
(***************************************************************************)
LEMMA AddExecutorAside ==
  ASSUME TypeInv, NEW t \in Task, Fate(t), InOnePlace(t), InOnePlace(t)', NEW th \in Thread,
         AddExecutor(th), NEW d
  PROVE  Serves(t, d)
<1>1. /\ stack[th] # <<>> /\ Top(th) \in Call /\ Top(th).op = "addExecutor"
      /\ UNCHANGED <<taskInQueue, freezer, execTasks, tasks, etask>>
  BY AddExecutorSeen, TopIsCall DEF At, qvars, netvars
<1>2. PICK g \in Seq(Fills) : Continue(th, g)
  BY AddExecutorSeen
<1>3. Top(th) \notin Takers(t)
  BY <1>1, NotTaker DEF TokenOps
<1>4. QED
  BY <1>1, <1>2, <1>3, FillsUnheard, SameApart, Aside

LEMMA AnnounceTypesAside ==
  ASSUME TypeInv, NEW t \in Task, Fate(t), InOnePlace(t), InOnePlace(t)', NEW th \in Thread,
         AnnounceTypes(th), NEW d
  PROVE  Serves(t, d)
<1>1. /\ stack[th] # <<>> /\ Top(th) \in Call /\ Top(th).op = "announceTypes"
      /\ UNCHANGED <<taskInQueue, freezer, execTasks, tasks, etask>>
  BY AnnounceTypesSeen, TopIsCall DEF At, qvars, svars, netvars
<1>2. PICK g \in Seq(Fills) : Continue(th, g)
  BY AnnounceTypesSeen
<1>3. Top(th) \notin Takers(t)
  BY <1>1, NotTaker DEF TokenOps
<1>4. QED
  BY <1>1, <1>2, <1>3, FillsUnheard, SameApart, Aside

LEMMA FillAllAside ==
  ASSUME TypeInv, NEW t \in Task, Fate(t), InOnePlace(t), InOnePlace(t)', NEW th \in Thread,
         FillAll(th), NEW d
  PROVE  Serves(t, d)
<1>1. /\ stack[th] # <<>> /\ Top(th) \in Call /\ Top(th).op = "fillAll"
      /\ UNCHANGED <<taskInQueue, freezer, execTasks, tasks, etask>>
  BY FillAllSeen, TopIsCall DEF At, qvars, svars, netvars
<1>2. PICK g \in Seq(Fills) : Continue(th, g)
  BY FillAllSeen
<1>3. Top(th) \notin Takers(t)
  BY <1>1, NotTaker DEF TokenOps
<1>4. QED
  BY <1>1, <1>2, <1>3, FillsUnheard, SameApart, Aside

LEMMA FillLoopAside ==
  ASSUME TypeInv, NEW t \in Task, Fate(t), InOnePlace(t), InOnePlace(t)', NEW th \in Thread,
         FillLoop(th), NEW d
  PROVE  Serves(t, d)
<1>1. /\ stack[th] # <<>> /\ Top(th) \in Call /\ Top(th).op = "fillLoop"
      /\ UNCHANGED <<taskInQueue, freezer, execTasks, tasks, etask>>
      /\ \/ Continue(th, <<>>)
         \/ \E a \in Call : Continue(th, <<a>>) /\ a.op = "send"
  BY FillLoopSeen, TopIsCall DEF At, qvars, svars, netvars
<1>2. /\ Top(th) \notin Takers(t)
      /\ \/ Continue(th, <<>>)
         \/ \E a \in Call : Continue(th, <<a>>) /\ a \notin Takers(t)
  BY <1>1, NotTaker DEF TokenOps
<1>3. QED
  BY <1>1, <1>2, GoesUnheardOne, SameApart, Aside

LEMMA SendIfIdleAside ==
  ASSUME TypeInv, NEW t \in Task, Fate(t), InOnePlace(t), InOnePlace(t)', NEW th \in Thread,
         SendIfIdle(th), NEW d
  PROVE  Serves(t, d)
<1>1. /\ stack[th] # <<>> /\ Top(th) \in Call /\ Top(th).op = "sendIfIdle"
      /\ UNCHANGED <<taskInQueue, freezer, execTasks, tasks, etask>>
      /\ \/ Continue(th, <<>>)
         \/ \E a \in Call : Continue(th, <<a>>) /\ a.op = "send"
  BY SendIfIdleSeen, TopIsCall DEF At, qvars, svars, netvars
<1>2. /\ Top(th) \notin Takers(t)
      /\ \/ Continue(th, <<>>)
         \/ \E a \in Call : Continue(th, <<a>>) /\ a \notin Takers(t)
  BY <1>1, NotTaker DEF TokenOps
<1>3. QED
  BY <1>1, <1>2, GoesUnheardOne, SameApart, Aside

LEMMA RemoveExecutorAside ==
  ASSUME TypeInv, NEW t \in Task, Fate(t), InOnePlace(t), InOnePlace(t)', NEW th \in Thread,
         RemoveExecutor(th), NEW d
  PROVE  Serves(t, d)
<1>1. /\ stack[th] # <<>> /\ Top(th) \in Call /\ Top(th).op = "removeExecutor"
      /\ UNCHANGED <<taskInQueue, freezer, execTasks, tasks, etask>>
      /\ \/ Continue(th, <<>>)
         \/ \E a \in Call : Continue(th, <<a>>) /\ a.op = "dropState"
  BY RemoveExecutorSeen, TopIsCall DEF At, qvars, svars, netvars
<1>2. /\ Top(th) \notin Takers(t)
      /\ \/ Continue(th, <<>>)
         \/ \E a \in Call : Continue(th, <<a>>) /\ a \notin Takers(t)
  BY <1>1, NotTaker DEF TokenOps
<1>3. QED
  BY <1>1, <1>2, GoesUnheardOne, SameApart, Aside

LEMMA DisconnectClientAside ==
  ASSUME TypeInv, NEW t \in Task, Fate(t), InOnePlace(t), InOnePlace(t)', NEW th \in Thread,
         DisconnectClient(th), NEW d
  PROVE  Serves(t, d)
<1>1. /\ stack[th] # <<>> /\ Top(th) \in Call /\ Top(th).op = "closeTransport"
      /\ UNCHANGED <<taskInQueue, freezer, execTasks, tasks, etask>>
      /\ Continue(th, <<>>)
  BY DisconnectClientSeen, TopIsCall DEF At, qvars, svars
<1>2. Top(th) \notin Takers(t)
  BY <1>1, NotTaker DEF TokenOps
<1>3. QED
  BY <1>1, <1>2, GoesUnheardOne, SameApart, Aside

LEMMA MessageAside ==
  ASSUME TypeInv, Once, NEW t \in Task, Fate(t), InOnePlace(t), InOnePlace(t)', NEW th \in Thread,
         Message(th), NEW d
  PROVE  Serves(t, d)
<1>1. /\ stack[th] # <<>> /\ Top(th) \in Call /\ Top(th).op = "message"
      /\ Top(th).loop \in Type \cup {NoType}
      /\ UNCHANGED <<taskInQueue, freezer, execTasks, tasks, etask>>
      /\ \/ Continue(th, Again(Top(th).loop))
         \/ \E a \in Call : Continue(th, <<a>>) /\ a.op = "removeRunning"
  BY MessageSeen, TopIsCall DEF At, qvars, svars, Once
<1>2. Top(th) \notin Takers(t)
  BY <1>1, NotTaker DEF TokenOps
<1>3. Unheard(t)
  <2>1. CASE Continue(th, Again(Top(th).loop))
    <3>1. Again(Top(th).loop) \in Seq(Fills)
      BY <1>1, AgainFills
    <3>2. QED
      BY <1>1, <1>2, <2>1, <3>1, FillsUnheard
  <2>2. CASE \E a \in Call : Continue(th, <<a>>) /\ a.op = "removeRunning"
    <3>1. \E a \in Call : Continue(th, <<a>>) /\ a \notin Takers(t)
      BY <2>2, NotTaker DEF TokenOps
    <3>2. QED
      BY <1>1, <1>2, <3>1, GoesUnheardOne
  <2>3. QED
    BY <1>1, <2>1, <2>2
<1>4. QED
  BY <1>1, <1>3, SameApart, Aside

LEMMA RemoveQueuedAside ==
  ASSUME TypeInv, NEW t \in Task, Fate(t), InOnePlace(t), InOnePlace(t)', NEW th \in Thread,
         RemoveQueued(th), NEW d
  PROVE  Serves(t, d)
<1>1. /\ stack[th] # <<>> /\ Top(th) \in Call /\ Top(th).op = "removeQueued"
      /\ UNCHANGED <<freezer, execTasks, tasks, etask>>
      /\ Continue(th, <<>>)
  BY RemoveQueuedSeen, TopIsCall DEF At, svars
<1>2. Top(th) \notin Takers(t)
  BY <1>1, NotTaker DEF TokenOps
<1>3. Queued(t)' => Queued(t)
  BY RemoveQueuedSeen DEF Queued
<1>4. Apart(t)
  BY <1>1, <1>3 DEF Apart, Frozen, Held
<1>5. QED
  BY <1>1, <1>2, <1>4, GoesUnheardOne, Aside

LEMMA ConnectAside ==
  ASSUME TypeInv, NEW t \in Task, Fate(t), InOnePlace(t), InOnePlace(t)', NEW th \in Worker,
         NEW e \in Exec, Connect(th, e) \/ HandleDrop(th, e), NEW d
  PROVE  Serves(t, d)
<1>1. /\ UNCHANGED <<taskInQueue, freezer, execTasks, tasks, etask>> /\ th \in Thread
      /\ \E a \in Call : Starts(th, <<a>>) /\ a.op \in {"addExecutor", "removeExecutor"}
  BY ConnectSeen, HandleDropSeen DEF qvars, svars, Thread
<1>2. PICK a \in Call : Starts(th, <<a>>) /\ a.op \in {"addExecutor", "removeExecutor"}
  BY <1>1
<1>3. a \notin Takers(t)
  BY <1>2, NotTaker DEF TokenOps
<1>4. <<a>> \in Seq(Call) /\ ~Has(<<a>>, Takers(t))
  BY <1>3, HasSingle
<1>5. QED
  BY <1>1, <1>2, <1>4, StartsUnheard, SameApart, Aside

LEMMA PeriodicAside ==
  ASSUME TypeInv, NEW t \in Task, Fate(t), InOnePlace(t), InOnePlace(t)', Periodic, NEW d
  PROVE  Serves(t, d)
<1>1. UNCHANGED <<taskInQueue, freezer, execTasks, tasks, etask>> /\ Scheduler \in Thread
  BY PeriodicSeen DEF qvars, svars, Thread
<1>2. PICK g \in Seq(Fills) : Starts(Scheduler, g)
  BY PeriodicSeen
<1>3. g \in Seq(Call) /\ ~Has(g, Takers(t))
  BY HasNoFill, FillsTakeNone
<1>4. QED
  BY <1>1, <1>2, <1>3, StartsUnheard, SameApart, Aside

LEMMA StandsAside ==
  ASSUME TypeInv, NEW t \in Task, Fate(t), InOnePlace(t), InOnePlace(t)', NEW d,
         \/ \E e \in Exec : Disconnect(e)
         \/ \E c \in Task : Ripen(c)
         \/ UNCHANGED vars
  PROVE  Serves(t, d)
<1>1. UNCHANGED <<taskInQueue, freezer, execTasks, tasks, stack>>
  BY DisconnectSeen, RipenSeen DEF qvars, svars, mindvars, vars
<1>2. etask'[t].path = etask[t].path
  <2>1. etask \in [Task -> ETaskType]
    BY DEF TypeInv, MindTypeOK
  <2>2. ASSUME NEW c \in Task, Ripen(c) PROVE etask'[t].path = etask[t].path
    BY <2>1, <2>2 DEF Ripen, ETaskType
  <2>3. ASSUME NEW e \in Exec, Disconnect(e) PROVE etask'[t].path = etask[t].path
    BY <2>3, DisconnectSeen
  <2>4. QED
    BY <2>2, <2>3 DEF vars, mindvars
<1>3. QED
  BY <1>1, <1>2, StillUnheard, SameApart, Aside

LEMMA HandleReplyAside ==
  ASSUME TypeInv, Retained, NEW t \in Task, Fate(t), InOnePlace(t), InOnePlace(t)',
         NEW th \in Worker, NEW e \in Exec, NEW kind \in Replies, HandleReply(th, e, kind), NEW d
  PROVE  Serves(t, d)
<1>1. UNCHANGED <<taskInQueue, freezer, execTasks, tasks, etask>> /\ th \in Thread
  BY HandleReplySeen DEF qvars, svars, Thread
<1>2. PICK i \in DOMAIN work[e] : Start(th, ReplyFrames(kind, e, work[e][i]))
  BY DEF HandleReply
<1>3. kind \in ReplyKinds \ {"TaskError"}
  BY DispatcherAssumption DEF Retained, ReplyKinds
<1> DEFINE w == work[e][i]
           a == [CallTask("taskReceived", w.task) EXCEPT !.exec = e, !.flag = (kind = "TaskDone")]
           b == CallExec("removeExecutor", e)
           c == CallExec("closeTransport", e)
<1>4. ReplyFrames(kind, e, w) \in {<<a>>, <<b, c>>}
  BY <1>3 DEF ReplyFrames, ReplyKinds
<1>5. ReplyFrames(kind, e, w) \in Seq(Call)
  <2>1. work[e] \in Seq(WorkType)
    BY DEF TypeInv, NetTypeOK
  <2>2. i \in 1 .. Len(work[e])
    BY <1>2, <2>1, LenProperties
  <2>3. w \in WorkType
    BY <2>1, <2>2, ElementOfSeq
  <2>4. QED
    BY <1>3, <2>3, ReplyFramesAreCalls
<1>6. a.op = "taskReceived" /\ b.op = "removeExecutor" /\ c.op = "closeTransport"
  BY TaskReceivedFields, CallExecFields
<1>7. a \notin Takers(t) /\ b \notin Takers(t) /\ c \notin Takers(t)
  BY <1>6 DEF Takers, Carriers, TokenOps, Ends
<1> HIDE DEF a, b, c
<1>8. ~Has(ReplyFrames(kind, e, w), Takers(t))
  BY <1>4, <1>7, HasSingle, HasPair
<1>9. Starts(th, ReplyFrames(kind, e, w))
  BY <1>2 DEF Start, Starts
<1>10. QED
  BY <1>1, <1>5, <1>8, <1>9, StartsUnheard, SameApart, Aside

(***************************************************************************)
(* An exception ends a handler.                                            *)
(***************************************************************************)
LEMMA BehindEnded ==
  ASSUME NEW q \in Stacks, NEW th \in Thread, NEW p, p = [q EXCEPT ![th] = <<>>], NEW S, NEW T,
         Behind(q, S, T)
  PROVE  Behind(p, S, T) \/ (Has(q[th], S) /\ Has(q[th], T))
<1>1. PICK c \in Thread : Follows(q[c], S, T)
  BY DEF Behind
<1>2. CASE c = th
  BY <1>1, <1>2, FollowsHas
<1>3. CASE c # th
  BY <1>1, <1>3 DEF Behind, Stacks
<1>4. QED
  BY <1>2, <1>3

LEMMA BehindHas ==
  ASSUME NEW q, NEW S, NEW T, Behind(q, S, T) PROVE Somewhere(q, S) /\ Somewhere(q, T)
BY FollowsHas DEF Behind, Somewhere

LEMMA DropsServe ==
  ASSUME TypeInv, NEW t \in Task, Fate(t), Token(t), InOnePlace(t)', NEW th \in Thread,
         stack' = [stack EXCEPT ![th] = <<>>],
         UNCHANGED <<taskInQueue, freezer, execTasks, tasks, etask>>
  PROVE  /\ Fate(t)'
         /\ ~Has(stack[th], Returning(t)) => Stay(t)
         /\ Has(stack[th], Returning(t)) =>
              /\ Goes(t, "returned", "waiting")
              /\ RunnerOf(t)' = RunnerOf(t) /\ StepsOf(t)' = StepsOf(t)
<1>1. stack \in Stacks
  BY StackIsStacks
<1>2. \A S : /\ Somewhere(stack', S) => Somewhere(stack, S)
             /\ Sole(stack, S) => Sole(stack', S)
             /\ Sole(stack, S) /\ Has(stack[th], S) => ~Somewhere(stack', S)
  BY <1>1, Ended
<1>3. Placed(t)' <=> Placed(t)
  BY DEF Placed, Queued, Frozen, Held
<1>4. Somewhere(stack, Adds(t)) /\ Somewhere(stack', Ends(t)) =>
        Behind(stack', Ends(t), Adds(t)) /\ Somewhere(stack', Adds(t))
  <2> SUFFICES ASSUME Somewhere(stack, Adds(t)), Somewhere(stack', Ends(t))
               PROVE  Behind(stack', Ends(t), Adds(t)) /\ Somewhere(stack', Adds(t))
    OBVIOUS
  <2>1. Sole(stack, Ends(t)) /\ Behind(stack, Ends(t), Adds(t))
    BY <1>2 DEF Fate
  <2>2. ~Has(stack[th], Ends(t))
    BY <1>2, <2>1
  <2>3. Behind(stack', Ends(t), Adds(t))
    BY <1>1, <2>1, <2>2, BehindEnded
  <2>4. QED
    BY <2>3, BehindHas
<1>5. Fate(t)'
  BY <1>2, <1>3, <1>4 DEF Fate
<1>6. ASSUME ~Has(stack[th], Returning(t)) PROVE Stay(t)
  <2>1. ASSUME Somewhere(stack, Returning(t)) PROVE Somewhere(stack', Returning(t))
    <3>1. PICK c \in Thread : Has(stack[c], Returning(t))
      BY <2>1 DEF Somewhere
    <3>2. stack'[c] = stack[c]
      BY <1>1, <1>6, <3>1 DEF Stacks
    <3>3. QED
      BY <3>1, <3>2 DEF Somewhere
  <2>2. Somewhere(stack', Returning(t)) <=> Somewhere(stack, Returning(t))
    BY <1>2, <2>1
  <2>3. QED
    BY <2>2, Stays DEF Token, Held, Frozen
<1>7. ASSUME Has(stack[th], Returning(t))
      PROVE  /\ Goes(t, "returned", "waiting")
             /\ RunnerOf(t)' = RunnerOf(t) /\ StepsOf(t)' = StepsOf(t)
  <2>1. Somewhere(stack, Returning(t))
    BY <1>7 DEF Somewhere
  <2>2. Carried(t) /\ Somewhere(stack, Carriers(t) \ Adds(t))
    BY <2>1, TakerParts DEF Carried, Somewhere, Has
  <2>3. t \in tasks /\ ~Placed(t)
    BY <2>2 DEF Fate, Token
  <2>4. ~Somewhere(stack', Returning(t))
    <3>1. Has(stack[th], Carriers(t)) /\ Sole(stack, Carriers(t))
      BY <1>7, TakerParts DEF Token, Has
    <3>2. ~Somewhere(stack', Carriers(t))
      BY <1>2, <3>1
    <3>3. QED
      BY <3>2, TakerParts DEF Somewhere, Has
  <2>5. ~Frozen(t) /\ \A e \in Exec : ~Held(t, e)
    BY <2>3 DEF Placed
  <2>6. ~Frozen(t)' /\ \A e \in Exec : ~Held(t, e)'
    BY <2>5 DEF Frozen, Held
  <2>7. RunnerOf(t)' = RunnerOf(t)
    BY <2>5, <2>6, RunnerIsNone
  <2>8. StepsOf(t)' = StepsOf(t)
    BY DEF StepsOf
  <2>9. Stage(t) = "returned"
    BY <2>1, <2>5 DEF Stage
  <2>10. Stage(t)' = "waiting"
    BY <2>3, <2>4, <2>6 DEF Stage
  <2>11. QED
    BY <2>7, <2>8, <2>9, <2>10 DEF Goes
<1>8. QED
  BY <1>5, <1>6, <1>7

LEMMA NoReturn ==
  ASSUME TypeInv, Lone, NEW th \in Thread, stack[th] # <<>>, Top(th) \notin Returns, NEW t
  PROVE  ~Has(stack[th], Returning(t))
<1>1. stack[th] \in Seq(Call)
  BY StackIsStacks DEF Stacks
<1>2. Has(stack[th], Returns) => Top(th) \in Returns \/ Has(Tail(stack[th]), Returns)
  BY <1>1, HasHeadTail DEF Top
<1>3. ~Has(stack[th], Returns)
  BY <1>2, HasNone DEF Lone
<1>4. QED
  BY <1>3 DEF Has, Returning, Returns

LEMMA DropsAside ==
  ASSUME TypeInv, Lone, NEW t \in Task, Fate(t), Token(t), InOnePlace(t)', NEW th \in Thread,
         stack[th] # <<>>, Top(th) \notin Returns, NEW e, Abort(th, e),
         UNCHANGED <<taskInQueue, freezer, execTasks, tasks, etask>>, NEW d
  PROVE  Serves(t, d)
<1>1. stack' = [stack EXCEPT ![th] = <<>>]
  BY DEF Abort
<1>2. ~Has(stack[th], Returning(t))
  BY NoReturn
<1>3. Fate(t)' /\ Stay(t)
  BY <1>1, <1>2, DropsServe
<1>4. QED
  BY <1>3 DEF Serves, Turn

LEMMA RequeueServes ==
  ASSUME TypeInv, Lone, NEW t \in Task, Fate(t), Token(t), InOnePlace(t)', NEW th \in Thread,
         Requeue(th), NEW d
  PROVE  Serves(t, d)
<1> DEFINE f == Top(th)
<1>1. /\ stack[th] # <<>> /\ f.op = "requeue" /\ f \in Call
      /\ UNCHANGED <<taskInQueue, freezer, execTasks, tasks, etask>>
  BY RequeueSeen, TopIsCall DEF At, qvars, svars
<1>2. CASE f.todo = {} /\ Continue(th, <<>>)
  <2>1. f \notin Takers(t)
    BY <1>1, <1>2 DEF Takers, Carriers, TokenOps, Ends
  <2>2. QED
    BY <1>1, <1>2, <2>1, GoesUnheardOne, SameApart, Aside DEF Token
<1>3. CASE Abort(th, f.exec)
  <2>1. f \notin Returns
    BY <1>1 DEF Returns
  <2>2. QED
    BY <1>1, <1>3, <2>1, DropsAside
<1>4. ASSUME NEW c \in f.todo, NEW a \in Call, NEW b \in Call, Continue(th, <<a, b>>),
             b.op = "requeue", b.todo = f.todo \ {c},
             a.task = c, a.op \in {"dispatchTask", "pushTask"}
      PROVE  Serves(t, d)
  <2>1. CASE t \in f.todo
    <3>1. f \in Carriers(t) \ Adds(t)
      BY <1>1, <2>1 DEF Carriers, Adds, Busy
    <3>2. t \in tasks /\ ~Placed(t) /\ \A e \in Exec : ~Held(t, e)
      BY <1>1, <3>1, CarrierKnown
    <3>3. (\A e \in Exec : ~Held(t, e)') /\ ~Frozen(t)' /\ (t \in tasks' <=> t \in tasks)
      BY <1>1, <3>2 DEF Held, Placed, Frozen
    <3>4. /\ a.op # "addTask" /\ b.op # "addTask" /\ a \notin Ends(t) /\ b \notin Ends(t)
          /\ a \notin Takers(t) \/ b \notin Takers(t)
          /\ a \notin Returning(t) /\ b \notin Returning(t) /\ f \notin Returning(t)
      BY <1>1, <1>4 DEF Ends, Takers, Carriers, TokenOps, Returning
    <3>5. /\ Fate(t)'
          /\ RunnerOf(t) = NoExec /\ RunnerOf(t)' = NoExec
          /\ Stage(t) = IF f \in Returning(t) THEN "returned" ELSE "waiting"
          /\ Stage(t)' = IF a \in Returning(t) \/ b \in Returning(t) THEN "returned" ELSE "waiting"
      BY <1>1, <1>4, <3>1, <3>3, <3>4, CarriesOnTwo
    <3>6. StepsOf(t)' = StepsOf(t)
      BY <1>1 DEF StepsOf
    <3>7. QED
      BY <3>4, <3>5, <3>6 DEF Serves, Turn, Stay
  <2>2. CASE t \notin f.todo
    <3>1. f \notin Takers(t) /\ a \notin Takers(t) /\ b \notin Takers(t)
      BY <1>1, <1>4, <2>2 DEF Takers, Carriers, TokenOps, Ends
    <3>2. QED
      BY <1>1, <1>4, <3>1, GoesUnheardTwo, SameApart, Aside DEF Token
  <2>3. QED
    BY <2>1, <2>2
<1>5. QED
  BY <1>2, <1>3, <1>4, RequeueSeen

(***************************************************************************)
(* An executor is dropped: all it held waits again, at once.               *)
(***************************************************************************)
Crashes(t, e) ==
    /\ Fate(t)'
    /\ StepsOf(t)' = StepsOf(t)
    /\ RunnerOf(t)' = IF RunnerOf(t) = e THEN NoExec ELSE RunnerOf(t)
    /\ Stage(t)' = IF RunnerOf(t) = e THEN "waiting" ELSE Stage(t)

StepCrashes == \E e \in Exec : \A t \in Task : Crashes(t, e)

LEMMA RunnerHolds ==
  ASSUME NEW t \in Task, NEW e \in Exec, InOnePlace(t), RunnerOf(t) = e PROVE Held(t, e)
<1>1. \E c \in Exec : Held(t, c)
  BY IdAssumption DEF RunnerOf
<1>2. QED
  BY <1>1, RunnerIs

LEMMA DropStateCrashes ==
  ASSUME TypeInv, NEW t \in Task, Fate(t), Token(t), InOnePlace(t)', NEW th \in Thread,
         NEW e \in Exec, stack[th] # <<>>, Top(th) \in Call, Top(th).op = "dropState",
         UNCHANGED <<taskInQueue, freezer, tasks, etask>>, StateRemoveExecutor(e),
         NEW a \in Call, NEW b \in Call, NEW r \in Seq(Fills), Continue(th, <<a, b>> \o r),
         a.op = "requeue", a.todo = execTasks[e], b.op = "closeTransport"
  PROVE  Crashes(t, e)
<1> DEFINE g == <<a, b>>
           S == Takers(t)
<1>1. \A c \in Exec : Held(t, c)' <=> Held(t, c) /\ c # e
  <2>1. execTasks' = [execTasks EXCEPT ![e] = {}]
    BY DEF StateRemoveExecutor
  <2>2. execTasks \in [Exec -> SUBSET Task]
    BY DEF TypeInv, STypeOK
  <2>3. QED
    BY <2>1, <2>2 DEF Held
<1>2. (a \in S <=> Held(t, e)) /\ b \notin S /\ Top(th) \notin S
  BY DEF Takers, Ends, Carriers, TokenOps, Held
<1>3. a \notin Adds(t) /\ a \notin Ends(t) /\ a \notin Returning(t)
      /\ b \notin Adds(t) /\ b \notin Ends(t) /\ b \notin Returning(t)
  BY DEF Adds, Busy, BusyOps, Ends, Returning
<1>4. r \in Seq(Call) /\ ~Has(r, S) /\ AtMostOne(r, S)
  BY HasNoFill, FillsTakeNone
<1>5. \A T : /\ g \in Seq(Call) /\ (Has(g, T) <=> a \in T \/ b \in T)
             /\ ~(a \in T /\ b \in T) => AtMostOne(g, T)
  BY HasPair
<1>6. Continue(th, g \o r)
  OBVIOUS
<1> HIDE DEF g
<1> DEFINE h == g \o r
<1>7. h \in Seq(Call) /\ Continue(th, h)
  BY <1>4, <1>5, <1>6, ConcatProperties
<1>8. (Has(h, S) <=> Held(t, e)) /\ AtMostOne(h, S)
  <2>1. /\ Has(h, S) <=> Has(g, S) \/ Has(r, S)
        /\ AtMostOne(g, S) /\ AtMostOne(r, S) /\ ~(Has(g, S) /\ Has(r, S)) => AtMostOne(h, S)
    BY <1>4, <1>5, HasConcat
  <2>2. QED
    BY <1>2, <1>4, <1>5, <2>1
<1>9. ~Has(h, Adds(t)) /\ ~Has(h, Ends(t)) /\ ~Has(h, Returning(t))
  <2>1. ASSUME NEW T \in SUBSET S, a \notin T, b \notin T PROVE ~Has(h, T)
    <3>1. ~Has(r, T)
      BY <1>4 DEF Has
    <3>2. Has(h, T) <=> Has(g, T) \/ Has(r, T)
      BY <1>4, <1>5, HasConcat
    <3>3. QED
      BY <1>5, <2>1, <3>1, <3>2
  <2>2. QED
    BY <1>3, <2>1, TakerParts
<1> HIDE DEF h
<1>10. StepsOf(t)' = StepsOf(t)
  BY DEF StepsOf
<1>11. CASE Held(t, e)
  <2>1. RunnerOf(t) = e /\ Placed(t) /\ ~Frozen(t)
    BY <1>11, RunnerIs DEF Token, Placed, InOnePlace
  <2>2. t \in tasks /\ ~Somewhere(stack, Takers(t))
    <3>1. t \in tasks
      BY <2>1 DEF Fate
    <3>2. ~Somewhere(stack, Carriers(t)) /\ ~Somewhere(stack, Ends(t))
      BY <2>1, <3>1 DEF Fate, Token, Carried
    <3>3. QED
      BY <3>1, <3>2 DEF Takers, Somewhere, Has
  <2>3. /\ Fate(t)'
        /\ Somewhere(stack', Returning(t)) <=> Has(h, Returning(t))
    BY <1>7, <1>8, <1>9, <2>2, TakerMoves
  <2>4. \A c \in Exec : ~Held(t, c)'
    BY <1>1, <1>11 DEF Token, InOnePlace
  <2>5. RunnerOf(t)' = NoExec
    BY <2>4, RunnerIsNone
  <2>6. Stage(t)' = "waiting"
    BY <1>9, <2>1, <2>2, <2>3, <2>4 DEF Stage, Frozen
  <2>7. QED
    BY <1>10, <2>1, <2>3, <2>5, <2>6 DEF Crashes
<1>12. CASE ~Held(t, e)
  <2>1. Unheard(t)
    BY <1>2, <1>7, <1>8, <1>12, GoesUnheard
  <2>2. Apart(t)
    BY <1>1, <1>12 DEF Apart, Frozen, Queued
  <2>3. Serves(t, NoTask)
    BY <2>1, <2>2, Aside DEF Token
  <2>4. Fate(t)' /\ Stay(t)
    BY <2>3, IdAssumption DEF Serves
  <2>5. RunnerOf(t) # e
    BY <1>12, RunnerHolds DEF Token
  <2>6. QED
    BY <2>4, <2>5 DEF Crashes, Stay
<1>13. QED
  BY <1>11, <1>12

LEMMA DropStateServes ==
  ASSUME TypeInv, Lone, FateInv, TokenInv, TokenInv', NEW th \in Thread, DropState(th)
  PROVE  StepServes \/ StepCrashes
<1> DEFINE e == Top(th).exec
<1>1. /\ stack[th] # <<>> /\ Top(th) \in Call /\ Top(th).op = "dropState" /\ e \in Exec
      /\ UNCHANGED <<taskInQueue, freezer, tasks, etask>>
  BY DropStateSeen, TopIsCall DEF At, qvars
<1>2. ASSUME NEW t \in Task PROVE Fate(t) /\ Token(t) /\ InOnePlace(t)'
  BY DEF FateInv, TokenInv, Token
<1>3. CASE StateRemoveExecutorFails(e) /\ Abort(th, e)
  <2>1. Top(th) \notin Returns
    BY <1>1 DEF Returns
  <2>2. UNCHANGED execTasks
    BY <1>3 DEF StateRemoveExecutorFails
  <2>3. ASSUME NEW t \in Task PROVE Serves(t, NoTask)
    BY <1>1, <1>2, <1>3, <2>1, <2>2, DropsAside
  <2>4. QED
    BY <2>3 DEF StepServes
<1>4. ASSUME StateRemoveExecutor(e),
             NEW a \in Call, NEW b \in Call, NEW r \in Seq(Fills), Continue(th, <<a, b>> \o r),
             a.op = "requeue", a.todo = execTasks[e], b.op = "closeTransport"
      PROVE  StepCrashes
  BY <1>1, <1>2, <1>4, DropStateCrashes DEF StepCrashes
<1>5. QED
  BY <1>3, <1>4, DropStateSeen

-----------------------------------------------------------------------------
(***************************************************************************)
(* The steps that are about one task.                                      *)
(***************************************************************************)
LEMMA FreezeTaskServes ==
  ASSUME TypeInv, NEW t \in Task, Fate(t), Token(t), InOnePlace(t)', NEW th \in Thread, FreezeTask(th)
  PROVE  Serves(t, Top(th).task)
<1> DEFINE d == Top(th).task
<1>1. /\ stack[th] # <<>> /\ Top(th) \in Call /\ Top(th).op = "freezeTask" /\ d \in Task
      /\ UNCHANGED <<taskInQueue, execTasks, tasks>>
  BY FreezeTaskSeen, TopIsCall DEF At, qvars, svars
<1>2. etask'[t].path = etask[t].path
  <2> DEFINE f == Top(th)
             x == [etask[t] EXCEPT !.frozen = @ + 1]
             y == [x EXCEPT !.type = f.type]
             z == [y EXCEPT !.ripe = f.flag]
  <2>1. etask \in [Task -> ETaskType] /\ etask[t] \in ETaskType
    BY DEF TypeInv, MindTypeOK
  <2>2. x.path = etask[t].path /\ "path" \in DOMAIN x
    BY <2>1 DEF ETaskType
  <2> HIDE DEF x
  <2>3. y.path = etask[t].path /\ "path" \in DOMAIN y
    BY <2>2
  <2> HIDE DEF y
  <2>4. z.path = etask[t].path
    BY <2>3
  <2>5. \/ UNCHANGED etask
        \/ etask' = [etask EXCEPT ![d].frozen = @ + 1, ![d].type = f.type, ![d].ripe = f.flag]
    BY DEF FreezeTask
  <2>6. CASE d = t /\ etask' = [etask EXCEPT ![d].frozen = @ + 1, ![d].type = f.type, ![d].ripe = f.flag]
    <3>1. etask' = [[[etask EXCEPT ![t] = x] EXCEPT ![t] = y] EXCEPT ![t] = z]
      BY <2>1, <2>6 DEF x, y
    <3> HIDE DEF z
    <3>2. QED
      BY <2>1, <2>4, <3>1
  <2>7. QED
    BY <2>5, <2>6, FreezeTaskSeen
<1>3. CASE d = t
  <2>1. Top(th) \in Carriers(t) \ Adds(t) /\ Top(th) \notin Returning(t)
    BY <1>1, <1>3 DEF Carriers, TokenOps, Adds, Busy, BusyOps, Returning
  <2>2. t \in tasks /\ ~Placed(t) /\ Top(th) \in Takers(t) /\ \A e \in Exec : ~Held(t, e)
    BY <1>1, <2>1, CarrierKnown
  <2>3. (\A e \in Exec : ~Held(t, e)') /\ (t \in tasks' <=> t \in tasks) /\ ~Queued(t)'
    BY <1>1, <2>2 DEF Held, Placed, Queued
  <2>4. StepsOf(t)' = StepsOf(t)
    BY <1>2 DEF StepsOf
  <2>5. ASSUME Continue(th, <<>>), freezer' = Append(freezer, d) PROVE Serves(t, d)
    <3> DEFINE g == <<>>
    <3>1. g \in Seq(Call) /\ Continue(th, g) /\ \A S : ~Has(g, S) /\ AtMostOne(g, S)
      BY <2>5, HasNone
    <3> HIDE DEF g
    <3>2. /\ Fate(t)'
          /\ ~Somewhere(stack', Returning(t)) /\ ~Somewhere(stack, Returning(t))
      BY <1>1, <2>1, <2>2, <2>3, <3>1, TakerMoves
    <3>3. Frozen(t)'
      BY <1>1, <1>3, <2>5, FreezerGains
    <3>4. Goes(t, "waiting", "frozen")
      BY <2>2, <2>3, <3>2, <3>3 DEF Goes, Stage, Placed
    <3>5. RunnerOf(t)' = RunnerOf(t)
      BY <2>2, <2>3, RunnerIsNone
    <3>6. QED
      BY <1>3, <2>4, <3>2, <3>4, <3>5 DEF Serves, Turn
  <2>6. ASSUME UNCHANGED freezer, NEW a \in Call, Continue(th, <<a>>), a.op = "removeTask"
        PROVE  Serves(t, d)
    <3>1. a.op # "addTask" /\ a \notin Returning(t)
      BY <2>6 DEF Returning
    <3>2. ~Frozen(t)'
      BY <2>2, <2>6 DEF Placed, Frozen
    <3>3. /\ Fate(t)'
          /\ RunnerOf(t) = NoExec /\ RunnerOf(t)' = NoExec
          /\ Stage(t) = "waiting" /\ Stage(t)' = "waiting"
      BY <1>1, <2>1, <2>3, <2>6, <3>1, <3>2, CarriesOnOne
    <3>4. QED
      BY <1>3, <2>4, <3>3 DEF Serves, Turn, Stay
  <2>7. QED
    BY <1>3, <2>2, <2>5, <2>6, FreezeTaskSeen DEF Placed
<1>4. CASE d # t
  <2>1. \/ Continue(th, <<>>)
        \/ \E a \in Call : Continue(th, <<a>>) /\ a.op = "removeTask" /\ a.task = d
    BY FreezeTaskSeen
  <2>2. /\ Top(th) \notin Takers(t)
        /\ \/ Continue(th, <<>>)
           \/ \E a \in Call : Continue(th, <<a>>) /\ a \notin Takers(t)
    BY <1>1, <1>4, <2>1, NotTaker
  <2>3. Frozen(t)' <=> Frozen(t)
    BY <1>1, <1>4, FreezeTaskSeen, FreezerGains DEF Frozen
  <2>4. Apart(t)
    BY <1>1, <1>2, <2>3 DEF Apart, Queued, Held
  <2>5. QED
    BY <1>1, <2>2, <2>4, GoesUnheardOne, Aside DEF Token
<1>5. QED
  BY <1>3, <1>4

LEMMA UnfreezeTasksServes ==
  ASSUME TypeInv, FateInv, TokenInv, TokenInv', NEW th \in Thread, UnfreezeTasks(th)
  PROVE  StepServes
<1>1. /\ stack[th] # <<>> /\ Top(th) \in Call /\ Top(th).op = "unfreezeTasks" /\ Top(th) \in Fills
      /\ Top(th).loop \in Type \cup {NoType}
      /\ UNCHANGED <<taskInQueue, execTasks, tasks, etask>>
  BY UnfreezeTasksSeen, TopIsCall DEF At, qvars, svars, FrameType
<1>2. ASSUME NEW t \in Task
      PROVE  Fate(t) /\ Token(t) /\ InOnePlace(t) /\ InOnePlace(t)' /\ Top(th) \notin Takers(t)
  BY <1>1, NotTaker DEF FateInv, TokenInv, Token, TokenOps
<1>3. CASE Continue(th, Again(Top(th).loop)) /\ UNCHANGED freezer
  <2>1. Again(Top(th).loop) \in Seq(Fills)
    BY <1>1, AgainFills
  <2>2. ASSUME NEW t \in Task PROVE Serves(t, NoTask)
    BY <1>1, <1>2, <1>3, <2>1, FillsUnheard, SameApart, Aside
  <2>3. QED
    BY <2>2 DEF StepServes
<1>4. ASSUME UNCHANGED freezer, NEW a \in Fills, Continue(th, <<a>>) PROVE StepServes
  <2>1. ASSUME NEW t \in Task PROVE Serves(t, NoTask)
    <3>1. a \in Call /\ a \notin Takers(t)
      BY FillsTakeNone
    <3>2. QED
      BY <1>1, <1>2, <1>4, <3>1, GoesUnheardOne, SameApart, Aside
  <2>2. QED
    BY <2>1 DEF StepServes
<1>5. ASSUME NEW i \in 1 .. Len(freezer), freezer' = RemoveAt(freezer, i),
             \/ freezer[i] \notin tasks /\ Continue(th, <<Top(th)>>)
             \/ /\ freezer[i] \in tasks
                /\ \E a \in Call : /\ Continue(th, <<a, Top(th)>>)
                                   /\ a.op = "dispatchTask" /\ a.task = freezer[i]
      PROVE  StepServes
  <2> DEFINE d == freezer[i]
  <2>1. ASSUME NEW t \in Task, d # t PROVE Serves(t, d)
    <3>1. Frozen(t)' <=> Frozen(t)
      BY <1>5, <2>1, Thawed
    <3>2. Apart(t)
      BY <1>1, <3>1 DEF Apart, Queued, Held
    <3>3. CASE Continue(th, <<Top(th)>>)
      BY <1>1, <1>2, <3>2, <3>3, GoesUnheardOne, Aside
    <3>4. ASSUME NEW a \in Call, Continue(th, <<a, Top(th)>>), a.op = "dispatchTask", a.task = d
          PROVE  Serves(t, d)
      <4>1. a \notin Takers(t)
        BY <2>1, <3>4, NotTaker
      <4>2. QED
        BY <1>1, <1>2, <3>2, <3>4, <4>1, GoesUnheardTwo, Aside
    <3>5. QED
      BY <1>5, <3>3, <3>4
  <2>2. ASSUME NEW t \in Task, d = t PROVE Serves(t, d)
    <3>1. Frozen(t) /\ ~Frozen(t)'
      BY <1>2, <1>5, <2>2, Thawed DEF InOnePlace
    <3>2. t \in tasks /\ ~Somewhere(stack, Takers(t)) /\ \A e \in Exec : ~Held(t, e)
      <4>1. t \in tasks /\ ~Somewhere(stack, Carriers(t)) /\ ~Somewhere(stack, Ends(t))
        BY <1>2, <3>1 DEF Fate, Token, Placed, Carried
      <4>2. \A e \in Exec : ~Held(t, e)
        BY <1>2, <3>1 DEF InOnePlace
      <4>3. QED
        BY <4>1, <4>2 DEF Takers, Somewhere, Has
    <3>3. PICK a \in Call : Continue(th, <<a, Top(th)>>) /\ a.op = "dispatchTask" /\ a.task = d
      BY <1>5, <2>2, <3>2
    <3> DEFINE g == <<a, Top(th)>>
    <3>4. \A S : /\ g \in Seq(Call) /\ (Has(g, S) <=> a \in S \/ Top(th) \in S)
                 /\ ~(a \in S /\ Top(th) \in S) => AtMostOne(g, S)
      BY <1>1, HasPair
    <3>5. Continue(th, g) /\ a \notin Adds(t) /\ a \notin Ends(t) /\ a \notin Returning(t)
          /\ Top(th) \notin Adds(t) /\ Top(th) \notin Ends(t) /\ Top(th) \notin Returning(t)
      BY <1>1, <3>3 DEF Adds, Busy, BusyOps, Ends, Returning
    <3> HIDE DEF g
    <3>6. g \in Seq(Call) /\ Continue(th, g) /\ AtMostOne(g, Takers(t)) /\ ~Has(g, Adds(t)) /\ ~Has(g, Ends(t))
          /\ ~Has(g, Returning(t))
      BY <1>2, <3>4, <3>5
    <3>7. t \in tasks' /\ (\A e \in Exec : ~Held(t, e)') /\ StepsOf(t)' = StepsOf(t)
      BY <1>1, <3>2 DEF Held, StepsOf
    <3>8. /\ Fate(t)'
          /\ ~Somewhere(stack', Returning(t)) /\ ~Somewhere(stack, Returning(t))
      BY <1>1, <1>2, <3>2, <3>6, <3>7, TakerMoves, TakerParts
    <3>9. Goes(t, "frozen", "waiting")
      BY <3>1, <3>2, <3>7, <3>8 DEF Goes, Stage
    <3>10. RunnerOf(t)' = RunnerOf(t)
      BY <3>2, <3>7, RunnerIsNone
    <3>11. QED
      BY <2>2, <3>7, <3>8, <3>9, <3>10 DEF Serves, Turn
  <2>3. QED
    BY <2>1, <2>2 DEF StepServes
<1>6. QED
  BY <1>3, <1>4, <1>5, UnfreezeTasksSeen

LEMMA AddTaskServes ==
  ASSUME TypeInv, NEW t \in Task, Fate(t), Token(t), InOnePlace(t)', NEW th \in Thread, AddTask(th)
  PROVE  Serves(t, Top(th).task)
<1> DEFINE d == Top(th).task
<1>1. /\ stack[th] # <<>> /\ Top(th) \in Call /\ Top(th).op = "addTask" /\ d \in Task
      /\ UNCHANGED <<taskInQueue, freezer, execTasks, etask>>
  BY AddTaskSeen, TopIsCall DEF At, qvars, svars
<1>2. CASE d = t
  <2>1. Top(th) \in Adds(t) /\ Top(th) \in Carriers(t) /\ Top(th) \in Takers(t)
    BY <1>1, <1>2 DEF Adds, Busy, BusyOps, Carriers, TokenOps, Takers
  <2>2. Somewhere(stack, Adds(t)) /\ t \notin tasks
    BY <1>1, <2>1, TopSomewhere DEF Fate
  <2>3. ~Placed(t) /\ ~Somewhere(stack, Carriers(t) \ Adds(t))
    BY <2>2 DEF Fate
  <2>4. PICK a \in Call : /\ tasks' = tasks \cup {t} /\ Continue(th, <<a>>)
                          /\ a.op = "dispatchTask" /\ a.task = t
    BY <1>2, <2>2, AddTaskSeen
  <2> DEFINE g == <<a>>
  <2>5. stack \in Stacks /\ stack' = Swap(stack, th, g) /\ Top(th) = Head(stack[th])
        /\ g \in Seq(Call) /\ Continue(th, g)
    BY <2>4, StackIsStacks DEF Continue, Swap, Top
  <2>6. \A S : (Has(g, S) <=> a \in S) /\ AtMostOne(g, S)
    BY HasSingle
  <2> HIDE DEF g
  <2>7. a \notin Adds(t) /\ a \notin Ends(t) /\ a \notin Returning(t)
    BY <2>4 DEF Adds, Busy, BusyOps, Ends, Returning
  <2>8. Sole(stack, Adds(t))
    BY AddsCarry DEF Token, Sole, AtMostOne, Has
  <2>9. ~Somewhere(stack, Ends(t))
    <3>1. ~Behind(stack, Ends(t), Adds(t))
      BY <1>1, <2>1, <2>5, <2>8, BehindReplaced
    <3>2. QED
      BY <2>2, <3>1 DEF Fate
  <2>10. Sole(stack, Takers(t))
    BY <2>9 DEF Token, Takers, Sole, AtMostOne, Somewhere, Has
  <2>11. Sole(stack', Takers(t))
    BY <1>1, <2>1, <2>5, <2>6, <2>10, Replaced
  <2>12. ASSUME NEW R \in SUBSET Takers(t), a \notin R PROVE ~Somewhere(stack', R)
    BY <1>1, <2>1, <2>5, <2>6, <2>10, <2>12, OnlyNew
  <2>13. ~Somewhere(stack', Adds(t)) /\ ~Somewhere(stack', Ends(t)) /\ ~Somewhere(stack', Returning(t))
    BY <2>7, <2>12, TakerParts
  <2>14. t \in tasks'
    BY <2>4
  <2>15. Fate(t)'
    BY <2>11, <2>13, <2>14 DEF Fate
  <2>16. ~Somewhere(stack, Returning(t))
    BY <2>3, TakerParts DEF Somewhere, Has
  <2>17. ~Frozen(t) /\ ~Frozen(t)' /\ (\A e \in Exec : ~Held(t, e)) /\ \A e \in Exec : ~Held(t, e)'
    BY <1>1, <2>3 DEF Placed, Frozen, Held
  <2>18. Goes(t, "unknown", "waiting")
    BY <2>2, <2>13, <2>14, <2>16, <2>17 DEF Goes, Stage
  <2>19. RunnerOf(t)' = RunnerOf(t) /\ StepsOf(t)' = StepsOf(t)
    BY <1>1, <2>17, RunnerIsNone DEF StepsOf
  <2>20. QED
    BY <1>2, <2>15, <2>18, <2>19 DEF Serves, Turn
<1>3. CASE d # t
  <2>1. Top(th) \notin Takers(t)
    BY <1>1, <1>3, NotTaker
  <2>2. Apart(t)
    BY <1>1, <1>3, AddTaskSeen DEF Apart, Queued, Frozen, Held
  <2>3. ASSUME NEW g \in Seq(Fills), Continue(th, g) PROVE Unheard(t)
    BY <1>1, <2>1, <2>3, FillsUnheard
  <2>4. ASSUME NEW a \in Call, Continue(th, <<a>>), a.op = "dispatchTask", a.task = d PROVE Unheard(t)
    <3>1. a \notin Takers(t)
      BY <1>3, <2>4, NotTaker
    <3>2. QED
      BY <1>1, <2>1, <2>4, <3>1, GoesUnheardOne
  <2>5. Unheard(t)
    BY <2>3, <2>4, AddTaskSeen
  <2>6. QED
    BY <2>2, <2>5, Aside DEF Token
<1>4. QED
  BY <1>2, <1>3

LEMMA DispatchTaskServes ==
  ASSUME TypeInv, NEW t \in Task, Fate(t), Token(t), InOnePlace(t)', NEW th \in Thread, DispatchTask(th)
  PROVE  Serves(t, Top(th).task)
<1> DEFINE d == Top(th).task
<1>1. /\ stack[th] # <<>> /\ Top(th) \in Call /\ Top(th).op = "dispatchTask" /\ d \in Task
      /\ UNCHANGED <<taskInQueue, execTasks, tasks, etask>>
      /\ UNCHANGED freezer \/ freezer' = RemoveFirst(freezer, d)
      /\ \/ Continue(th, <<>>)
         \/ \E a \in Call : Continue(th, <<a>>) /\ a.op = "getNextExecutor" /\ a.task = d
  BY DispatchTaskSeen, TopIsCall DEF At, qvars, svars
<1>2. CASE d = t
  <2>1. Top(th) \in Carriers(t) \ Adds(t) /\ Top(th) \notin Returning(t)
    BY <1>1, <1>2 DEF Carriers, TokenOps, Adds, Busy, BusyOps, Returning
  <2>2. t \in tasks /\ ~Placed(t) /\ \A e \in Exec : ~Held(t, e)
    BY <1>1, <2>1, CarrierKnown
  <2>3. ~Frozen(t)'
    BY <1>1, <2>2, Unfrozen DEF Placed, Frozen
  <2>4. (\A e \in Exec : ~Held(t, e)') /\ (t \in tasks' <=> t \in tasks) /\ StepsOf(t)' = StepsOf(t)
    BY <1>1, <2>2 DEF Held, StepsOf
  <2>5. CASE Continue(th, <<>>)
    <3>1. /\ Fate(t)'
          /\ RunnerOf(t) = NoExec /\ RunnerOf(t)' = NoExec
          /\ Stage(t) = "waiting" /\ Stage(t)' = "waiting"
      BY <1>1, <2>1, <2>3, <2>4, <2>5, CarriesOnNone
    <3>2. QED
      BY <1>2, <2>4, <3>1 DEF Serves, Turn, Stay
  <2>6. ASSUME NEW a \in Call, Continue(th, <<a>>), a.op = "getNextExecutor" PROVE Serves(t, d)
    <3>1. a.op # "addTask" /\ a \notin Returning(t) /\ a \notin Ends(t)
      BY <2>6 DEF Returning, Ends
    <3>2. /\ Fate(t)'
          /\ RunnerOf(t) = NoExec /\ RunnerOf(t)' = NoExec
          /\ Stage(t) = "waiting" /\ Stage(t)' = "waiting"
      BY <1>1, <2>1, <2>3, <2>4, <2>6, <3>1, CarriesOnOne
    <3>3. QED
      BY <1>2, <2>4, <3>2 DEF Serves, Turn, Stay
  <2>7. QED
    BY <1>1, <2>5, <2>6
<1>3. CASE d # t
  <2>1. /\ Top(th) \notin Takers(t)
        /\ \/ Continue(th, <<>>)
           \/ \E a \in Call : Continue(th, <<a>>) /\ a \notin Takers(t)
    BY <1>1, <1>3, NotTaker
  <2>2. Frozen(t)' <=> Frozen(t)
    BY <1>1, <1>3, Unfrozen DEF Frozen
  <2>3. Apart(t)
    BY <1>1, <2>2 DEF Apart, Queued, Held
  <2>4. QED
    BY <1>1, <2>1, <2>3, GoesUnheardOne, Aside DEF Token
<1>4. QED
  BY <1>2, <1>3

LEMMA GetNextExecutorServes ==
  ASSUME TypeInv, NEW t \in Task, Fate(t), Token(t), InOnePlace(t)', NEW th \in Thread, GetNextExecutor(th)
  PROVE  Serves(t, Top(th).task)
<1> DEFINE d == Top(th).task
<1>1. /\ stack[th] # <<>> /\ Top(th) \in Call /\ Top(th).op = "getNextExecutor" /\ d \in Task
      /\ UNCHANGED <<taskInQueue, freezer, execTasks, tasks>>
  BY GetNextExecutorSeen, TopIsCall DEF At, qvars, svars
<1>2. \/ \E a \in Call : /\ Continue(th, <<a>>)
                         /\ a.op \in {"freezeTask", "removeTask"} /\ a.task = d
      \/ \E a, b \in Call : /\ Continue(th, <<a, b>>)
                            /\ a.op = "pushTask" /\ a.task = d /\ b \in Fills
  BY GetNextExecutorSeen
<1>3. etask'[t].path = etask[t].path
  <2>1. etask \in [Task -> ETaskType] /\ d \in Task
    BY <1>1 DEF TypeInv, MindTypeOK
  <2>2. \/ UNCHANGED etask
        \/ \E y : etask' = [etask EXCEPT ![d].type = y]
    BY DEF GetNextExecutor
  <2> HIDE DEF d
  <2>3. QED
    BY <2>1, <2>2 DEF ETaskType
<1>4. CASE d = t
  <2>1. Top(th) \in Carriers(t) \ Adds(t) /\ Top(th) \notin Returning(t)
    BY <1>1, <1>4 DEF Carriers, TokenOps, Adds, Busy, BusyOps, Returning
  <2>2. t \in tasks /\ ~Placed(t) /\ \A e \in Exec : ~Held(t, e)
    BY <1>1, <2>1, CarrierKnown
  <2>3. /\ (\A e \in Exec : ~Held(t, e)') /\ (t \in tasks' <=> t \in tasks)
        /\ ~Queued(t)' /\ ~Frozen(t)' /\ StepsOf(t)' = StepsOf(t)
    BY <1>1, <1>3, <2>2 DEF Held, Placed, Queued, Frozen, StepsOf
  <2>4. ASSUME NEW a \in Call, Continue(th, <<a>>), a.op \in {"freezeTask", "removeTask"}
        PROVE  Serves(t, d)
    <3>1. a.op # "addTask" /\ a \notin Returning(t)
      BY <2>4 DEF Returning
    <3>2. /\ Fate(t)'
          /\ RunnerOf(t) = NoExec /\ RunnerOf(t)' = NoExec
          /\ Stage(t) = "waiting" /\ Stage(t)' = "waiting"
      BY <1>1, <2>1, <2>3, <2>4, <3>1, CarriesOnOne
    <3>3. QED
      BY <1>4, <2>3, <3>2 DEF Serves, Turn, Stay
  <2>5. ASSUME NEW a \in Call, NEW b \in Call, Continue(th, <<a, b>>), a.op = "pushTask", b \in Fills
        PROVE  Serves(t, d)
    <3>1. /\ a.op # "addTask" /\ a \notin Returning(t) /\ a \notin Ends(t)
          /\ b.op # "addTask" /\ b \notin Returning(t) /\ b \notin Ends(t) /\ b \notin Takers(t)
      BY <2>5, FillsTakeNone DEF Returning, Ends, Fills
    <3>2. /\ Fate(t)'
          /\ RunnerOf(t) = NoExec /\ RunnerOf(t)' = NoExec
          /\ Stage(t) = "waiting" /\ Stage(t)' = "waiting"
      BY <1>1, <2>1, <2>3, <2>5, <3>1, CarriesOnTwo
    <3>3. QED
      BY <1>4, <2>3, <3>2 DEF Serves, Turn, Stay
  <2>6. QED
    BY <1>2, <2>4, <2>5
<1>5. CASE d # t
  <2>1. Top(th) \notin Takers(t)
    BY <1>1, <1>5, NotTaker
  <2>2. ASSUME NEW a \in Call, Continue(th, <<a>>), a.op \in {"freezeTask", "removeTask"}, a.task = d
        PROVE  Unheard(t)
    <3>1. a \notin Takers(t)
      BY <1>5, <2>2, NotTaker
    <3>2. QED
      BY <1>1, <2>1, <2>2, <3>1, GoesUnheardOne
  <2>3. ASSUME NEW a \in Call, NEW b \in Call, Continue(th, <<a, b>>), a.op = "pushTask", a.task = d,
               b \in Fills
        PROVE  Unheard(t)
    <3>1. a \notin Takers(t) /\ b \notin Takers(t)
      BY <1>5, <2>3, NotTaker, FillsTakeNone
    <3>2. QED
      BY <1>1, <2>1, <2>3, <3>1, GoesUnheardTwo
  <2>4. Unheard(t)
    BY <1>2, <2>2, <2>3
  <2>5. QED
    BY <1>1, <1>3, <2>4, SameApart, Aside DEF Token
<1>6. QED
  BY <1>4, <1>5

LEMMA PushTaskStepServes ==
  ASSUME TypeInv, NEW t \in Task, Fate(t), Token(t), InOnePlace(t)', NEW th \in Thread, PushTaskStep(th)
  PROVE  Serves(t, Top(th).task)
<1> DEFINE d == Top(th).task
<1>1. /\ stack[th] # <<>> /\ Top(th) \in Call /\ Top(th).op = "pushTask" /\ d \in Task
      /\ Continue(th, <<>>) /\ UNCHANGED <<freezer, execTasks, tasks, etask>>
      /\ \A x \in Task : x # d => taskInQueue'[x] = taskInQueue[x]
  BY PushTaskStepSeen, TopIsCall DEF At, svars
<1>2. CASE d = t
  <2>1. Top(th) \in Carriers(t) \ Adds(t) /\ Top(th) \notin Returning(t)
    BY <1>1, <1>2 DEF Carriers, TokenOps, Adds, Busy, BusyOps, Returning
  <2>2. t \in tasks /\ ~Placed(t) /\ \A e \in Exec : ~Held(t, e)
    BY <1>1, <2>1, CarrierKnown
  <2>3. /\ (\A e \in Exec : ~Held(t, e)') /\ (t \in tasks' <=> t \in tasks)
        /\ ~Frozen(t)' /\ StepsOf(t)' = StepsOf(t)
    BY <1>1, <2>2 DEF Held, Placed, Frozen, StepsOf
  <2>4. /\ Fate(t)'
        /\ RunnerOf(t) = NoExec /\ RunnerOf(t)' = NoExec
        /\ Stage(t) = "waiting" /\ Stage(t)' = "waiting"
    BY <1>1, <2>1, <2>3, CarriesOnNone
  <2>5. QED
    BY <1>2, <2>3, <2>4 DEF Serves, Turn, Stay
<1>3. CASE d # t
  <2>1. Top(th) \notin Takers(t)
    BY <1>1, <1>3, NotTaker
  <2>2. Apart(t)
    BY <1>1, <1>3 DEF Apart, Queued, Frozen, Held
  <2>3. QED
    BY <1>1, <2>1, <2>2, GoesUnheardOne, Aside DEF Token
<1>4. QED
  BY <1>2, <1>3

LEMMA SendServes ==
  ASSUME TypeInv, NEW t \in Task, Fate(t), Token(t), InOnePlace(t)', NEW th \in Thread, Send(th), NEW d
  PROVE  Serves(t, d)
<1>1. /\ stack[th] # <<>> /\ Top(th) \in Call /\ Top(th).op = "send"
      /\ Top(th).loop \in Type \cup {NoType}
      /\ UNCHANGED <<freezer, execTasks, tasks, etask>>
  BY SendSeen, TopIsCall DEF At, svars
<1>2. Top(th) \notin Takers(t)
  BY <1>1, NotTaker DEF TokenOps
<1>3. ASSUME UNCHANGED qvars, NEW g \in Seq(Fills), Continue(th, g) PROVE Serves(t, d)
  BY <1>1, <1>2, <1>3, FillsUnheard, SameApart, Aside DEF qvars, Token
<1>4. ASSUME NEW y \in Type, Picked(th, Top(th), y) PROVE Serves(t, d)
  <2>1. PICK a \in Call :
          /\ Continue(th, <<a>>)
          /\ a.op = "handOver" /\ a.task \in Task /\ taskInQueue[a.task] = y
          /\ \A x \in Task : taskInQueue'[x] = IF x = a.task THEN NoType ELSE taskInQueue[x]
    BY <1>4 DEF Picked
  <2>2. CASE a.task = t
    <3>1. Queued(t) /\ Placed(t)
      BY <2>1, <2>2, IdAssumption DEF Queued, Placed
    <3>2. t \in tasks /\ ~Somewhere(stack, Takers(t))
      <4>1. t \in tasks /\ ~Somewhere(stack, Carriers(t)) /\ ~Somewhere(stack, Ends(t))
        BY <3>1 DEF Fate, Token, Carried
      <4>2. QED
        BY <4>1 DEF Takers, Somewhere, Has
    <3> DEFINE g == <<a>>
    <3>3. \A S : g \in Seq(Call) /\ (Has(g, S) <=> a \in S) /\ AtMostOne(g, S)
      BY HasSingle
    <3>4. Continue(th, g) /\ a \notin Adds(t) /\ a \notin Ends(t) /\ a \notin Returning(t)
      BY <2>1 DEF Adds, Busy, BusyOps, Ends, Returning
    <3> HIDE DEF g
    <3>5. g \in Seq(Call) /\ Continue(th, g) /\ AtMostOne(g, Takers(t)) /\ ~Has(g, Adds(t)) /\ ~Has(g, Ends(t))
          /\ ~Has(g, Returning(t))
      BY <3>3, <3>4
    <3>6. t \in tasks'
      BY <1>1, <3>2
    <3>7. /\ Fate(t)'
          /\ ~Somewhere(stack', Returning(t)) /\ ~Somewhere(stack, Returning(t))
      BY <1>1, <1>2, <3>2, <3>5, <3>6, TakerMoves, TakerParts
    <3>8. Stay(t)
      BY <1>1, <3>7, Stays DEF Token, Held, Frozen
    <3>9. QED
      BY <3>7, <3>8 DEF Serves, Turn
  <2>3. CASE a.task # t
    <3>1. a \notin Takers(t)
      BY <2>1, <2>3, NotTaker
    <3>2. Apart(t)
      BY <1>1, <2>1, <2>3 DEF Apart, Queued, Frozen, Held
    <3>3. QED
      BY <1>1, <1>2, <2>1, <3>1, <3>2, GoesUnheardOne, Aside DEF Token
  <2>4. QED
    BY <2>2, <2>3
<1>5. Again(Top(th).loop) \in Seq(Fills)
  BY <1>1, AgainFills
<1>6. QED
  BY <1>3, <1>4, <1>5, NoFills, SendSeen

\* the task is forgotten
LEMMA RemoveTaskServes ==
  ASSUME TypeInv, NEW t \in Task, Fate(t), Token(t), InOnePlace(t)', NEW th \in Thread, RemoveTask(th)
  PROVE  Serves(t, Top(th).task)
<1> DEFINE d == Top(th).task
<1>1. /\ stack[th] # <<>> /\ Top(th) \in Call /\ Top(th).op = "removeTask" /\ d \in Task
      /\ UNCHANGED <<taskInQueue, freezer, execTasks>>
      /\ t # d => etask'[t] = etask[t]
  BY RemoveTaskSeen, TopIsCall DEF At, qvars, svars
<1>2. CASE d \notin tasks
  <2>1. Continue(th, <<>>) /\ UNCHANGED <<tasks, etask>>
    BY <1>2, RemoveTaskSeen
  <2>2. CASE d # t
    <3>1. Top(th) \notin Takers(t)
      BY <1>1, <2>2, NotTaker
    <3>2. QED
      BY <1>1, <2>1, <3>1, GoesUnheardOne, SameApart, Aside DEF Token
  <2>3. CASE d = t
    <3>1. Top(th) \in Ends(t) /\ Top(th) \notin Adds(t) /\ Top(th) \notin Returning(t)
      BY <1>1, <2>3 DEF Ends, Adds, Busy, BusyOps, Returning
    <3>2. Somewhere(stack, Adds(t)) /\ Sole(stack, Ends(t))
      BY <1>1, <1>2, <2>3, <3>1, TopSomewhere DEF Fate
    <3> DEFINE g == <<>>
    <3>3. stack \in Stacks /\ stack' = Swap(stack, th, g) /\ Top(th) = Head(stack[th])
          /\ g \in Seq(Call) /\ Continue(th, g)
      BY <2>1, StackIsStacks DEF Continue, Swap, Top
    <3>4. \A S : ~Has(g, S)
      BY HasNone
    <3> HIDE DEF g
    <3>5. ~Somewhere(stack', Ends(t)) /\ Somewhere(stack', Adds(t))
      BY <1>1, <3>1, <3>2, <3>3, <3>4, Replaced
    <3>6. \A S : Somewhere(stack', S) => Somewhere(stack, S)
      BY <1>1, <3>3, <3>4, Replaced
    <3>7. Somewhere(stack, Returning(t)) => Somewhere(stack', Returning(t))
      BY <1>1, <3>1, <3>3, Replaced
    <3>8. t \notin tasks' /\ (Placed(t)' <=> Placed(t)) /\ etask'[t].path = etask[t].path
      BY <1>1, <1>2, <2>1, <2>3 DEF Placed, Queued, Frozen, Held
    <3>9. Fate(t)'
      BY <1>2, <2>3, <3>5, <3>6, <3>8, NoneIsSole DEF Fate
    <3>10. Stay(t)
      BY <1>1, <2>1, <3>6, <3>7, Stays DEF Token, Held, Frozen
    <3>11. QED
      BY <3>9, <3>10 DEF Serves, Turn
  <2>4. QED
    BY <2>2, <2>3
<1>3. CASE d \in tasks
  <2>1. tasks' = tasks \ {d} /\ CleanUp(th, d)
    BY <1>3, RemoveTaskSeen
  <2>2. PICK a, b, c \in Call, r \in Seq(Call) :
          /\ Continue(th, <<a, b, c>> \o r)
          /\ a.op = "removeQueued" /\ a.task = d
          /\ b.op = "removeRunning" /\ b.task = d
          /\ c.op = "removeFrozen" /\ c.task = d
          /\ \/ taskInExec[d] = NoExec /\ r = <<>>
             \/ \E x \in Call : r = <<x>> /\ x.op = "sendIfIdle" /\ x.exec = taskInExec[d]
    BY <2>1 DEF CleanUp
  <2> DEFINE k == <<a, b, c>>
             g == k \o r
  <2>3. k \in Seq(Call) /\ \A S : Has(k, S) <=> a \in S \/ b \in S \/ c \in S
    BY HasTriple
  <2>4. a \notin Takers(t) /\ b \notin Takers(t) /\ c \notin Takers(t)
    BY <2>2, NotTaker DEF TokenOps
  <2>5. ~Has(r, Takers(t))
    <3>1. \A x \in Call : x.op = "sendIfIdle" => x \notin Takers(t)
      BY NotTaker DEF TokenOps
    <3>2. QED
      BY <2>2, <3>1, HasNone, HasSingle
  <2> HIDE DEF k
  <2>6. g \in Seq(Call) /\ ~Has(g, Takers(t))
    BY <2>3, <2>4, <2>5, HasConcat
  <2>7. Continue(th, g)
    BY <2>2 DEF k
  <2> HIDE DEF g, d
  <2>8. CASE d # t
    <3>1. Top(th) \notin Takers(t)
      BY <1>1, <2>8, NotTaker DEF d
    <3>2. Apart(t)
      BY <1>1, <2>1, <2>8 DEF Apart, Queued, Frozen, Held
    <3>3. QED
      BY <1>1, <2>6, <2>7, <3>1, <3>2, GoesUnheard, Aside DEF Token, d
  <2>9. CASE d = t
    <3>1. Top(th) \in Ends(t) /\ Top(th) \in Takers(t) /\ Top(th) \notin Returning(t)
      BY <1>1, <2>9 DEF d, Ends, Takers, Returning
    <3>2. /\ t \in tasks /\ Sole(stack, Takers(t)) /\ ~Somewhere(stack, Adds(t)) /\ ~Placed(t)
      BY <1>1, <1>3, <2>9, <3>1, TopSomewhere DEF Fate
    <3>3. stack \in Stacks /\ stack' = Swap(stack, th, g) /\ Top(th) = Head(stack[th])
      BY <2>7, StackIsStacks DEF Continue, Swap, Top
    <3>4. ASSUME NEW R \in SUBSET Takers(t) PROVE ~Somewhere(stack', R)
      <4>1. ~Has(g, R)
        BY <2>6 DEF Has
      <4>2. QED
        BY <1>1, <2>6, <3>1, <3>2, <3>3, <4>1, OnlyNew
    <3>5. /\ ~Somewhere(stack', Adds(t)) /\ ~Somewhere(stack', Ends(t))
          /\ ~Somewhere(stack', Carriers(t) \ Adds(t)) /\ ~Somewhere(stack', Returning(t))
      BY <3>4, TakerParts
    <3>6. ~Somewhere(stack, Returning(t))
      <4>1. Somewhere(stack, Returning(t)) => Top(th) \in Returning(t)
        BY <1>1, <3>1, <3>2, SoleTop, TakerParts
      <4>2. QED
        BY <3>1, <4>1
    <3>7. etask'[t].path = <<>>
      <4>1. etask' = [etask EXCEPT ![t] = NewETask]
        BY <1>1, <3>2, <2>9 DEF RemoveTask, d
      <4>2. etask \in [Task -> ETaskType]
        BY DEF TypeInv, MindTypeOK
      <4>3. QED
        BY <4>1, <4>2 DEF NewETask
    <3>8. t \notin tasks' /\ ~Placed(t)'
      BY <1>1, <2>1, <2>9, <3>2 DEF Placed, Queued, Frozen, Held
    <3>9. Fate(t)'
      BY <3>5, <3>7, <3>8 DEF Fate
    <3>10. StepsOf(t)' = 0
      BY <3>7 DEF StepsOf
    <3>11. ~Frozen(t) /\ ~Frozen(t)' /\ (\A e \in Exec : ~Held(t, e)) /\ \A e \in Exec : ~Held(t, e)'
      BY <3>2, <3>8 DEF Placed
    <3>12. Goes(t, "waiting", "unknown")
      BY <3>2, <3>5, <3>6, <3>8, <3>11 DEF Goes, Stage
    <3>13. RunnerOf(t)' = RunnerOf(t)
      BY <3>11, RunnerIsNone
    <3>14. QED
      BY <2>9, <3>9, <3>10, <3>12, <3>13 DEF Serves, Turn, d
  <2>10. QED
    BY <2>8, <2>9 DEF d
<1>4. QED
  BY <1>2, <1>3

\* t is taken from where it lies, and waits again
LEMMA LaidOff ==
  ASSUME TypeInv, NEW t \in Task, Fate(t), Token(t), InOnePlace(t)', Unheard(t),
         t \in tasks' <=> t \in tasks, etask'[t].path = etask[t].path,
         Queued(t)' => Queued(t), Frozen(t)' => Frozen(t), \A e \in Exec : Held(t, e)' => Held(t, e)
  PROVE  Serves(t, t)
<1>1. Placed(t)' => Placed(t)
  BY DEF Placed
<1>2. Fate(t)' /\ (Somewhere(stack', Returning(t)) <=> Somewhere(stack, Returning(t)))
  BY <1>1, Unmoved
<1>3. CASE (Frozen(t)' <=> Frozen(t)) /\ \A e \in Exec : Held(t, e)' <=> Held(t, e)
  <2>1. Stay(t)
    BY <1>2, <1>3, Stays DEF Token
  <2>2. QED
    BY <1>2, <2>1 DEF Serves, Turn
<1>4. CASE (Frozen(t) /\ ~Frozen(t)') \/ \E e \in Exec : Held(t, e) /\ ~Held(t, e)'
  <2>1. t \in tasks /\ ~Somewhere(stack, Returning(t))
    <3>1. Placed(t)
      BY <1>4 DEF Placed
    <3>2. ~Somewhere(stack, Carriers(t)) /\ t \in tasks
      BY <3>1 DEF Token, Carried, Fate
    <3>3. QED
      BY <3>2, TakerParts DEF Somewhere, Has
  <2>2. StepsOf(t)' = StepsOf(t)
    BY DEF StepsOf
  <2>3. \A e \in Exec : ~Held(t, e)'
    BY <1>4 DEF Token, InOnePlace
  <2>4. RunnerOf(t)' = NoExec
    BY <2>3, RunnerIsNone
  <2>5. ~Frozen(t)'
    BY <1>4 DEF Token, InOnePlace
  <2>6. Stage(t)' = "waiting"
    BY <1>2, <2>1, <2>3, <2>5 DEF Stage
  <2>7. CASE Frozen(t)
    <3>1. \A e \in Exec : ~Held(t, e)
      BY <2>7 DEF Token, InOnePlace
    <3>2. Stage(t) = "frozen" /\ RunnerOf(t) = NoExec
      BY <2>7, <3>1, RunnerIsNone DEF Stage
    <3>3. QED
      BY <1>2, <2>2, <2>4, <2>6, <3>2 DEF Serves, Turn, Goes
  <2>8. CASE ~Frozen(t)
    <3>1. Stage(t) = "running"
      BY <1>4, <2>8 DEF Stage
    <3>2. QED
      BY <1>2, <2>2, <2>4, <2>6, <3>1 DEF Serves, Turn, Goes
  <2>9. QED
    BY <2>7, <2>8
<1>5. QED
  BY <1>3, <1>4

LEMMA RemoveRunningServes ==
  ASSUME TypeInv, NEW t \in Task, Fate(t), Token(t), InOnePlace(t)', NEW th \in Thread, RemoveRunning(th)
  PROVE  Serves(t, Top(th).task)
<1> DEFINE d == Top(th).task
           g == Again(Top(th).loop)
<1>1. /\ stack[th] # <<>> /\ Top(th) \in Call /\ Top(th).op = "removeRunning" /\ d \in Task
      /\ UNCHANGED <<taskInQueue, freezer, tasks, etask>>
      /\ StateRemoveTask(d) /\ g \in Seq(Fills) /\ Continue(th, g)
  BY RemoveRunningSeen, TopIsCall, AgainFills DEF At, qvars
<1> HIDE DEF g
<1>2. Unheard(t)
  <2>1. Top(th) \notin Takers(t)
    BY <1>1, NotTaker DEF TokenOps
  <2>2. QED
    BY <1>1, <2>1, FillsUnheard
<1>3. \A e \in Exec : Held(t, e)' => Held(t, e)
  BY <1>1, StateRemoveTaskHolds
<1>4. (Queued(t)' => Queued(t)) /\ (Frozen(t)' <=> Frozen(t))
  BY <1>1 DEF Queued, Frozen
<1>5. CASE d = t
  BY <1>1, <1>2, <1>3, <1>4, <1>5, LaidOff
<1>6. CASE d # t
  <2>1. \A e \in Exec : Held(t, e)' <=> Held(t, e)
    <3>1. CASE taskInExec[d] # NoExec
      <4>1. taskInExec[d] \in Exec /\ StateRemoveTaskFrom(taskInExec[d], d)
        BY <1>1, <3>1 DEF StateRemoveTask, TypeInv, STypeOK
      <4>2. QED
        BY <1>1, <1>6, <4>1, LessHeld
    <3>2. CASE taskInExec[d] = NoExec
      BY <1>1, <3>2 DEF StateRemoveTask, svars, Held
    <3>3. QED
      BY <3>1, <3>2
  <2>2. Apart(t)
    BY <1>1, <1>4, <2>1 DEF Apart
  <2>3. QED
    BY <1>2, <2>2, Aside DEF Token
<1>7. QED
  BY <1>5, <1>6

LEMMA RemoveFrozenServes ==
  ASSUME TypeInv, NEW t \in Task, Fate(t), Token(t), InOnePlace(t)', NEW th \in Thread, RemoveFrozen(th)
  PROVE  Serves(t, Top(th).task)
<1> DEFINE d == Top(th).task
<1>1. /\ stack[th] # <<>> /\ Top(th) \in Call /\ Top(th).op = "removeFrozen" /\ d \in Task
      /\ UNCHANGED <<taskInQueue, execTasks, tasks, etask>>
      /\ freezer' = RemoveFirst(freezer, d) /\ Continue(th, <<>>)
  BY RemoveFrozenSeen, TopIsCall DEF At, qvars, svars
<1>2. Unheard(t)
  <2>1. Top(th) \notin Takers(t)
    BY <1>1, NotTaker DEF TokenOps
  <2>2. QED
    BY <1>1, <2>1, GoesUnheardOne
<1>3. (Queued(t)' => Queued(t)) /\ \A e \in Exec : Held(t, e)' <=> Held(t, e)
  BY <1>1 DEF Queued, Held
<1>4. (Frozen(t)' => Frozen(t)) /\ (t # d => (Frozen(t)' <=> Frozen(t)))
  BY <1>1, Unfrozen
<1>5. CASE d = t
  BY <1>1, <1>2, <1>3, <1>4, <1>5, LaidOff
<1>6. CASE d # t
  <2>1. Apart(t)
    BY <1>1, <1>3, <1>4, <1>6 DEF Apart
  <2>2. QED
    BY <1>2, <2>1, Aside DEF Token
<1>7. QED
  BY <1>5, <1>6

LEMMA HandOverServes ==
  ASSUME TypeInv, NEW t \in Task, Fate(t), Token(t), InOnePlace(t)', NEW th \in Thread, HandOver(th)
  PROVE  Serves(t, Top(th).task)
<1> DEFINE d == Top(th).task
<1>0. PICK e \in Exec : e = Top(th).exec
  BY HandOverSeen
<1>1. /\ stack[th] # <<>> /\ Top(th) \in Call /\ Top(th).op = "handOver" /\ d \in Task
      /\ UNCHANGED <<taskInQueue, freezer, tasks, etask>> /\ StateAddTask(e, d)
  BY <1>0, HandOverSeen, TopIsCall DEF At, qvars
<1>2. PICK a \in Call : Continue(th, <<a>>) /\ a.op = "message"
  BY HandOverSeen
<1>3. a \notin Takers(t)
  BY <1>2, NotTaker DEF TokenOps
<1>4. execTasks \in [Exec -> SUBSET Task]
  BY DEF TypeInv, STypeOK
<1>5. CASE d = t
  <2>1. Top(th) \in Carriers(t) \ Adds(t) /\ Top(th) \notin Returning(t)
    BY <1>1, <1>5 DEF Carriers, TokenOps, Adds, Busy, BusyOps, Returning
  <2>2. t \in tasks /\ ~Placed(t) /\ Top(th) \in Takers(t) /\ \A c \in Exec : ~Held(t, c)
    BY <1>1, <2>1, CarrierKnown
  <2> DEFINE g == <<a>>
  <2>3. g \in Seq(Call) /\ Continue(th, g) /\ AtMostOne(g, Takers(t)) /\ ~Has(g, Takers(t))
    BY <1>2, <1>3, HasSingle
  <2> HIDE DEF g
  <2>4. ~Has(g, Adds(t)) /\ ~Has(g, Ends(t)) /\ ~Has(g, Returning(t))
    BY <2>3, TakerParts DEF Has
  <2>5. t \in tasks' /\ StepsOf(t)' = StepsOf(t) /\ ~Frozen(t) /\ ~Frozen(t)'
    BY <1>1, <2>2 DEF Placed, Frozen, StepsOf
  <2>6. /\ Fate(t)'
        /\ ~Somewhere(stack', Returning(t)) /\ ~Somewhere(stack, Returning(t))
    BY <1>1, <2>1, <2>2, <2>3, <2>4, <2>5, TakerMoves
  <2>7. CASE e \in registered
    <3>1. Held(t, e)'
      BY <1>1, <1>5, <2>7, GainsHeld
    <3>2. Goes(t, "waiting", "running")
      BY <1>1, <2>2, <2>5, <2>6, <3>1 DEF Goes, Stage
    <3>3. RunnerOf(t)' = e
      BY <1>1, <3>1, RunnerIs
    <3>4. QED
      BY <1>1, <1>5, <2>5, <2>6, <3>2, <3>3 DEF Serves, Turn
  <2>8. CASE e \notin registered
    <3>1. \A c \in Exec : Held(t, c)' <=> Held(t, c)
      BY <1>1, <2>8 DEF StateAddTask, Held
    <3>2. Stay(t)
      BY <1>1, <2>2, <2>5, <2>6, <3>1, Stays DEF Token
    <3>3. QED
      BY <1>5, <2>6, <3>2 DEF Serves, Turn
  <2>9. QED
    BY <2>7, <2>8
<1>6. CASE d # t
  <2>1. \A c \in Exec : Held(t, c)' <=> Held(t, c)
    BY <1>1, <1>4, <1>6 DEF StateAddTask, Held
  <2>2. Apart(t)
    BY <1>1, <2>1 DEF Apart, Queued, Frozen
  <2>3. Top(th) \notin Takers(t)
    BY <1>1, <1>6, NotTaker
  <2>4. QED
    BY <1>1, <1>2, <1>3, <2>2, <2>3, GoesUnheardOne, Aside DEF Token
<1>7. QED
  BY <1>5, <1>6

LEMMA TaskReceivedServes ==
  ASSUME TypeInv, NEW t \in Task, Fate(t), Token(t), InOnePlace(t)', NEW th \in Thread, TaskReceived(th)
  PROVE  Serves(t, Top(th).task)
<1> DEFINE d == Top(th).task
           e == Top(th).exec
<1>1. /\ stack[th] # <<>> /\ Top(th) \in Call /\ Top(th).op = "taskReceived" /\ d \in Task /\ e \in Exec
      /\ UNCHANGED <<taskInQueue, freezer, tasks, etask>>
  BY TaskReceivedSeen, TopIsCall DEF At, qvars
<1>2. Top(th) \notin Takers(t)
  BY <1>1, NotTaker DEF TokenOps
<1>3. CASE UNCHANGED svars /\ Continue(th, <<>>)
  BY <1>1, <1>2, <1>3, GoesUnheardOne, SameApart, Aside DEF svars, Token
<1>4. ASSUME d \in tasks, StateRemoveTaskFrom(e, d), NEW a \in Call, Continue(th, <<a>>),
             \/ RemoveSucceeds(e, d) /\ a.op = "taskReturned" /\ a.task = d
             \/ a.op = "send"
      PROVE  Serves(t, d)
  <2>1. \A c \in Exec : Held(t, c)' <=> Held(t, c) /\ ~(HoldsTask(e, d) /\ t = d /\ c = e)
    BY <1>1, <1>4, LessHeld
  <2>2. CASE d # t
    <3>1. a \notin Takers(t)
      BY <1>4, <2>2, NotTaker DEF TokenOps
    <3>2. Apart(t)
      BY <1>1, <2>1, <2>2 DEF Apart, Queued, Frozen
    <3>3. QED
      BY <1>1, <1>2, <1>4, <3>1, <3>2, GoesUnheardOne, Aside DEF Token
  <2>3. CASE d = t /\ a.op = "send"
    <3>1. a \notin Takers(t)
      BY <2>3, NotTaker DEF TokenOps
    <3>2. Unheard(t)
      BY <1>1, <1>2, <1>4, <3>1, GoesUnheardOne
    <3>3. (Queued(t)' => Queued(t)) /\ (Frozen(t)' => Frozen(t)) /\ \A c \in Exec : Held(t, c)' => Held(t, c)
      BY <1>1, <2>1 DEF Queued, Frozen
    <3>4. QED
      BY <1>1, <2>3, <3>2, <3>3, LaidOff
  <2>4. CASE d = t /\ RemoveSucceeds(e, d) /\ a.op = "taskReturned"
    <3>1. Held(t, e) /\ HoldsTask(e, t)
      BY <2>4 DEF RemoveSucceeds, HoldsTask, Held
    <3>2. \A c \in Exec : ~Held(t, c)'
      BY <1>1, <2>1, <2>4, <3>1 DEF Token, InOnePlace
    <3>3. Placed(t) /\ ~Frozen(t) /\ ~Frozen(t)'
      BY <1>1, <3>1 DEF Token, InOnePlace, Placed, Frozen
    <3>4. t \in tasks /\ ~Somewhere(stack, Takers(t))
      <4>1. t \in tasks /\ ~Somewhere(stack, Carriers(t)) /\ ~Somewhere(stack, Ends(t))
        BY <3>3 DEF Fate, Token, Carried
      <4>2. QED
        BY <4>1 DEF Takers, Somewhere, Has
    <3> DEFINE g == <<a>>
    <3>5. \A S : g \in Seq(Call) /\ (Has(g, S) <=> a \in S) /\ AtMostOne(g, S)
      BY HasSingle
    <3>6. Continue(th, g) /\ a \notin Adds(t) /\ a \notin Ends(t)
      BY <1>4, <2>4 DEF Adds, Busy, BusyOps, Ends
    <3> HIDE DEF g
    <3>7. g \in Seq(Call) /\ Continue(th, g) /\ AtMostOne(g, Takers(t)) /\ ~Has(g, Adds(t)) /\ ~Has(g, Ends(t))
      BY <3>5, <3>6
    <3>8. t \in tasks' /\ StepsOf(t)' = StepsOf(t)
      BY <1>1, <3>4 DEF StepsOf
    <3>9. Fate(t)'
      BY <1>1, <3>4, <3>7, <3>8, TakerMoves
    <3>10. Stage(t) = "running" /\ Stage(t)' \in {"returned", "waiting"}
      BY <1>1, <3>1, <3>2, <3>3, <3>8 DEF Stage
    <3>11. RunnerOf(t)' = NoExec
      BY <3>2, RunnerIsNone
    <3>12. QED
      BY <2>4, <3>8, <3>9, <3>10, <3>11 DEF Serves, Turn, Goes
  <2>5. QED
    BY <1>4, <2>2, <2>3, <2>4
<1>5. QED
  BY <1>3, <1>4, TaskReceivedSeen

\* what TaskReturnedSeen does not say: the call that stores the result is told how the run ended
LEMMA StoreKeepsFlag ==
  ASSUME TypeInv, NEW th \in Thread, TaskReturned(th)
  PROVE  \/ Top(th).exec \notin connected /\ Abort(th, Top(th).exec)
         \/ \E a, b \in Call : /\ Continue(th, <<a, b>>) /\ a.op = "removeExecutor"
                               /\ b.op = "dispatchTask" /\ b.task = Top(th).task
         \/ \E a \in Call : /\ Continue(th, <<a>>) /\ a.op = "storeTask"
                            /\ a.task = Top(th).task /\ a.flag = Top(th).flag
         \/ \E a \in Call, r \in Seq(Call) :
              /\ Continue(th, <<a>> \o r) /\ a.op = "send"
              /\ \/ r = <<>>
                 \/ \E b \in Call : r = <<b>> /\ b.op = "removeTask" /\ b.task = Top(th).task
<1> DEFINE f == Top(th)
           e == f.exec
           a == CallExec("removeExecutor", e)
           b == CallDispatch(f.task, TRUE)
           c == [f EXCEPT !.op = "storeTask"]
           d == CallSend(e, NoType)
           g == CallTask("removeTask", f.task)
           r == IF f.flag THEN <<g>> ELSE <<>>
<1>1. f \in Call /\ f.op = "taskReturned" /\ e \in Exec /\ f.task \in Task /\ f \in FrameType
  BY TaskReturnedSeen, TopIsCall, CallFields DEF At
<1>2. a \in Call /\ a.op = "removeExecutor"
  BY <1>1, CallExecIsCall, CallExecFields
<1>3. b \in Call /\ b.op = "dispatchTask" /\ b.task = f.task
  BY <1>1, CallDispatchIsCall, CallDispatchFields
<1>4. f.type \in TypesOf(e) => c \in Call
  <2>1. f.type \in TypesOf(e) => f.type \in Type
    BY <1>1, StateAssumption, ElementOfSeq, LenProperties DEF TypesOf
  <2>2. QED
    BY <1>1, <2>1, MovedIsCall
<1>5. c.op = "storeTask" /\ c.task = f.task /\ c.flag = f.flag
  BY <1>1 DEF FrameType
<1>6. d \in Call /\ d.op = "send"
  <2>1. d \in Call
    BY <1>1, CallSendIsCall
  <2>2. QED
    BY <2>1, CallSendFields, Zenon
<1>7. g \in Call /\ g.op = "removeTask" /\ g.task = f.task
  BY <1>1, CallTaskIsCall, CallTaskFields
<1>8. \/ e \notin connected /\ Abort(th, e)
      \/ Continue(th, <<a, b>>)
      \/ f.type \in TypesOf(e) /\ Continue(th, <<c>>)
      \/ Continue(th, SaveFailed(f))
  BY DEF TaskReturned
<1>9. SaveFailed(f) = <<d>> \o r
  BY DEF SaveFailed
<1> HIDE DEF a, b, c, d, g
<1>10. r \in Seq(Call) /\ (r = <<>> \/ r = <<g>>)
  BY <1>7
<1> HIDE DEF r
<1>11. CASE e \notin connected /\ Abort(th, e)
  BY <1>11
<1>12. CASE Continue(th, <<a, b>>)
  BY <1>2, <1>3, <1>12
<1>13. CASE f.type \in TypesOf(e) /\ Continue(th, <<c>>)
  BY <1>4, <1>5, <1>13
<1>14. CASE Continue(th, SaveFailed(f))
  BY <1>6, <1>7, <1>9, <1>10, <1>14
<1>15. QED
  BY <1>8, <1>11, <1>12, <1>13, <1>14

\* the callback saves the result, or the run comes to nothing
LEMMA TaskReturnedServes ==
  ASSUME TypeInv, Lone, NEW t \in Task, Fate(t), Token(t), InOnePlace(t)', NEW th \in Thread,
         TaskReturned(th)
  PROVE  Serves(t, Top(th).task)
<1> DEFINE f == Top(th)
           d == f.task
<1>1. /\ stack[th] # <<>> /\ f \in Call /\ f.op = "taskReturned" /\ d \in Task
      /\ UNCHANGED <<taskInQueue, freezer, execTasks, tasks, etask>>
  BY TaskReturnedSeen, TopIsCall DEF At, qvars, svars
<1> HIDE DEF d
<1>2. CASE Abort(th, f.exec)
  <2>1. stack' = [stack EXCEPT ![th] = <<>>]
    BY <1>2 DEF Abort
  <2>2. /\ Fate(t)'
        /\ ~Has(stack[th], Returning(t)) => Stay(t)
        /\ Has(stack[th], Returning(t)) => /\ Goes(t, "returned", "waiting")
                                           /\ RunnerOf(t)' = RunnerOf(t) /\ StepsOf(t)' = StepsOf(t)
    BY <1>1, <2>1, DropsServe
  <2>3. ASSUME t # d PROVE ~Has(stack[th], Returning(t))
    <3>1. stack[th] \in Seq(Call) /\ f \in Returns
      BY <1>1, StackIsStacks DEF Stacks, Returns
    <3>2. Has(stack[th], Returns)
      BY <1>1, <3>1, HasHeadTail DEF Top
    <3>3. Has(stack[th], Returning(t)) => f \in Returning(t) \/ Has(Tail(stack[th]), Returning(t))
      BY <1>1, <3>1, HasHeadTail DEF Top
    <3>4. Tail(stack[th]) = <<>> /\ f \notin Returning(t)
      BY <2>3, <3>2 DEF Lone, Returning, d
    <3>5. QED
      BY <3>3, <3>4, HasNone
  <2>4. QED
    BY <2>2, <2>3 DEF Serves, Turn, d
<1>3. CASE t = d
  <2>1. f \in Carriers(t) \ Adds(t)
    BY <1>1, <1>3 DEF Carriers, TokenOps, Adds, Busy, BusyOps, d
  <2>2. t \in tasks /\ ~Placed(t) /\ \A e \in Exec : ~Held(t, e)
    BY <1>1, <2>1, CarrierKnown
  <2>3. /\ \A e \in Exec : ~Held(t, e)'
        /\ ~Frozen(t)' /\ ~Queued(t)' /\ (t \in tasks' <=> t \in tasks) /\ StepsOf(t)' = StepsOf(t)
    BY <1>1, <2>2 DEF Held, Placed, Queued, Frozen, StepsOf
  <2>4. ASSUME NEW a \in Call, NEW b \in Call, Continue(th, <<a, b>>), a.op = "removeExecutor",
               b.op = "dispatchTask"
        PROVE  Serves(t, t)
    <3>1. /\ a.op # "addTask" /\ b.op # "addTask" /\ a \notin Takers(t) /\ a \notin Ends(t) /\ b \notin Ends(t)
          /\ a \notin Returning(t) /\ b \notin Returning(t)
      BY <2>4 DEF Ends, Takers, Carriers, TokenOps, Returning
    <3>2. /\ Fate(t)'
          /\ RunnerOf(t) = NoExec /\ RunnerOf(t)' = NoExec
          /\ Stage(t) = IF f \in Returning(t) THEN "returned" ELSE "waiting"
          /\ Stage(t)' = IF a \in Returning(t) \/ b \in Returning(t) THEN "returned" ELSE "waiting"
      BY <1>1, <2>1, <2>3, <2>4, <3>1, CarriesOnTwo
    <3>3. QED
      BY <2>3, <3>1, <3>2 DEF Serves, Turn, Stay, Goes
  <2>5. ASSUME NEW a \in Call, Continue(th, <<a>>), a.op = "storeTask", a.task = t, a.flag = f.flag
        PROVE  Serves(t, t)
    <3>1. /\ a.op # "addTask" /\ a \notin Ends(t)
          /\ a \in Returning(t) <=> f \in Returning(t)
      BY <1>1, <1>3, <2>5 DEF Ends, Returning, d
    <3>2. /\ Fate(t)'
          /\ RunnerOf(t) = NoExec /\ RunnerOf(t)' = NoExec
          /\ Stage(t) = IF f \in Returning(t) THEN "returned" ELSE "waiting"
          /\ Stage(t)' = IF a \in Returning(t) THEN "returned" ELSE "waiting"
      BY <1>1, <2>1, <2>3, <2>5, <3>1, CarriesOnOne
    <3>3. QED
      BY <2>3, <3>1, <3>2 DEF Serves, Turn, Stay
  <2>6. ASSUME NEW a \in Call, NEW r \in Seq(Call), Continue(th, <<a>> \o r), a.op = "send",
               r = <<>> \/ \E b \in Call : r = <<b>> /\ b.op = "removeTask"
        PROVE  Serves(t, t)
    <3> DEFINE k == <<a>>
               g == k \o r
    <3>1. \A S : k \in Seq(Call) /\ (Has(k, S) <=> a \in S) /\ AtMostOne(k, S)
      BY HasSingle
    <3>2. a \notin Takers(t)
      BY <2>6, NotTaker DEF TokenOps
    <3>3. \A S : AtMostOne(r, S)
      BY <2>6, HasNone, HasSingle
    <3>4. ~Has(r, Adds(t)) /\ ~Has(r, Returning(t))
      <4>1. \A b \in Call : b.op = "removeTask" => b \notin Adds(t) /\ b \notin Returning(t)
        BY DEF Adds, Returning
      <4>2. QED
        BY <2>6, <4>1, HasNone, HasSingle
    <3> HIDE DEF k
    <3>5. \A S : /\ Has(g, S) <=> Has(k, S) \/ Has(r, S)
                 /\ AtMostOne(k, S) /\ AtMostOne(r, S) /\ ~(Has(k, S) /\ Has(r, S)) => AtMostOne(g, S)
      BY <3>1, HasConcat
    <3>6. g \in Seq(Call) /\ Continue(th, g)
      BY <2>6, <3>1, ConcatProperties DEF k
    <3> HIDE DEF g
    <3>7. AtMostOne(g, Takers(t)) /\ ~Has(g, Adds(t)) /\ ~Has(g, Returning(t))
      BY <3>1, <3>2, <3>3, <3>4, <3>5, TakerParts
    <3>8. /\ Fate(t)'
          /\ RunnerOf(t) = NoExec /\ RunnerOf(t)' = NoExec
          /\ Stage(t) = IF f \in Returning(t) THEN "returned" ELSE "waiting"
          /\ Stage(t)' = IF Has(g, Returning(t)) THEN "returned" ELSE "waiting"
      BY <1>1, <2>1, <2>3, <3>6, <3>7, CarriesOn
    <3>9. QED
      BY <2>3, <3>7, <3>8 DEF Serves, Turn, Stay, Goes
  <2>7. QED
    BY <1>2, <1>3, <2>4, <2>5, <2>6, StoreKeepsFlag DEF d
<1>4. CASE t # d
  <2>1. f \notin Takers(t)
    BY <1>1, <1>4, NotTaker DEF d
  <2>2. ASSUME Unheard(t) PROVE Serves(t, d)
    BY <1>1, <2>2, SameApart, Aside DEF Token
  <2>3. ASSUME NEW a \in Call, NEW b \in Call, Continue(th, <<a, b>>), a.op = "removeExecutor",
               b.op = "dispatchTask", b.task = d
        PROVE  Unheard(t)
    <3>1. a \notin Takers(t) /\ b \notin Takers(t)
      BY <1>4, <2>3, NotTaker DEF TokenOps
    <3>2. QED
      BY <1>1, <2>1, <2>3, <3>1, GoesUnheardTwo
  <2>4. ASSUME NEW a \in Call, Continue(th, <<a>>), a.op = "storeTask", a.task = d PROVE Unheard(t)
    <3>1. a \notin Takers(t)
      BY <1>4, <2>4, NotTaker DEF TokenOps
    <3>2. QED
      BY <1>1, <2>1, <2>4, <3>1, GoesUnheardOne
  <2>5. ASSUME NEW a \in Call, NEW r \in Seq(Call), Continue(th, <<a>> \o r), a.op = "send",
               r = <<>> \/ \E b \in Call : r = <<b>> /\ b.op = "removeTask" /\ b.task = d
        PROVE  Unheard(t)
    <3>1. a \notin Takers(t)
      BY <2>5, NotTaker DEF TokenOps
    <3>2. \A b \in Call : b.op = "removeTask" /\ b.task = d => b \notin Takers(t)
      BY <1>4, NotTaker
    <3>3. ~Has(r, Takers(t))
      BY <2>5, <3>2, HasNone, HasSingle
    <3> DEFINE k == <<a>>
               g == k \o r
    <3>4. k \in Seq(Call) /\ ~Has(k, Takers(t))
      BY <3>1, HasSingle
    <3>5. Continue(th, g)
      BY <2>5
    <3> HIDE DEF k
    <3>6. g \in Seq(Call) /\ ~Has(g, Takers(t))
      BY <3>3, <3>4, HasConcat, ConcatProperties
    <3> HIDE DEF g
    <3>7. QED
      BY <1>1, <2>1, <3>5, <3>6, GoesUnheard
  <2>6. QED
    BY <1>2, <2>2, <2>3, <2>4, <2>5, StoreKeepsFlag DEF d
<1>5. QED
  BY <1>3, <1>4 DEF d

\* the result of a run that was done is one step more
LEMMA StoreTaskSteps ==
  ASSUME TypeInv, NEW th \in Thread, StoreTask(th), NEW t \in Task
  PROVE  /\ t # Top(th).task => etask'[t] = etask[t]
         /\ t = Top(th).task => StepsOf(t)' = IF t \in tasks /\ Top(th).flag THEN StepsOf(t) + 1 ELSE StepsOf(t)
<1> DEFINE f == Top(th)
           d == f.task
<1>1. d \in Task /\ f.type \in Type
  BY StoreTaskSeen
<1>2. etask \in [Task -> ETaskType]
  BY DEF TypeInv, MindTypeOK
<1>3. etask[d] \in ETaskType /\ etask[d].path \in Seq(Type)
  BY <1>1, <1>2 DEF ETaskType
<1> DEFINE p == Append(etask[d].path, f.type)
<1>4. Len(p) = Len(etask[d].path) + 1
  BY <1>1, <1>3, AppendProperties
<1>5. CASE d \in tasks /\ f.flag
  <2> DEFINE x == [etask[d] EXCEPT !.path = p]
  <2>1. etask' = [etask EXCEPT ![d] = x]
    BY <1>5 DEF StoreTask
  <2>2. x.path = p
    BY <1>3 DEF ETaskType
  <2> HIDE DEF x, p
  <2>3. etask'[d].path = p /\ (t # d => etask'[t] = etask[t])
    BY <1>1, <1>2, <2>1, <2>2
  <2> HIDE DEF d
  <2>4. t = d => StepsOf(t)' = StepsOf(t) + 1
    BY <1>4, <2>3 DEF StepsOf
  <2>5. QED
    BY <1>5, <2>3, <2>4 DEF d
<1>6. CASE ~(d \in tasks /\ f.flag)
  <2>1. UNCHANGED etask
    BY <1>6 DEF StoreTask
  <2>2. QED
    BY <1>6, <2>1 DEF StepsOf
<1>7. QED
  BY <1>5, <1>6

LEMMA StoreTaskServes ==
  ASSUME TypeInv, NEW t \in Task, Fate(t), Token(t), InOnePlace(t)', NEW th \in Thread, StoreTask(th)
  PROVE  Serves(t, Top(th).task)
<1> DEFINE f == Top(th)
           d == f.task
<1>1. /\ stack[th] # <<>> /\ f \in Call /\ f.op = "storeTask" /\ d \in Task
      /\ UNCHANGED <<taskInQueue, freezer, execTasks, tasks>>
  BY StoreTaskSeen, TopIsCall DEF At, qvars, svars
<1>2. PICK b \in Call :
        /\ b.op = "send"
        /\ \/ d \notin tasks /\ Continue(th, <<b>>)
           \/ /\ d \in tasks
              /\ \E a \in Call : /\ Continue(th, <<a, b>>)
                                 /\ a.op \in {"dispatchTask", "freezeTask"}
                                 /\ a.task = d
  BY StoreTaskSeen
<1> HIDE DEF d
<1>3. b \notin Takers(t)
  BY <1>2, NotTaker DEF TokenOps
<1>4. CASE t = d
  <2>1. f \in Carriers(t) \ Adds(t)
    BY <1>1, <1>4 DEF Carriers, TokenOps, Adds, Busy, BusyOps, d
  <2>2. t \in tasks /\ ~Placed(t) /\ \A e \in Exec : ~Held(t, e)
    BY <1>1, <2>1, CarrierKnown
  <2>3. /\ \A e \in Exec : ~Held(t, e)'
        /\ ~Frozen(t)' /\ ~Queued(t)' /\ (t \in tasks' <=> t \in tasks)
    BY <1>1, <2>2 DEF Held, Placed, Queued, Frozen
  <2>4. PICK a \in Call : Continue(th, <<a, b>>) /\ a.op \in {"dispatchTask", "freezeTask"}
    BY <1>2, <1>4, <2>2
  <2>5. /\ a.op # "addTask" /\ b.op # "addTask" /\ a \notin Ends(t) /\ b \notin Ends(t)
        /\ a \notin Returning(t) /\ b \notin Returning(t)
    BY <1>2, <2>4 DEF Ends, Returning
  <2>6. /\ Fate(t)'
        /\ RunnerOf(t) = NoExec /\ RunnerOf(t)' = NoExec
        /\ Stage(t) = IF f \in Returning(t) THEN "returned" ELSE "waiting"
        /\ Stage(t)' = IF a \in Returning(t) \/ b \in Returning(t) THEN "returned" ELSE "waiting"
    BY <1>1, <1>3, <2>1, <2>3, <2>4, <2>5, CarriesOnTwo
  <2>7. f \in Returning(t) <=> f.flag
    BY <1>1, <1>4 DEF Returning, d
  <2>8. StepsOf(t)' = IF f.flag THEN StepsOf(t) + 1 ELSE StepsOf(t)
    BY <1>4, <2>2, StoreTaskSteps DEF d
  <2>9. CASE f.flag
    BY <1>4, <2>5, <2>6, <2>7, <2>8, <2>9 DEF Serves, Turn, Goes, d
  <2>10. CASE ~f.flag
    BY <1>4, <2>5, <2>6, <2>7, <2>8, <2>10 DEF Serves, Turn, Stay, d
  <2>11. QED
    BY <2>9, <2>10
<1>5. CASE t # d
  <2>1. f \notin Takers(t)
    BY <1>1, <1>5, NotTaker DEF d
  <2>2. etask'[t] = etask[t]
    BY <1>5, StoreTaskSteps DEF d
  <2>3. ASSUME NEW a \in Call, Continue(th, <<a, b>>), a.op \in {"dispatchTask", "freezeTask"}, a.task = d
        PROVE  Unheard(t)
    <3>1. a \notin Takers(t)
      BY <1>5, <2>3, NotTaker
    <3>2. QED
      BY <1>1, <1>3, <2>1, <2>3, <3>1, GoesUnheardTwo
  <2>4. Unheard(t)
    BY <1>1, <1>2, <1>3, <2>1, <2>3, GoesUnheardOne
  <2>5. QED
    BY <1>1, <2>2, <2>4, SameApart, Aside DEF Token
<1>6. QED
  BY <1>4, <1>5

\* a task nobody asked for is asked for
LEMMA RequestServes ==
  ASSUME TypeInv, Once, NEW t \in Task, Fate(t), Token(t), InOnePlace(t)',
         NEW th \in Worker, NEW d \in Task, NEW kind \in Requests, Request(th, d, kind)
  PROVE  Serves(t, d)
<1>1. /\ UNCHANGED <<taskInQueue, freezer, execTasks, tasks, etask>> /\ th \in Thread
      /\ requests[d] < MaxRequests
  BY RequestSeen DEF Request, qvars, svars, mindvars, Thread
<1>2. requests[d] = 0
  <2>1. requests \in [Task -> Nat] /\ MaxRequests \in Nat
    BY DispatcherAssumption DEF TypeInv
  <2>2. QED
    BY <1>1, <2>1 DEF Once
<1>3. CASE t # d
  <2>1. \A f \in Call : f.task = d /\ f.op \in {"addTask", "removeTask"} => f \notin Takers(t)
    BY <1>3, NotTaker
  <2>2. ASSUME NEW g \in Seq(Call), Starts(th, g), ~Has(g, Takers(t)) PROVE Serves(t, d)
    BY <1>1, <2>2, StartsUnheard, SameApart, Aside DEF Token
  <2>3. ASSUME NEW a \in Call, a.op = "addTask", a.task = d, Starts(th, <<a>>) PROVE Serves(t, d)
    <3> DEFINE g == <<a>>
    <3>1. g \in Seq(Call) /\ Starts(th, g) /\ ~Has(g, Takers(t))
      BY <2>1, <2>3, HasSingle
    <3> HIDE DEF g
    <3>2. QED
      BY <2>2, <3>1
  <2>4. ASSUME NEW a \in Call, a.op = "addTask", a.task = d,
               NEW b \in Call, Starts(th, <<b, a>>), b.op = "removeTask", b.task = d
        PROVE  Serves(t, d)
    <3> DEFINE g == <<b, a>>
    <3>1. a \notin Takers(t) /\ b \notin Takers(t)
      BY <2>1, <2>4
    <3>2. g \in Seq(Call) /\ Starts(th, g) /\ ~Has(g, Takers(t))
      BY <2>4, <3>1, HasPair
    <3> HIDE DEF g
    <3>3. QED
      BY <2>2, <3>2
  <2>5. QED
    BY <2>3, <2>4, RequestBegins
<1>4. CASE t = d
  <2>1. t \notin tasks /\ ~Somewhere(stack, Carriers(t)) /\ ~Placed(t)
    BY <1>2, <1>4 DEF Token, Carried
  <2>2. /\ ~Somewhere(stack, Adds(t)) /\ ~Somewhere(stack, Returning(t))
        /\ ~Somewhere(stack, Carriers(t) \ Adds(t))
    BY <2>1, AddsCarry, TakerParts DEF Somewhere, Has
  <2>3. ~Somewhere(stack, Ends(t)) /\ etask[t].path = <<>>
    BY <2>1, <2>2 DEF Fate
  <2>4. t \notin tasks' /\ ~Placed(t)' /\ etask'[t].path = <<>>
    BY <1>1, <2>1, <2>3 DEF Placed, Queued, Frozen, Held
  <2>5. \A a \in Call : a.op = "addTask" /\ a.task = t =>
            /\ a \in Adds(t) /\ a \notin Ends(t) /\ a \notin Returning(t) /\ a \notin Carriers(t) \ Adds(t)
    BY DEF Adds, Busy, BusyOps, Ends, Returning
  <2>6. \A b \in Call : b.op = "removeTask" /\ b.task = t =>
            /\ b \in Ends(t) /\ b \notin Adds(t) /\ b \notin Returning(t) /\ b \notin Carriers(t) \ Adds(t)
    BY DEF Adds, Busy, BusyOps, Ends, Returning, Carriers, TokenOps
  <2>7. stack \in Stacks
    BY StackIsStacks
  <2>8. ASSUME Fate(t)', ~Somewhere(stack', Returning(t)) PROVE Serves(t, d)
    <3>1. Stay(t)
      BY <1>1, <2>2, <2>8, Stays DEF Token, Held, Frozen
    <3>2. QED
      BY <2>8, <3>1 DEF Serves, Turn
  <2>9. ASSUME NEW a \in Call, a.op = "addTask", a.task = d, Starts(th, <<a>>) PROVE Serves(t, d)
    <3>1. \A S : Somewhere(stack', S) <=> Somewhere(stack, S) \/ a \in S
      BY <1>1, <2>9, BeginsWith
    <3>2. /\ Somewhere(stack', Adds(t)) /\ ~Somewhere(stack', Ends(t))
          /\ ~Somewhere(stack', Carriers(t) \ Adds(t)) /\ ~Somewhere(stack', Returning(t))
      BY <1>4, <2>2, <2>3, <2>5, <2>9, <3>1
    <3>3. Fate(t)'
      BY <2>4, <3>2, NoneIsSole DEF Fate
    <3>4. QED
      BY <2>8, <3>2, <3>3
  <2>10. ASSUME NEW a \in Call, a.op = "addTask", a.task = d,
                NEW b \in Call, Starts(th, <<b, a>>), b.op = "removeTask", b.task = d
         PROVE  Serves(t, d)
    <3> DEFINE g == <<b, a>>
    <3>1. a \in Adds(t) /\ a \notin Ends(t) /\ a \notin Returning(t) /\ a \notin Carriers(t) \ Adds(t)
      BY <1>4, <2>5, <2>10
    <3>2. b \in Ends(t) /\ b \notin Adds(t) /\ b \notin Returning(t) /\ b \notin Carriers(t) \ Adds(t)
      BY <1>4, <2>6, <2>10
    <3>3. stack[th] = <<>>
      BY <2>10 DEF Starts, Idle
    <3>4. \A S : /\ Has(g, S) <=> b \in S \/ a \in S
                 /\ ~(b \in S /\ a \in S) => AtMostOne(g, S)
      BY HasPair
    <3>5. Follows(g, Ends(t), Adds(t))
      <4>1. 1 \in DOMAIN g /\ 2 \in DOMAIN g /\ 1 < 2 /\ g[1] = b /\ g[2] = a
        OBVIOUS
      <4>2. QED
        BY <3>1, <3>2, <4>1 DEF Follows
    <3>6. g \in Seq(Call) /\ stack' = [stack EXCEPT ![th] = g]
      BY <2>10 DEF Starts
    <3> HIDE DEF g
    <3>7. \A S : /\ Somewhere(stack', S) <=> Somewhere(stack, S) \/ Has(g, S)
                 /\ Sole(stack, S) /\ AtMostOne(g, S) /\ ~(Has(g, S) /\ Somewhere(stack, S))
                      => Sole(stack', S)
      BY <1>1, <2>7, <3>3, <3>6, Begun
    <3>8. Behind(stack', Ends(t), Adds(t))
      BY <1>1, <2>7, <3>3, <3>5, <3>6, BehindBegun
    <3>9. /\ Somewhere(stack', Adds(t)) /\ ~Somewhere(stack', Carriers(t) \ Adds(t))
          /\ ~Somewhere(stack', Returning(t))
      BY <2>2, <3>1, <3>2, <3>4, <3>7
    <3>10. Sole(stack', Ends(t))
      BY <2>3, <3>1, <3>4, <3>7, NoneIsSole
    <3>11. Fate(t)'
      BY <2>4, <3>8, <3>9, <3>10 DEF Fate
    <3>12. QED
      BY <2>8, <3>9, <3>11
  <2>11. QED
    BY <2>9, <2>10, RequestBegins
<1>5. QED
  BY <1>3, <1>4

(***************************************************************************)
(* What a call leads to: it fails, or the calls that follow it are of no   *)
(* kind in S.                                                              *)
(***************************************************************************)
Leads(th, S) ==
    \/ \E e : Abort(th, e)
    \/ \E g \in Seq(Call) : stack[th] # <<>> /\ Continue(th, g) /\ ~Has(g, S)

LEMMA LeadsToOne ==
  ASSUME NEW th \in Thread, stack[th] # <<>>, NEW S,
         Continue(th, <<>>) \/ \E a \in Call : Continue(th, <<a>>) /\ a \notin S
  PROVE  Leads(th, S)
<1>1. CASE Continue(th, <<>>)
  <2>1. <<>> \in Seq(Call) /\ ~Has(<<>>, S)
    BY HasNone
  <2>2. QED
    BY <1>1, <2>1 DEF Leads
<1>2. ASSUME NEW a \in Call, Continue(th, <<a>>), a \notin S PROVE Leads(th, S)
  <2>1. <<a>> \in Seq(Call) /\ ~Has(<<a>>, S)
    BY <1>2, HasSingle
  <2>2. QED
    BY <1>2, <2>1 DEF Leads
<1>3. QED
  BY <1>1, <1>2

LEMMA LeadsToPair ==
  ASSUME NEW th \in Thread, stack[th] # <<>>, NEW S, NEW a \in Call, NEW b \in Call,
         Continue(th, <<a, b>>), a \notin S, b \notin S
  PROVE  Leads(th, S)
<1>1. <<a, b>> \in Seq(Call) /\ ~Has(<<a, b>>, S)
  BY HasPair
<1>2. QED
  BY <1>1 DEF Leads

LEMMA LeadsToMore ==
  ASSUME NEW th \in Thread, stack[th] # <<>>, NEW S, NEW k \in Seq(Call), NEW r \in Seq(Call),
         Continue(th, k \o r), ~Has(k, S), ~Has(r, S)
  PROVE  Leads(th, S)
<1> DEFINE g == k \o r
<1>1. g \in Seq(Call) /\ ~Has(g, S) /\ Continue(th, g)
  BY HasConcat, ConcatProperties
<1> HIDE DEF g
<1>2. QED
  BY <1>1 DEF Leads

LEMMA LeadsToFills ==
  ASSUME NEW th \in Thread, stack[th] # <<>>, NEW S, \A f \in Fills : f \notin S,
         NEW g \in Seq(Fills), Continue(th, g)
  PROVE  Leads(th, S)
<1>1. g \in Seq(Call) /\ ~Has(g, S)
  BY HasNoFill DEF Fills
<1>2. QED
  BY <1>1 DEF Leads

(***************************************************************************)
(* The kinds of call that few steps lead to: an addTask comes from outside *)
(* only, the answer of an executor is handled by __taskReceived, and       *)
(* removeTask alone takes a task out of the freezer before its time.       *)
(***************************************************************************)
Rare == {"addTask", "removeFrozen", "taskReceived", "taskReturned", "storeTask"}

LEMMA ThreadStepLeads ==
  ASSUME TypeInv, Once, NEW th \in Thread, ThreadStep(th), NEW S, \A x \in S : x.op \in Rare,
         TaskReceived(th) \/ TaskReturned(th) => \A x \in S : x.op \in {"addTask", "removeFrozen"},
         RemoveTask(th) => \A x \in S : x.op = "removeFrozen" => x.task # Top(th).task
  PROVE  Leads(th, S)
<1> DEFINE f == Top(th)
<1>1. \A a \in Call :
        a.op \notin {"addTask", "removeFrozen", "taskReceived", "taskReturned", "storeTask"} => a \notin S
  BY DEF Rare
<1>2. \A a \in Fills : a \in Call /\ a \notin S
  BY <1>1 DEF Fills
<1>3. ASSUME NEW y \in Type \cup {NoType} PROVE Again(y) \in Seq(Fills)
  BY AgainFills
<1>4. CASE \/ AddExecutor(th) \/ AnnounceTypes(th) \/ FillAll(th) \/ FillLoop(th)
           \/ DisconnectClient(th) \/ RemoveExecutor(th)
  <2>1. CASE AddExecutor(th)
    <3>1. stack[th] # <<>> /\ \E g \in Seq(Fills) : Continue(th, g)
      BY <2>1, AddExecutorSeen DEF At
    <3>2. QED
      BY <1>2, <3>1, LeadsToFills
  <2>2. CASE AnnounceTypes(th)
    BY <1>2, <2>2, AnnounceTypesSeen, LeadsToFills DEF At
  <2>3. CASE FillAll(th)
    BY <1>2, <2>3, FillAllSeen, LeadsToFills DEF At
  <2>4. CASE FillLoop(th)
    <3>1. stack[th] # <<>> /\ (Continue(th, <<>>) \/ \E a \in Call : Continue(th, <<a>>) /\ a.op = "send")
      BY <2>4, FillLoopSeen DEF At
    <3>2. QED
      BY <1>1, <3>1, LeadsToOne
  <2>5. CASE DisconnectClient(th)
    BY <2>5, DisconnectClientSeen, LeadsToOne DEF At
  <2>6. CASE RemoveExecutor(th)
    <3>1. stack[th] # <<>>
          /\ (Continue(th, <<>>) \/ \E a \in Call : Continue(th, <<a>>) /\ a.op = "dropState")
      BY <2>6, RemoveExecutorSeen DEF At
    <3>2. QED
      BY <1>1, <3>1, LeadsToOne
  <2>7. QED
    BY <1>4, <2>1, <2>2, <2>3, <2>4, <2>5, <2>6
<1>5. CASE DropState(th) \/ Requeue(th)
  <2>1. CASE DropState(th)
    <3>1. stack[th] # <<>>
      BY <2>1, DropStateSeen DEF At
    <3>2. CASE Abort(th, f.exec)
      BY <3>2 DEF Leads
    <3>3. ASSUME NEW a \in Call, NEW b \in Call, NEW r \in Seq(Fills), Continue(th, <<a, b>> \o r),
                 a.op = "requeue", b.op = "closeTransport"
          PROVE  Leads(th, S)
      <4> DEFINE k == <<a, b>>
      <4>1. r \in Seq(Call) /\ ~Has(r, S)
        BY <1>2, HasNoFill
      <4>2. a \notin S /\ b \notin S
        BY <1>1, <3>3
      <4>3. k \in Seq(Call) /\ ~Has(k, S) /\ Continue(th, k \o r)
        BY <3>3, <4>2, HasPair
      <4> HIDE DEF k
      <4>4. QED
        BY <3>1, <4>1, <4>3, LeadsToMore
    <3>4. QED
      BY <2>1, <3>2, <3>3, DropStateSeen
  <2>2. CASE Requeue(th)
    <3>1. stack[th] # <<>>
      BY <2>2, RequeueSeen DEF At
    <3>2. CASE Abort(th, f.exec)
      BY <3>2 DEF Leads
    <3>3. CASE Continue(th, <<>>)
      BY <3>1, <3>3, LeadsToOne
    <3>4. ASSUME NEW a \in Call, NEW b \in Call, Continue(th, <<a, b>>), b.op = "requeue",
                 a.op \in {"dispatchTask", "pushTask"}
          PROVE  Leads(th, S)
      BY <1>1, <3>1, <3>4, LeadsToPair
    <3>5. QED
      BY <2>2, <3>2, <3>3, <3>4, RequeueSeen
  <2>3. QED
    BY <1>5, <2>1, <2>2
<1>6. CASE FreezeTask(th) \/ UnfreezeTasks(th) \/ AddTask(th) \/ DispatchTask(th)
  <2>1. CASE FreezeTask(th)
    <3>1. stack[th] # <<>>
          /\ (Continue(th, <<>>) \/ \E a \in Call : Continue(th, <<a>>) /\ a.op = "removeTask")
      BY <2>1, FreezeTaskSeen DEF At
    <3>2. QED
      BY <1>1, <3>1, LeadsToOne
  <2>2. CASE UnfreezeTasks(th)
    <3>1. stack[th] # <<>> /\ f \in Fills /\ f \in Call /\ f.loop \in Type \cup {NoType}
      <4>1. At(th, "unfreezeTasks") /\ f \in Fills
        BY <2>2, UnfreezeTasksSeen
      <4>2. QED
        BY <4>1, TopIsCall DEF At, Fills, Call, FrameType
    <3>2. f \notin S
      BY <1>2, <3>1
    <3>3. CASE Continue(th, Again(f.loop))
      BY <1>2, <1>3, <3>1, <3>3, LeadsToFills
    <3>4. ASSUME NEW a \in Fills, Continue(th, <<a>>) PROVE Leads(th, S)
      BY <1>2, <3>1, <3>4, LeadsToOne
    <3>5. CASE Continue(th, <<f>>)
      BY <3>1, <3>2, <3>5, LeadsToOne
    <3>6. ASSUME NEW a \in Call, Continue(th, <<a, f>>), a.op = "dispatchTask" PROVE Leads(th, S)
      <4>1. a \notin S
        BY <1>1, <3>6
      <4> HIDE DEF f
      <4>2. QED
        BY <3>1, <3>2, <3>6, <4>1, LeadsToPair
    <3>7. QED
      BY <2>2, <3>3, <3>4, <3>5, <3>6, UnfreezeTasksSeen
  <2>3. CASE AddTask(th)
    <3>1. stack[th] # <<>>
          /\ \/ \E g \in Seq(Fills) : Continue(th, g)
             \/ \E a \in Call : Continue(th, <<a>>) /\ a.op = "dispatchTask"
      BY <2>3, AddTaskSeen DEF At
    <3>2. QED
      BY <1>2, <1>1, <3>1, LeadsToFills, LeadsToOne
  <2>4. CASE DispatchTask(th)
    <3>1. stack[th] # <<>>
          /\ (Continue(th, <<>>) \/ \E a \in Call : Continue(th, <<a>>) /\ a.op = "getNextExecutor")
      BY <2>4, DispatchTaskSeen DEF At
    <3>2. QED
      BY <1>1, <3>1, LeadsToOne
  <2>5. QED
    BY <1>6, <2>1, <2>2, <2>3, <2>4
<1>7. CASE GetNextExecutor(th)
  <2>1. stack[th] # <<>>
        /\ \/ \E a \in Call : Continue(th, <<a>>) /\ a.op \in {"freezeTask", "removeTask"}
           \/ \E a, b \in Call : Continue(th, <<a, b>>) /\ a.op = "pushTask" /\ b \in Fills
    BY <1>7, GetNextExecutorSeen DEF At
  <2>2. \A b \in Fills : b \notin S
    BY <1>2
  <2>3. QED
    BY <1>1, <2>1, <2>2, LeadsToOne, LeadsToPair
<1>8. CASE \/ PushTaskStep(th) \/ RemoveQueued(th) \/ RemoveRunning(th) \/ RemoveFrozen(th)
  <2>1. stack[th] # <<>> /\ (Continue(th, <<>>) \/ \E g \in Seq(Fills) : Continue(th, g))
    BY <1>3, <1>8, PushTaskStepSeen, RemoveQueuedSeen, RemoveRunningSeen, RemoveFrozenSeen DEF At
  <2>2. QED
    BY <1>2, <2>1, LeadsToFills, LeadsToOne
<1>9. CASE RemoveTask(th)
  <2>1. stack[th] # <<>>
    BY <1>9, RemoveTaskSeen DEF At
  <2>2. CASE Continue(th, <<>>)
    BY <2>1, <2>2, LeadsToOne
  <2>3. ASSUME CleanUp(th, f.task) PROVE Leads(th, S)
    <3>1. PICK a, b, c \in Call, r \in Seq(Call) :
            /\ Continue(th, <<a, b, c>> \o r)
            /\ a.op = "removeQueued" /\ a.task = f.task
            /\ b.op = "removeRunning" /\ b.task = f.task
            /\ c.op = "removeFrozen" /\ c.task = f.task
            /\ \/ taskInExec[f.task] = NoExec /\ r = <<>>
               \/ \E x \in Call : r = <<x>> /\ x.op = "sendIfIdle" /\ x.exec = taskInExec[f.task]
      BY <2>3 DEF CleanUp
    <3> DEFINE k == <<a, b, c>>
    <3>2. a \notin S /\ b \notin S /\ c \notin S
      BY <1>1, <1>9, <3>1
    <3>3. k \in Seq(Call) /\ ~Has(k, S)
      BY <3>2, HasTriple
    <3>4. ~Has(r, S)
      BY <1>1, <3>1, HasNone, HasSingle
    <3>5. Continue(th, k \o r)
      BY <3>1
    <3> HIDE DEF k
    <3>6. QED
      BY <2>1, <3>1, <3>3, <3>4, <3>5, LeadsToMore
  <2>4. QED
    BY <1>9, <2>2, <2>3, RemoveTaskSeen
<1>10. CASE Send(th) \/ SendIfIdle(th) \/ HandOver(th) \/ Message(th)
  <2>1. CASE Send(th)
    <3>1. stack[th] # <<>> /\ Again(f.loop) \in Seq(Fills)
      BY <1>3, <2>1, SendSeen DEF At
    <3>2. ASSUME NEW y \in Type, Picked(th, f, y) PROVE Leads(th, S)
      <4>1. \E a \in Call : Continue(th, <<a>>) /\ a.op = "handOver"
        BY <3>2 DEF Picked
      <4>2. QED
        BY <1>1, <3>1, <4>1, LeadsToOne
    <3>3. CASE Continue(th, Again(f.loop))
      BY <1>2, <3>1, <3>3, LeadsToFills
    <3>4. CASE Continue(th, <<>>)
      BY <3>1, <3>4, LeadsToOne
    <3>5. QED
      BY <2>1, <3>2, <3>3, <3>4, SendSeen
  <2>2. CASE SendIfIdle(th)
    <3>1. stack[th] # <<>> /\ (Continue(th, <<>>) \/ \E a \in Call : Continue(th, <<a>>) /\ a.op = "send")
      BY <2>2, SendIfIdleSeen DEF At
    <3>2. QED
      BY <1>1, <3>1, LeadsToOne
  <2>3. CASE HandOver(th)
    <3>1. stack[th] # <<>> /\ \E a \in Call : Continue(th, <<a>>) /\ a.op = "message"
      BY <2>3, HandOverSeen DEF At
    <3>2. QED
      BY <1>1, <3>1, LeadsToOne
  <2>4. CASE Message(th)
    <3>1. stack[th] # <<>> /\ Again(f.loop) \in Seq(Fills)
      BY <1>3, <2>4, MessageSeen DEF At
    <3>2. \/ \E a \in Call : Continue(th, <<a>>) /\ a.op = "removeRunning"
          \/ Continue(th, Again(f.loop))
      BY <2>4, MessageSeen DEF Once
    <3>3. QED
      BY <1>2, <1>1, <3>1, <3>2, LeadsToOne, LeadsToFills
  <2>5. QED
    BY <1>10, <2>1, <2>2, <2>3, <2>4
<1>11. CASE TaskReceived(th) \/ TaskReturned(th)
  <2>1. stack[th] # <<>>
    BY <1>11, TaskReceivedSeen, TaskReturnedSeen DEF At
  <2>2. \A a \in Call : a.op \notin {"addTask", "removeFrozen"} => a \notin S
    BY <1>11
  <2>3. CASE TaskReceived(th)
    <3>1. \/ Continue(th, <<>>)
          \/ \E a \in Call : Continue(th, <<a>>) /\ a.op \in {"taskReturned", "send"}
      BY <2>3, TaskReceivedSeen
    <3>2. QED
      BY <2>1, <2>2, <3>1, LeadsToOne
  <2>4. CASE TaskReturned(th)
    <3>1. CASE Abort(th, f.exec)
      BY <3>1 DEF Leads
    <3>2. ASSUME NEW a \in Call, NEW b \in Call, Continue(th, <<a, b>>), a.op = "removeExecutor",
                 b.op = "dispatchTask"
          PROVE  Leads(th, S)
      BY <2>1, <2>2, <3>2, LeadsToPair
    <3>3. ASSUME NEW a \in Call, Continue(th, <<a>>), a.op = "storeTask" PROVE Leads(th, S)
      BY <2>1, <2>2, <3>3, LeadsToOne
    <3>4. ASSUME NEW a \in Call, NEW r \in Seq(Call), Continue(th, <<a>> \o r), a.op = "send",
                 r = <<>> \/ \E b \in Call : r = <<b>> /\ b.op = "removeTask"
          PROVE  Leads(th, S)
      <4> DEFINE k == <<a>>
      <4>1. k \in Seq(Call) /\ ~Has(k, S)
        BY <2>2, <3>4, HasSingle
      <4>2. ~Has(r, S)
        BY <2>2, <3>4, HasNone, HasSingle
      <4>3. Continue(th, k \o r)
        BY <3>4
      <4> HIDE DEF k
      <4>4. QED
        BY <2>1, <4>1, <4>2, <4>3, LeadsToMore
    <3>5. QED
      BY <2>4, <3>1, <3>2, <3>3, <3>4, StoreKeepsFlag
  <2>5. QED
    BY <1>11, <2>3, <2>4
<1>12. CASE StoreTask(th)
  <2>1. stack[th] # <<>>
        /\ \/ \E b \in Call : Continue(th, <<b>>) /\ b.op = "send"
           \/ \E a, b \in Call : Continue(th, <<a, b>>) /\ b.op = "send" /\ a.op \in {"dispatchTask", "freezeTask"}
    BY <1>12, StoreTaskSeen DEF At
  <2>2. QED
    BY <1>1, <2>1, LeadsToOne, LeadsToPair
<1>13. QED
  BY <1>4, <1>5, <1>6, <1>7, <1>8, <1>9, <1>10, <1>11, <1>12 DEF ThreadStep

(***************************************************************************)
(* A thread that handles an answer does nothing else.                      *)
(***************************************************************************)
LEMMA LoneGoes ==
  ASSUME TypeInv, Lone, NEW th \in Thread, stack[th] # <<>>, NEW g \in Seq(Call), Continue(th, g),
         ~Has(g, Returns)
  PROVE  Lone'
<1>1. /\ stack[th] \in Seq(Call) /\ Tail(stack[th]) \in Seq(Call) /\ stack'[th] = g \o Tail(stack[th])
      /\ \A c \in Thread : c # th => stack'[c] = stack[c]
  <2>1. stack \in Stacks
    BY StackIsStacks
  <2>2. stack[th] \in Seq(Call) /\ Tail(stack[th]) \in Seq(Call)
    BY <2>1, HeadTailProperties DEF Stacks
  <2>3. QED
    BY <2>1, <2>2 DEF Continue, Stacks
<1> DEFINE r == Tail(stack[th])
<1>2. r \in Seq(Call) /\ ~Has(r, Returns)
  <2>1. Has(r, Returns) => Has(stack[th], Returns)
    BY <1>1, HasHeadTail
  <2>2. QED
    BY <1>1, <2>1, HasNone DEF Lone
<1>3. stack'[th] = g \o r
  BY <1>1
<1> HIDE DEF r
<1>4. ~Has(g \o r, Returns)
  BY <1>2, HasConcat
<1>5. QED
  BY <1>1, <1>3, <1>4 DEF Lone

LEMMA LoneEnds ==
  ASSUME TypeInv, Lone, NEW th \in Thread, NEW e, Abort(th, e) PROVE Lone'
<1>1. stack'[th] = <<>> /\ \A c \in Thread : c # th => stack'[c] = stack[c]
  BY StackIsStacks DEF Abort, Stacks
<1>2. QED
  BY <1>1, HasNone DEF Lone

LEMMA LoneGoesOn ==
  ASSUME TypeInv, Lone, NEW th \in Thread, Leads(th, Returns) PROVE Lone'
<1>1. CASE \E e : Abort(th, e)
  BY <1>1, LoneEnds
<1>2. CASE \E g \in Seq(Call) : stack[th] # <<>> /\ Continue(th, g) /\ ~Has(g, Returns)
  BY <1>2, LoneGoes
<1>3. QED
  BY <1>1, <1>2 DEF Leads

\* an answer is handled by one call after the other
LEMMA LoneReturns ==
  ASSUME TypeInv, Lone, NEW th \in Thread, stack[th] # <<>>, Top(th) \in Returns,
         NEW a \in Call, Continue(th, <<a>>)
  PROVE  Lone'
<1>1. stack[th] \in Seq(Call) /\ \A c \in Thread : c # th => stack'[c] = stack[c]
  BY StackIsStacks DEF Stacks, Continue
<1>2. Tail(stack[th]) = <<>>
  <2>1. Has(stack[th], Returns)
    BY <1>1, HasHeadTail DEF Top
  <2>2. QED
    BY <2>1 DEF Lone
<1>3. stack'[th] = <<a>> \o Tail(stack[th])
  BY StackIsStacks DEF Stacks, Continue
<1>4. Tail(stack'[th]) = <<>>
  BY <1>2, <1>3
<1>5. QED
  BY <1>1, <1>4 DEF Lone

LEMMA LoneStarts ==
  ASSUME TypeInv, Lone, NEW th \in Thread, NEW g \in Seq(Call), Starts(th, g),
         ~Has(g, Returns) \/ \E a \in Call : g = <<a>>
  PROVE  Lone'
<1>1. stack'[th] = g /\ \A c \in Thread : c # th => stack'[c] = stack[c]
  BY StackIsStacks DEF Starts, Stacks
<1>2. ~Has(g, Returns) \/ Tail(g) = <<>>
  <2>1. ASSUME NEW a \in Call, g = <<a>> PROVE Tail(g) = <<>>
    <3>1. Tail(<<a>>) = <<>>
      OBVIOUS
    <3>2. QED
      BY <2>1, <3>1, Zenon
  <2>2. QED
    BY <2>1
<1>3. QED
  BY <1>1, <1>2 DEF Lone

LEMMA ThreadStepLone == ASSUME TypeInv, Once, Lone, NEW th \in Thread, ThreadStep(th) PROVE Lone'
<1> DEFINE f == Top(th)
<1>1. CASE TaskReceived(th) \/ TaskReturned(th)
  <2>1. stack[th] # <<>> /\ f \in Returns
    BY <1>1, TaskReceivedSeen, TaskReturnedSeen, TopIsCall DEF At, Returns
  <2>2. \A a \in Call : Continue(th, <<a>>) => Lone'
    BY <2>1, LoneReturns
  <2>3. ASSUME NEW g \in Seq(Call), Continue(th, g), ~Has(g, Returns) PROVE Lone'
    BY <2>1, <2>3, LoneGoes
  <2>4. CASE TaskReceived(th)
    <3>1. Continue(th, <<>>) \/ \E a \in Call : Continue(th, <<a>>)
      BY <2>4, TaskReceivedSeen
    <3>2. <<>> \in Seq(Call) /\ ~Has(<<>>, Returns)
      BY HasNone
    <3>3. QED
      BY <2>2, <2>3, <3>1, <3>2
  <2>5. CASE TaskReturned(th)
    <3>1. CASE Abort(th, f.exec)
      BY <3>1, LoneEnds
    <3>2. ASSUME NEW a \in Call, NEW b \in Call, Continue(th, <<a, b>>), a.op = "removeExecutor",
                 b.op = "dispatchTask"
          PROVE  Lone'
      <4>1. a \notin Returns /\ b \notin Returns
        BY <3>2 DEF Returns
      <4>2. <<a, b>> \in Seq(Call) /\ ~Has(<<a, b>>, Returns)
        BY <4>1, HasPair
      <4>3. QED
        BY <2>3, <3>2, <4>2
    <3>3. ASSUME NEW a \in Call, NEW r \in Seq(Call), Continue(th, <<a>> \o r), a.op = "send",
                 r = <<>> \/ \E b \in Call : r = <<b>> /\ b.op = "removeTask"
          PROVE  Lone'
      <4> DEFINE k == <<a>>
                 g == k \o r
      <4>1. \A b \in Call : b.op \in {"send", "removeTask"} => b \notin Returns
        BY DEF Returns
      <4>2. k \in Seq(Call) /\ ~Has(k, Returns)
        BY <3>3, <4>1, HasSingle
      <4>3. ~Has(r, Returns)
        BY <3>3, <4>1, HasNone, HasSingle
      <4>4. Continue(th, g)
        BY <3>3
      <4> HIDE DEF k
      <4>5. g \in Seq(Call) /\ ~Has(g, Returns)
        BY <4>2, <4>3, HasConcat, ConcatProperties
      <4> HIDE DEF g
      <4>6. QED
        BY <2>3, <4>4, <4>5
    <3>4. QED
      BY <2>2, <2>5, <3>1, <3>2, <3>3, StoreKeepsFlag
  <2>6. QED
    BY <1>1, <2>4, <2>5
<1>2. CASE ~TaskReceived(th) /\ ~TaskReturned(th)
  <2>1. \A x \in Returns : x.op \in Rare /\ x.op # "removeFrozen"
    BY DEF Returns, Rare
  <2> DEFINE S == Returns
  <2>2. /\ \A x \in S : x.op \in Rare
        /\ TaskReceived(th) \/ TaskReturned(th) => \A x \in S : x.op \in {"addTask", "removeFrozen"}
        /\ RemoveTask(th) => \A x \in S : x.op = "removeFrozen" => x.task # Top(th).task
    BY <1>2, <2>1
  <2>3. Leads(th, S)
    <3> HIDE DEF S
    <3>1. QED
      BY <2>2, ThreadStepLeads
  <2>4. QED
    BY <2>3, LoneGoesOn
<1>3. QED
  BY <1>1, <1>2

LEMMA InitLone == Init => Lone
BY HasNone DEF Init, Lone

LEMMA NextLone == ASSUME TypeInv, Retained, Lone, [Next]_vars PROVE Lone'
<1>1. ASSUME UNCHANGED stack PROVE Lone'
  BY <1>1 DEF Lone
<1>2. ASSUME NEW th \in Worker, NEW e \in Exec, Connect(th, e) \/ HandleDrop(th, e) PROVE Lone'
  <2>1. th \in Thread /\ \E a \in Call : Starts(th, <<a>>)
    BY <1>2, ConnectSeen, HandleDropSeen DEF Thread
  <2>2. PICK a \in Call : Starts(th, <<a>>)
    BY <2>1
  <2>3. <<a>> \in Seq(Call)
    OBVIOUS
  <2>4. QED
    BY <2>1, <2>2, <2>3, LoneStarts
<1>3. ASSUME NEW e \in Exec, Disconnect(e) PROVE Lone'
  BY <1>1, <1>3, DisconnectSeen
<1>4. ASSUME NEW th \in Worker, NEW e \in Exec, NEW kind \in Replies, HandleReply(th, e, kind) PROVE Lone'
  <2>1. th \in Thread /\ \E t \in Task : Answered(th, e, t)
    BY <1>4, HandleReplySeen DEF Thread
  <2>2. ASSUME NEW a \in Call, Starts(th, <<a>>) PROVE Lone'
    <3>1. <<a>> \in Seq(Call)
      OBVIOUS
    <3>2. QED
      BY <2>1, <2>2, <3>1, LoneStarts
  <2>3. ASSUME NEW a \in Call, NEW b \in Call, Starts(th, <<a, b>>), a.op = "removeExecutor",
               b.op = "closeTransport"
        PROVE  Lone'
    <3>1. a \notin Returns /\ b \notin Returns
      BY <2>3 DEF Returns
    <3>2. <<a, b>> \in Seq(Call) /\ ~Has(<<a, b>>, Returns)
      BY <3>1, HasPair
    <3>3. QED
      BY <2>1, <2>3, <3>2, LoneStarts
  <2>4. QED
    BY <2>1, <2>2, <2>3 DEF Answered
<1>5. ASSUME NEW th \in Worker, NEW t \in Task, NEW kind \in Requests, Request(th, t, kind) PROVE Lone'
  <2>1. th \in Thread
    BY DEF Thread
  <2>2. ASSUME NEW a \in Call, Starts(th, <<a>>) PROVE Lone'
    <3>1. <<a>> \in Seq(Call)
      OBVIOUS
    <3>2. QED
      BY <2>1, <2>2, <3>1, LoneStarts
  <2>3. ASSUME NEW a \in Call, NEW b \in Call, Starts(th, <<b, a>>), a.op = "addTask", b.op = "removeTask"
        PROVE  Lone'
    <3>1. a \notin Returns /\ b \notin Returns
      BY <2>3 DEF Returns
    <3>2. <<b, a>> \in Seq(Call) /\ ~Has(<<b, a>>, Returns)
      BY <3>1, HasPair
    <3>3. QED
      BY <2>1, <2>3, <3>2, LoneStarts
  <2>4. QED
    BY <1>5, <2>2, <2>3, RequestBegins
<1>6. CASE Periodic
  <2>1. Scheduler \in Thread
    BY DEF Thread
  <2>2. PICK g \in Seq(Fills) : Starts(Scheduler, g)
    BY <1>6, PeriodicSeen
  <2>3. \A f \in Fills : f \in Call /\ f \notin Returns
    BY DEF Fills, Returns
  <2>4. g \in Seq(Call) /\ ~Has(g, Returns)
    BY <2>3, HasNoFill
  <2>5. QED
    BY <2>1, <2>2, <2>4, LoneStarts
<1>7. ASSUME NEW t \in Task, Ripen(t) PROVE Lone'
  BY <1>1, <1>7, RipenSeen
<1>8. ASSUME NEW th \in Thread, ThreadStep(th) PROVE Lone'
  BY <1>8, ThreadStepLone DEF Retained
<1>9. CASE UNCHANGED vars
  BY <1>1, <1>9 DEF vars
<1>10. QED
  BY <1>2, <1>3, <1>4, <1>5, <1>6, <1>7, <1>8, <1>9 DEF Next

LEMMA SpecLone == ASSUME Retained PROVE Spec => []Lone
<1>1. TypeInv /\ Lone /\ [Next]_vars => Lone'
  BY NextLone
<1>2. QED
  BY <1>1, InitLone, SpecTypeInv, PTL DEF Spec

(***************************************************************************)
(* Every step is a turn of one task, or the end of one executor.           *)
(***************************************************************************)
LEMMA ThreadStepServes ==
  ASSUME TypeInv, Once, Lone, FateInv, TokenInv, TokenInv', NEW th \in Thread, ThreadStep(th)
  PROVE  StepServes \/ StepCrashes
<1>1. ASSUME NEW t \in Task PROVE Fate(t) /\ Token(t) /\ InOnePlace(t) /\ InOnePlace(t)'
  BY DEF FateInv, TokenInv, Token
<1>2. CASE DropState(th)
  BY <1>2, DropStateServes
<1>3. CASE UnfreezeTasks(th)
  BY <1>3, UnfreezeTasksServes
<1>4. CASE \/ AddExecutor(th) \/ AnnounceTypes(th) \/ FillAll(th) \/ FillLoop(th) \/ SendIfIdle(th)
           \/ RemoveExecutor(th) \/ DisconnectClient(th) \/ Message(th) \/ RemoveQueued(th)
           \/ Requeue(th) \/ Send(th)
  <2>1. ASSUME NEW t \in Task PROVE Serves(t, NoTask)
    BY <1>1, <1>4, AddExecutorAside, AnnounceTypesAside, FillAllAside, FillLoopAside, SendIfIdleAside,
       RemoveExecutorAside, DisconnectClientAside, MessageAside, RemoveQueuedAside, RequeueServes, SendServes
  <2>2. QED
    BY <2>1 DEF StepServes
<1>5. CASE \/ FreezeTask(th) \/ AddTask(th) \/ DispatchTask(th) \/ GetNextExecutor(th) \/ PushTaskStep(th)
           \/ RemoveTask(th) \/ RemoveRunning(th) \/ RemoveFrozen(th) \/ HandOver(th)
           \/ TaskReceived(th) \/ TaskReturned(th) \/ StoreTask(th)
  <2>1. ASSUME NEW t \in Task PROVE Serves(t, Top(th).task)
    BY <1>1, <1>5, FreezeTaskServes, AddTaskServes, DispatchTaskServes, GetNextExecutorServes,
       PushTaskStepServes, RemoveTaskServes, RemoveRunningServes, RemoveFrozenServes, HandOverServes,
       TaskReceivedServes, TaskReturnedServes, StoreTaskServes
  <2>2. QED
    BY <2>1 DEF StepServes
<1>6. QED
  BY <1>2, <1>3, <1>4, <1>5 DEF ThreadStep

LEMMA NextServes ==
  ASSUME TypeInv, Retained, Lone, FateInv, TokenInv, TokenInv', [Next]_vars
  PROVE  StepServes \/ StepCrashes
<1>1. ASSUME NEW t \in Task PROVE Fate(t) /\ Token(t) /\ InOnePlace(t) /\ InOnePlace(t)'
  BY DEF FateInv, TokenInv, Token
<1>2. ASSUME NEW th \in Worker, NEW e \in Exec, Connect(th, e) \/ HandleDrop(th, e) PROVE StepServes
  <2>1. ASSUME NEW t \in Task PROVE Serves(t, NoTask)
    BY <1>1, <1>2, ConnectAside
  <2>2. QED
    BY <2>1 DEF StepServes
<1>3. ASSUME \/ \E e \in Exec : Disconnect(e)
             \/ \E c \in Task : Ripen(c)
             \/ UNCHANGED vars
      PROVE  StepServes
  <2>1. ASSUME NEW t \in Task PROVE Serves(t, NoTask)
    BY <1>1, <1>3, StandsAside
  <2>2. QED
    BY <2>1 DEF StepServes
<1>4. ASSUME NEW th \in Worker, NEW e \in Exec, NEW kind \in Replies, HandleReply(th, e, kind)
      PROVE  StepServes
  <2>1. ASSUME NEW t \in Task PROVE Serves(t, NoTask)
    BY <1>1, <1>4, HandleReplyAside
  <2>2. QED
    BY <2>1 DEF StepServes
<1>5. ASSUME NEW th \in Worker, NEW d \in Task, NEW kind \in Requests, Request(th, d, kind)
      PROVE  StepServes
  <2>1. ASSUME NEW t \in Task PROVE Serves(t, d)
    BY <1>1, <1>5, RequestServes DEF Retained
  <2>2. QED
    BY <2>1 DEF StepServes
<1>6. CASE Periodic
  <2>1. ASSUME NEW t \in Task PROVE Serves(t, NoTask)
    BY <1>1, <1>6, PeriodicAside
  <2>2. QED
    BY <2>1 DEF StepServes
<1>7. ASSUME NEW th \in Thread, ThreadStep(th) PROVE StepServes \/ StepCrashes
  BY <1>7, ThreadStepServes DEF Retained
<1>8. QED
  BY <1>2, <1>3, <1>4, <1>5, <1>6, <1>7 DEF Next

LEMMA InitFate == Init => FateInv
<1> SUFFICES ASSUME Init, NEW t \in Task PROVE Fate(t)
  BY DEF FateInv
<1>1. \A S : ~Somewhere(stack, S)
  BY DEF Init, Somewhere, Has
<1>2. /\ t \notin tasks /\ taskInQueue[t] = NoType /\ freezer = <<>> /\ etask[t] = NewETask
      /\ \A e \in Exec : execTasks[e] = {}
  BY DEF Init, QInit, SInit
<1>3. ~Placed(t) /\ etask[t].path = <<>>
  BY <1>2 DEF Placed, Queued, Frozen, ToSet, Held, NewETask
<1>4. QED
  BY <1>1, <1>2, <1>3 DEF Fate

LEMMA SpecFate == ASSUME Retained PROVE Spec => []FateInv
<1>1. TypeInv /\ Lone /\ FateInv /\ TokenInv /\ TokenInv' /\ [Next]_vars => FateInv'
  <2> SUFFICES ASSUME TypeInv, Lone, FateInv, TokenInv, TokenInv', [Next]_vars PROVE FateInv'
    OBVIOUS
  <2>1. StepServes \/ StepCrashes
    BY NextServes
  <2>2. QED
    BY <2>1 DEF StepServes, StepCrashes, Serves, Crashes, FateInv
<1>2. Spec => []TokenInv
  BY SpecToken DEF Retained
<1>3. QED
  BY <1>1, <1>2, InitFate, SpecTypeInv, SpecLone, PTL DEF Spec

LEMMA InitServes == Init => Service!Init
<1> SUFFICES ASSUME Init PROVE Service!Init
  OBVIOUS
<1>1. ASSUME NEW t \in Task
      PROVE  /\ \A e \in Exec : t \notin execTasks[e]
             /\ t \notin ToSet(freezer) /\ ~ComingBack(t) /\ t \notin tasks /\ etask[t].path = <<>>
  BY DEF Init, SInit, ToSet, ComingBack, NewETask
<1>2. phase = [t \in Task |-> "unknown"]
  BY <1>1 DEF phase
<1>3. runner = [t \in Task |-> NoExec]
  BY <1>1 DEF runner
<1>4. steps = [t \in Task |-> 0]
  BY <1>1 DEF steps
<1>5. QED
  BY <1>2, <1>3, <1>4 DEF Service!Init

LEMMA ServesIsNext ==
  ASSUME TypeInv, TypeInv', StepServes PROVE [Service!Next]_(Service!svcvars)
<1>1. PICK d : \A t \in Task : Serves(t, d)
  BY DEF StepServes
<1>2. CASE d \in Task
  <2>1. Turn(d) /\ \A t \in Task : t # d => Stay(t)
    BY <1>1, <1>2 DEF Serves
  <2>2. QED
    BY <1>2, <2>1, OneTurns
<1>3. CASE d \notin Task
  <2>1. ASSUME NEW t \in Task
        PROVE  Stage(t)' = Stage(t) /\ RunnerOf(t)' = RunnerOf(t) /\ StepsOf(t)' = StepsOf(t)
    BY <1>1, <1>3 DEF Serves, Stay
  <2>2. /\ phase = [t \in Task |-> Stage(t)] /\ phase' = [t \in Task |-> Stage(t)']
        /\ runner = [t \in Task |-> RunnerOf(t)] /\ runner' = [t \in Task |-> RunnerOf(t)']
        /\ steps = [t \in Task |-> StepsOf(t)] /\ steps' = [t \in Task |-> StepsOf(t)']
    BY MapsMean
  <2>3. phase' = phase
    BY <2>1, <2>2
  <2>4. runner' = runner
    BY <2>1, <2>2
  <2>5. steps' = steps
    BY <2>1, <2>2
  <2>6. QED
    BY <2>3, <2>4, <2>5 DEF Service!svcvars
<1>4. QED
  BY <1>2, <1>3

LEMMA CrashesIsNext == ASSUME TypeInv, TypeInv', StepCrashes PROVE Service!Next
<1>1. PICK e \in Exec : \A t \in Task : Crashes(t, e)
  BY DEF StepCrashes
<1>2. ASSUME NEW t \in Task
      PROVE  /\ StepsOf(t)' = StepsOf(t)
             /\ RunnerOf(t)' = IF RunnerOf(t) = e THEN NoExec ELSE RunnerOf(t)
             /\ Stage(t)' = IF RunnerOf(t) = e THEN "waiting" ELSE Stage(t)
  BY <1>1 DEF Crashes
<1>3. /\ phase = [t \in Task |-> Stage(t)] /\ phase' = [t \in Task |-> Stage(t)']
      /\ runner = [t \in Task |-> RunnerOf(t)] /\ runner' = [t \in Task |-> RunnerOf(t)']
      /\ steps = [t \in Task |-> StepsOf(t)] /\ steps' = [t \in Task |-> StepsOf(t)']
  BY MapsMean
<1>4. \A t \in Task : phase[t] = Stage(t) /\ runner[t] = RunnerOf(t)
  BY <1>3
<1>5. phase' = [t \in Task |-> IF runner[t] = e THEN "waiting" ELSE phase[t]]
  BY <1>2, <1>3, <1>4
<1>6. runner' = [t \in Task |-> IF runner[t] = e THEN NoExec ELSE runner[t]]
  BY <1>2, <1>3, <1>4
<1>7. steps' = steps
  BY <1>2, <1>3
<1>8. Service!Crash(e)
  BY <1>5, <1>6, <1>7 DEF Service!Crash
<1>9. QED
  BY <1>8 DEF Service!Next

(***************************************************************************)
(* The mind keeps the promise of TaskService for every task, as long as it *)
(* is submitted once, no send of __msgTaskToExecutor raises after the      *)
(* message went out and no executor answers with an error for a task it    *)
(* was sent: a task is with one executor at a time, is credited one step   *)
(* for a run that came back as done and none for any other, waits again    *)
(* when its executor is removed, whatever removeExecutor interrupts, and   *)
(* is forgotten by removeTask only while no executor has it.               *)
(***************************************************************************)
THEOREM MindImplementsTaskService == Retained => (Spec => ImplementsTaskService)
<1> SUFFICES ASSUME Retained PROVE Spec => ImplementsTaskService
  OBVIOUS
<1>1. /\ TypeInv /\ TypeInv' /\ Lone /\ FateInv /\ TokenInv /\ TokenInv' /\ [Next]_vars
      => [Service!Next]_(Service!svcvars)
  <2> SUFFICES ASSUME TypeInv, TypeInv', Lone, FateInv, TokenInv, TokenInv', [Next]_vars
               PROVE  [Service!Next]_(Service!svcvars)
    OBVIOUS
  <2>1. StepServes \/ StepCrashes
    BY NextServes
  <2>2. QED
    BY <2>1, ServesIsNext, CrashesIsNext
<1>2. Spec => []TokenInv
  BY SpecToken DEF Retained
<1>3. QED
  BY <1>1, <1>2, InitServes, SpecTypeInv, SpecLone, SpecFate, PTL DEF Spec, ImplementsTaskService, Service!Spec
-----------------------------------------------------------------------------

(***************************************************************************)
(* A frozen task stays frozen.  Only a removal takes a task out of the     *)
(* freezer whatever the time: it is one of a task that the mind no longer  *)
(* knows, and nobody is about to add that task again.                      *)
(***************************************************************************)
Discards(t) == {f \in Call : f.op = "removeFrozen" /\ f.task = t}

Kept(t) ==
    /\ Somewhere(stack, Adds(t)) => t \notin tasks
    /\ Somewhere(stack, Discards(t)) => /\ t \notin tasks
                                        /\ ~Somewhere(stack, Adds(t))
                                        /\ requests[t] # 0

KeptInv == \A t \in Task : Kept(t)

\* no call of a kind in S is new
NoMore(S) == Somewhere(stack', S) => Somewhere(stack, S)

LEMMA LeadsToNoMore ==
  ASSUME TypeInv, NEW th \in Thread, NEW S, Leads(th, S) PROVE NoMore(S)
<1>1. CASE \E e : Abort(th, e)
  <2> DEFINE p == stack'
  <2>1. stack \in Stacks /\ p = [stack EXCEPT ![th] = <<>>]
    BY <1>1, StackIsStacks DEF Abort
  <2> HIDE DEF p
  <2>2. Somewhere(p, S) => Somewhere(stack, S)
    BY <2>1, Ended
  <2>3. QED
    BY <2>2 DEF NoMore, p
<1>2. ASSUME NEW g \in Seq(Call), stack[th] # <<>>, Continue(th, g), ~Has(g, S) PROVE NoMore(S)
  <2>1. Somewhere(stack', S) => Somewhere(stack, S)
    BY <1>2, GoesOn
  <2>2. QED
    BY <2>1 DEF NoMore
<1>3. QED
  BY <1>1, <1>2 DEF Leads

LEMMA StartsNoMore ==
  ASSUME TypeInv, NEW th \in Thread, NEW g \in Seq(Call), Starts(th, g), NEW S, ~Has(g, S)
  PROVE  NoMore(S)
<1> DEFINE p == stack'
<1>1. stack \in Stacks /\ p = [stack EXCEPT ![th] = g] /\ stack[th] = <<>>
  BY StackIsStacks DEF Starts, Idle
<1> HIDE DEF p
<1>2. Somewhere(p, S) => Somewhere(stack, S) \/ Has(g, S)
  BY <1>1, Begun
<1>3. QED
  BY <1>2 DEF NoMore, p

LEMMA SameNoMore == ASSUME UNCHANGED stack, NEW S PROVE NoMore(S)
BY DEF NoMore, Somewhere

LEMMA KeptAside ==
  ASSUME NEW t \in Task, Kept(t), NoMore(Adds(t)), NoMore(Discards(t)), t \in tasks' => t \in tasks,
         requests[t] # 0 => requests'[t] # 0
  PROVE  Kept(t)'
<1>1. /\ Somewhere(stack', Adds(t)) => t \notin tasks'
      /\ Somewhere(stack', Discards(t)) => /\ t \notin tasks'
                                           /\ ~Somewhere(stack', Adds(t))
                                           /\ requests'[t] # 0
  BY DEF Kept, NoMore
<1> DEFINE A == Adds(t)
           D == Discards(t)
<1>2. A = Adds(t)' /\ D = Discards(t)'
  BY DEF Adds, Busy, Discards
<1>3. QED
  BY <1>1, <1>2 DEF Kept

LEMMA RareKinds ==
  ASSUME NEW t
  PROVE  /\ \A x \in Adds(t) : x \in Call /\ x.op = "addTask" /\ x.task = t
         /\ \A x \in Discards(t) : x \in Call /\ x.op = "removeFrozen" /\ x.task = t
BY DEF Adds, Busy, Discards

\* what no step of a thread but removeTask leads to
LEMMA ThreadNoMore ==
  ASSUME TypeInv, Once, NEW t \in Task, NEW th \in Thread, ThreadStep(th)
  PROVE  /\ NoMore(Adds(t))
         /\ (RemoveTask(th) => t # Top(th).task) => NoMore(Discards(t))
<1>1. NoMore(Adds(t))
  <2> DEFINE S == Adds(t)
  <2>1. /\ \A x \in S : x.op \in Rare
        /\ TaskReceived(th) \/ TaskReturned(th) => \A x \in S : x.op \in {"addTask", "removeFrozen"}
        /\ RemoveTask(th) => \A x \in S : x.op = "removeFrozen" => x.task # Top(th).task
    BY RareKinds DEF Rare
  <2> HIDE DEF S
  <2>2. Leads(th, S)
    BY <2>1, ThreadStepLeads
  <2>3. NoMore(S)
    BY <2>2, LeadsToNoMore
  <2>4. QED
    BY <2>3 DEF S
<1>2. ASSUME RemoveTask(th) => t # Top(th).task PROVE NoMore(Discards(t))
  <2> DEFINE S == Discards(t)
  <2>1. /\ \A x \in S : x.op \in Rare
        /\ TaskReceived(th) \/ TaskReturned(th) => \A x \in S : x.op \in {"addTask", "removeFrozen"}
        /\ RemoveTask(th) => \A x \in S : x.op = "removeFrozen" => x.task # Top(th).task
    BY <1>2, RareKinds DEF Rare
  <2> HIDE DEF S
  <2>2. Leads(th, S)
    BY <2>1, ThreadStepLeads
  <2>3. NoMore(S)
    BY <2>2, LeadsToNoMore
  <2>4. QED
    BY <2>3 DEF S
<1>3. QED
  BY <1>1, <1>2

LEMMA AddTaskKept ==
  ASSUME TypeInv, Once, NEW t \in Task, Token(t), Kept(t), NEW th \in Thread, AddTask(th) PROVE Kept(t)'
<1>1. /\ stack[th] # <<>> /\ Top(th) \in Call /\ Top(th).op = "addTask" /\ UNCHANGED requests
      /\ \/ UNCHANGED tasks
         \/ /\ Top(th).task \notin tasks /\ tasks' = tasks \cup {Top(th).task}
            /\ \E a \in Call : Continue(th, <<a>>) /\ a.op = "dispatchTask"
  BY AddTaskSeen, TopIsCall DEF At
<1>2. NoMore(Adds(t)) /\ NoMore(Discards(t))
  <2>1. ThreadStep(th) /\ ~RemoveTask(th)
    BY <1>1 DEF ThreadStep, RemoveTask, At
  <2>2. QED
    BY <2>1, ThreadNoMore
<1>3. CASE UNCHANGED tasks \/ t # Top(th).task
  <2>1. t \in tasks' => t \in tasks
    BY <1>1, <1>3
  <2>2. requests[t] # 0 => requests'[t] # 0
    BY <1>1
  <2>3. QED
    BY <1>2, <2>1, <2>2, KeptAside
<1>4. ASSUME t = Top(th).task, NEW a \in Call, Continue(th, <<a>>), a.op = "dispatchTask" PROVE Kept(t)'
  <2>1. Top(th) \in Carriers(t) /\ Top(th) \in Adds(t)
    BY <1>1, <1>4 DEF Carriers, TokenOps, Adds, Busy, BusyOps
  <2>2. <<a>> \in Seq(Call) /\ ~Has(<<a>>, Adds(t))
    <3>1. a \notin Adds(t)
      BY <1>4 DEF Adds
    <3>2. QED
      BY <3>1, HasSingle
  <2>3. ~Somewhere(stack', Adds(t))
    BY <1>1, <1>4, <2>1, <2>2, CarrierAdded
  <2>4. Somewhere(stack, Adds(t))
    BY <1>1, <1>4, <2>1, <2>2, GoesOn
  <2>5. ~Somewhere(stack', Discards(t))
    BY <1>2, <2>4 DEF Kept, NoMore
  <2> DEFINE A == Adds(t)
             D == Discards(t)
  <2>6. A = Adds(t)' /\ D = Discards(t)'
    BY DEF Adds, Busy, Discards
  <2>7. QED
    BY <2>3, <2>5, <2>6 DEF Kept
<1>5. QED
  BY <1>1, <1>3, <1>4

LEMMA RemoveTaskKept ==
  ASSUME TypeInv, Once, NEW t \in Task, Token(t), Kept(t), NEW th \in Thread, RemoveTask(th) PROVE Kept(t)'
<1> DEFINE d == Top(th).task
<1>1. /\ stack[th] # <<>> /\ UNCHANGED requests
      /\ \/ d \notin tasks /\ Continue(th, <<>>) /\ UNCHANGED tasks
         \/ d \in tasks /\ tasks' = tasks \ {d}
  BY RemoveTaskSeen DEF At
<1>2. NoMore(Adds(t)) /\ (t # d => NoMore(Discards(t)))
  BY ThreadNoMore DEF ThreadStep
<1>3. t \in tasks' => t \in tasks
  BY <1>1
<1>4. requests[t] # 0 => requests'[t] # 0
  BY <1>1
<1>5. CASE NoMore(Discards(t))
  BY <1>2, <1>3, <1>4, <1>5, KeptAside
<1>6. CASE Continue(th, <<>>)
  <2>1. Leads(th, Discards(t))
    BY <1>1, <1>6, LeadsToOne
  <2>2. QED
    BY <1>5, <2>1, LeadsToNoMore
<1>7. CASE t = d /\ d \in tasks /\ tasks' = tasks \ {d}
  <2>1. t \notin tasks' /\ ~Somewhere(stack', Adds(t))
    BY <1>2, <1>7 DEF Kept, NoMore
  <2>2. requests'[t] # 0
    BY <1>1, <1>7 DEF Token
  <2> DEFINE A == Adds(t)
             D == Discards(t)
  <2>3. A = Adds(t)' /\ D = Discards(t)'
    BY DEF Adds, Busy, Discards
  <2>4. QED
    BY <2>1, <2>2, <2>3 DEF Kept
<1>8. QED
  BY <1>1, <1>2, <1>5, <1>6, <1>7

LEMMA ThreadStepKept ==
  ASSUME TypeInv, Once, NEW t \in Task, Token(t), Kept(t), NEW th \in Thread, ThreadStep(th) PROVE Kept(t)'
<1>1. CASE ~AddTask(th) /\ ~RemoveTask(th)
  <2>1. CASE \/ AddExecutor(th) \/ AnnounceTypes(th) \/ RemoveExecutor(th) \/ DropState(th)
             \/ Requeue(th) \/ DisconnectClient(th) \/ FreezeTask(th) \/ UnfreezeTasks(th)
             \/ DispatchTask(th) \/ GetNextExecutor(th) \/ PushTaskStep(th) \/ RemoveQueued(th)
    <3>1. UNCHANGED <<tasks, requests>>
      BY <2>1, AddExecutorSeen, AnnounceTypesSeen, RemoveExecutorSeen, DropStateSeen, RequeueSeen,
         DisconnectClientSeen, FreezeTaskSeen, UnfreezeTasksSeen, DispatchTaskSeen, GetNextExecutorSeen,
         PushTaskStepSeen, RemoveQueuedSeen
    <3>2. QED
      BY <1>1, <3>1, ThreadNoMore, KeptAside
  <2>2. CASE \/ RemoveRunning(th) \/ RemoveFrozen(th) \/ FillLoop(th) \/ FillAll(th) \/ Send(th)
             \/ SendIfIdle(th) \/ HandOver(th) \/ Message(th) \/ TaskReceived(th)
             \/ TaskReturned(th) \/ StoreTask(th)
    <3>1. UNCHANGED <<tasks, requests>>
      BY <2>2, RemoveRunningSeen, RemoveFrozenSeen, FillLoopSeen, FillAllSeen, SendSeen, SendIfIdleSeen,
         HandOverSeen, MessageSeen, TaskReceivedSeen, TaskReturnedSeen, StoreTaskSeen
    <3>2. QED
      BY <1>1, <3>1, ThreadNoMore, KeptAside
  <2>3. QED
    BY <1>1, <2>1, <2>2 DEF ThreadStep
<1>2. QED
  BY <1>1, AddTaskKept, RemoveTaskKept

\* what begins adds a task that was never asked for, or no task
LEMMA RequestKept ==
  ASSUME TypeInv, Once, NEW t \in Task, Token(t), Kept(t), NEW th \in Worker, NEW d \in Task,
         NEW kind \in Requests, Request(th, d, kind)
  PROVE  Kept(t)'
<1>1. /\ UNCHANGED tasks /\ requests \in [Task -> Nat] /\ requests[d] < MaxRequests
      /\ requests' = [requests EXCEPT ![d] = @ + 1] /\ MaxRequests \in Nat
  BY RequestSeen, DispatcherAssumption DEF TypeInv
<1>2. requests[d] = 0 /\ requests'[d] # 0 /\ \A c \in Task : c # d => requests'[c] = requests[c]
  BY <1>1 DEF Once
<1> DEFINE a == CallTask("addTask", d)
           b == CallTask("removeTask", d)
<1>3. /\ a \in Call /\ a.op = "addTask" /\ a.task = d
      /\ b \in Call /\ b.op = "removeTask" /\ b.task = d
      /\ Starts(th, <<a>>) \/ Starts(th, <<b, a>>)
      /\ th \in Thread
  BY RequestBegins DEF Thread
<1> HIDE DEF a, b
<1>4. PICK g \in Seq(Call) : Starts(th, g) /\ \A S : Has(g, S) => a \in S \/ b \in S
  <2>1. <<a>> \in Seq(Call) /\ \A S : Has(<<a>>, S) => a \in S
    BY <1>3, HasSingle
  <2>2. <<b, a>> \in Seq(Call) /\ \A S : Has(<<b, a>>, S) => a \in S \/ b \in S
    BY <1>3, HasPair
  <2>3. QED
    BY <1>3, <2>1, <2>2
<1>5. NoMore(Discards(t))
  <2>1. a \notin Discards(t) /\ b \notin Discards(t)
    BY <1>3 DEF Discards
  <2>2. QED
    BY <1>3, <1>4, <2>1, StartsNoMore
<1>6. CASE t # d
  <2>1. a \notin Adds(t) /\ b \notin Adds(t)
    BY <1>3, <1>6 DEF Adds, Busy
  <2>2. NoMore(Adds(t))
    BY <1>3, <1>4, <2>1, StartsNoMore
  <2>3. (t \in tasks' => t \in tasks) /\ (requests[t] # 0 => requests'[t] # 0)
    BY <1>1, <1>2, <1>6
  <2>4. QED
    BY <1>5, <2>2, <2>3, KeptAside
<1>7. CASE t = d
  <2>1. t \notin tasks' /\ ~Somewhere(stack', Discards(t))
    BY <1>1, <1>2, <1>5, <1>7 DEF Token, Kept, NoMore
  <2> DEFINE A == Adds(t)
             D == Discards(t)
  <2>2. A = Adds(t)' /\ D = Discards(t)'
    BY DEF Adds, Busy, Discards
  <2>3. QED
    BY <2>1, <2>2 DEF Kept
<1>8. QED
  BY <1>6, <1>7

LEMMA EventKept ==
  ASSUME TypeInv, NEW t \in Task, Kept(t), UNCHANGED <<tasks, requests>>,
         \/ UNCHANGED stack
         \/ \E th \in Thread : \E g \in Seq(Call) :
              Starts(th, g) /\ \A i \in DOMAIN g : g[i].op \notin {"addTask", "removeFrozen"}
  PROVE  Kept(t)'
<1>1. NoMore(Adds(t)) /\ NoMore(Discards(t))
  <2>1. CASE UNCHANGED stack
    BY <2>1, SameNoMore
  <2>2. ASSUME NEW th \in Thread, NEW g \in Seq(Call), Starts(th, g),
               \A i \in DOMAIN g : g[i].op \notin {"addTask", "removeFrozen"}
        PROVE  NoMore(Adds(t)) /\ NoMore(Discards(t))
    <3>1. ~Has(g, Adds(t)) /\ ~Has(g, Discards(t))
      BY <2>2, RareKinds DEF Has
    <3>2. QED
      BY <2>2, <3>1, StartsNoMore
  <2>3. QED
    BY <2>1, <2>2
<1>2. QED
  BY <1>1, KeptAside

LEMMA StartsOne ==
  ASSUME NEW th, NEW a \in Call, Starts(th, <<a>>), a.op \notin {"addTask", "removeFrozen"}
  PROVE  \E g \in Seq(Call) : Starts(th, g) /\ \A i \in DOMAIN g : g[i].op \notin {"addTask", "removeFrozen"}
<1> DEFINE g == <<a>>
<1>1. g \in Seq(Call) /\ Starts(th, g) /\ \A i \in DOMAIN g : g[i].op \notin {"addTask", "removeFrozen"}
  OBVIOUS
<1>2. QED
  BY <1>1

LEMMA NextKept == ASSUME TypeInv, Once, TokenInv, KeptInv, [Next]_vars PROVE KeptInv'
<1> SUFFICES ASSUME NEW t \in Task PROVE Kept(t)'
  BY DEF KeptInv
<1>1. Token(t) /\ Kept(t)
  BY DEF TokenInv, KeptInv
<1>2. ASSUME NEW th \in Worker, NEW e \in Exec, Connect(th, e) \/ HandleDrop(th, e) PROVE Kept(t)'
  <2>1. /\ th \in Thread /\ UNCHANGED <<tasks, requests>>
        /\ \E a \in Call : Starts(th, <<a>>) /\ a.op \in {"addExecutor", "removeExecutor"}
    BY <1>2, ConnectSeen, HandleDropSeen DEF Thread
  <2>2. QED
    BY <1>1, <2>1, StartsOne, EventKept
<1>3. ASSUME NEW e \in Exec, Disconnect(e) PROVE Kept(t)'
  BY <1>1, <1>3, DisconnectSeen, EventKept
<1>4. ASSUME NEW th \in Worker, NEW e \in Exec, NEW kind \in Replies, HandleReply(th, e, kind) PROVE Kept(t)'
  <2>1. th \in Thread /\ UNCHANGED <<tasks, requests>> /\ \E d \in Task : Answered(th, e, d)
    BY <1>4, HandleReplySeen DEF Thread
  <2>2. ASSUME NEW a \in Call, Starts(th, <<a>>), a.op \in {"taskReceived", "removeTask"} PROVE Kept(t)'
    BY <1>1, <2>1, <2>2, StartsOne, EventKept
  <2>3. ASSUME NEW a \in Call, NEW b \in Call, Starts(th, <<a, b>>), a.op = "removeExecutor",
               b.op = "closeTransport"
        PROVE  Kept(t)'
    <3> DEFINE g == <<a, b>>
    <3>1. /\ g \in Seq(Call) /\ Starts(th, g)
          /\ \A i \in DOMAIN g : g[i].op \notin {"addTask", "removeFrozen"}
      BY <2>3
    <3> HIDE DEF g
    <3>2. QED
      BY <1>1, <2>1, <3>1, EventKept
  <2>4. QED
    BY <2>1, <2>2, <2>3 DEF Answered
<1>5. ASSUME NEW th \in Worker, NEW d \in Task, NEW kind \in Requests, Request(th, d, kind) PROVE Kept(t)'
  BY <1>1, <1>5, RequestKept
<1>6. CASE Periodic
  <2>1. Scheduler \in Thread /\ UNCHANGED <<tasks, requests>>
    BY <1>6, PeriodicSeen DEF Thread
  <2>2. PICK g \in Seq(Fills) : Starts(Scheduler, g)
    BY <1>6, PeriodicSeen
  <2>3. g \in Seq(Call) /\ \A i \in DOMAIN g : g[i].op \notin {"addTask", "removeFrozen"}
    BY DEF Fills
  <2>4. QED
    BY <1>1, <2>1, <2>2, <2>3, EventKept
<1>7. ASSUME NEW d \in Task, Ripen(d) PROVE Kept(t)'
  BY <1>1, <1>7, RipenSeen, EventKept
<1>8. ASSUME NEW th \in Thread, ThreadStep(th) PROVE Kept(t)'
  BY <1>1, <1>8, ThreadStepKept
<1>9. CASE UNCHANGED vars
  BY <1>1, <1>9, EventKept DEF vars, mindvars
<1>10. QED
  BY <1>2, <1>3, <1>4, <1>5, <1>6, <1>7, <1>8, <1>9 DEF Next

LEMMA InitKept == Init => KeptInv
BY HasNone DEF Init, KeptInv, Kept, Somewhere

LEMMA SpecKept == ASSUME Once PROVE Spec => []KeptInv
<1>1. TypeInv /\ TokenInv /\ KeptInv /\ [Next]_vars => KeptInv'
  BY NextKept
<1>2. QED
  BY <1>1, InitKept, SpecTypeInv, SpecToken, PTL DEF Spec

\* what a turn of __unfreezeTasks takes out of the freezer
LEMMA UnfreezeTasksRipe ==
  ASSUME TypeInv, NEW th \in Thread, UnfreezeTasks(th)
  PROVE  \/ UNCHANGED freezer
         \/ \E i \in 1 .. Len(freezer) : /\ freezer' = RemoveAt(freezer, i)
                                         /\ freezer[i] \in tasks => etask[freezer[i]].ripe
<1> DEFINE f == Top(th)
<1>1. f.pos \in Nat \ {0}
  <2>1. At(th, "unfreezeTasks")
    BY DEF UnfreezeTasks
  <2>2. QED
    BY <2>1, TopIsCall, CallFields DEF CallOK
<1>2. freezer \in Seq(Task) /\ Len(freezer) \in Nat
  BY LenProperties DEF TypeInv, MindTypeOK
<1>3. CASE f.pos > Len(freezer)
  BY <1>3 DEF UnfreezeTasks
<1>4. CASE ~(f.pos > Len(freezer))
  <2>1. f.pos \in 1 .. Len(freezer)
    BY <1>1, <1>2, <1>4
  <2>2. \/ UNCHANGED freezer
        \/ /\ freezer' = RemoveAt(freezer, f.pos)
           /\ freezer[f.pos] \in tasks => etask[freezer[f.pos]].ripe
    BY <1>4 DEF UnfreezeTasks
  <2>3. QED
    BY <2>1, <2>2
<1>5. QED
  BY <1>3, <1>4

LEMMA ThreadStepFrozen ==
  ASSUME TypeInv, NEW t \in Task, Token(t), Kept(t), NEW th \in Thread, ThreadStep(th),
         t \in tasks, Frozen(t), ~etask[t].ripe
  PROVE  Frozen(t)'
<1>1. ASSUME UNCHANGED freezer PROVE Frozen(t)'
  BY <1>1 DEF Frozen
<1>2. CASE FreezeTask(th)
  <2>1. Top(th).task \in Task /\ (UNCHANGED freezer \/ freezer' = Append(freezer, Top(th).task))
    BY <1>2, FreezeTaskSeen
  <2>2. QED
    BY <1>1, <2>1, FreezerGains
<1>3. CASE UnfreezeTasks(th)
  <2>1. ASSUME NEW i \in 1 .. Len(freezer), freezer' = RemoveAt(freezer, i),
               freezer[i] \in tasks => etask[freezer[i]].ripe
        PROVE  Frozen(t)'
    <3>1. t # freezer[i]
      BY <2>1
    <3>2. QED
      BY <2>1, <3>1, Thawed
  <2>2. QED
    BY <1>1, <1>3, <2>1, UnfreezeTasksRipe
<1>4. CASE DispatchTask(th)
  <2>1. /\ stack[th] # <<>> /\ Top(th).op = "dispatchTask" /\ Top(th) \in Call
        /\ UNCHANGED freezer \/ freezer' = RemoveFirst(freezer, Top(th).task)
    BY <1>4, DispatchTaskSeen, TopIsCall DEF At
  <2>2. t # Top(th).task
    <3>1. t = Top(th).task => Top(th) \in Carriers(t)
      BY <2>1 DEF Carriers, TokenOps
    <3>2. ~Carried(t)
      BY DEF Token, Placed
    <3>3. QED
      BY <2>1, <3>1, <3>2, TopCarries
  <2>3. QED
    BY <1>1, <2>1, <2>2, Unfrozen
<1>5. CASE RemoveFrozen(th)
  <2>1. /\ stack[th] # <<>> /\ Top(th).op = "removeFrozen" /\ Top(th) \in Call
        /\ freezer' = RemoveFirst(freezer, Top(th).task)
    BY <1>5, RemoveFrozenSeen, TopIsCall DEF At
  <2>2. t # Top(th).task
    <3>1. t = Top(th).task => Has(stack[th], Discards(t))
      BY <2>1, HasHeadTail DEF TypeInv, Top, Discards
    <3>2. ~Somewhere(stack, Discards(t))
      BY DEF Kept
    <3>3. QED
      BY <3>1, <3>2 DEF Somewhere
  <2>3. QED
    BY <2>1, <2>2, Unfrozen
<1>6. CASE \/ AddExecutor(th) \/ AnnounceTypes(th) \/ RemoveExecutor(th) \/ DropState(th)
           \/ Requeue(th) \/ DisconnectClient(th) \/ AddTask(th) \/ GetNextExecutor(th)
           \/ PushTaskStep(th) \/ RemoveTask(th) \/ RemoveQueued(th)
  BY <1>1, <1>6, AddExecutorSeen, AnnounceTypesSeen, RemoveExecutorSeen, DropStateSeen, RequeueSeen,
     DisconnectClientSeen, AddTaskSeen, GetNextExecutorSeen, PushTaskStepSeen, RemoveTaskSeen,
     RemoveQueuedSeen
<1>7. CASE \/ RemoveRunning(th) \/ FillLoop(th) \/ FillAll(th) \/ Send(th) \/ SendIfIdle(th)
           \/ HandOver(th) \/ Message(th) \/ TaskReceived(th) \/ TaskReturned(th) \/ StoreTask(th)
  BY <1>1, <1>7, RemoveRunningSeen, FillLoopSeen, FillAllSeen, SendSeen, SendIfIdleSeen,
     HandOverSeen, MessageSeen, TaskReceivedSeen, TaskReturnedSeen, StoreTaskSeen
<1>8. QED
  BY <1>2, <1>3, <1>4, <1>5, <1>6, <1>7 DEF ThreadStep

(***************************************************************************)
(* A task that is frozen and still known stays in the freezer until its    *)
(* time is over, whatever other threads dispatch, thaw or remove: the      *)
(* dispatch that would take it out needs the token, which the freezer has, *)
(* and the removal comes only after the task was forgotten.                *)
(***************************************************************************)
THEOREM FrozenStaysFrozen == Once => (Spec => FrozenLongEnough)
<1> SUFFICES ASSUME Once PROVE Spec => FrozenLongEnough
  OBVIOUS
<1> DEFINE LongEnough == \A t \in tasks \cap tasks' : t \in ToSet(freezer) /\ ~etask[t].ripe => t \in ToSet(freezer')
<1>1. TypeInv /\ TokenInv /\ KeptInv /\ [Next]_vars => [LongEnough]_vars
  <2> SUFFICES ASSUME TypeInv, TokenInv, KeptInv, Next, NEW t \in tasks, Frozen(t), ~etask[t].ripe
               PROVE  Frozen(t)'
    BY DEF Frozen
  <2>1. t \in Task
    BY DEF TypeInv, MindTypeOK
  <2>2. Token(t) /\ Kept(t)
    BY <2>1 DEF TokenInv, KeptInv
  <2>3. ASSUME NEW th \in Thread, ThreadStep(th) PROVE Frozen(t)'
    BY <2>1, <2>2, <2>3, ThreadStepFrozen
  <2>4. ASSUME UNCHANGED freezer PROVE Frozen(t)'
    BY <2>4 DEF Frozen
  <2>5. QED
    BY <2>3, <2>4, ConnectSeen, HandleDropSeen, DisconnectSeen, HandleReplySeen, RequestSeen,
       PeriodicSeen, RipenSeen DEF Next
<1>2. Spec => []TokenInv
  BY SpecToken
<1>3. Spec => []KeptInv
  BY SpecKept
<1>4. QED
  BY <1>1, <1>2, <1>3, SpecTypeInv, PTL DEF Spec, FrozenLongEnough

=============================================================================
