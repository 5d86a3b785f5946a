--------------------------- MODULE ExecutorQueues ---------------------------
(***************************************************************************)
(* The waiting queues of the executor mind: class ExecutorQueues of        *)
(* Core/Utilities/ExecutorDispatcher.py.  One FIFO of task ids per         *)
(* executor type, and an index from a task id to the type it waits for.    *)
(* Every method runs under one lock, so every method is one action.        *)
(*                                                                         *)
(* The dictionaries of the code grow on demand; here a type that was never *)
(* used has an empty queue and a task that does not wait has index NoType. *)
(* __lastUse is monitoring data and is left out.                           *)
(***************************************************************************)
EXTENDS ExecutorIds

VARIABLES queues, taskInQueue

qvars == <<queues, taskInQueue>>

QTypeOK ==
    /\ queues \in [Type -> Seq(Task)]
    /\ taskInQueue \in [Task -> Type \cup {NoType}]

QInit ==
    /\ queues = [y \in Type |-> <<>>]
    /\ taskInQueue = [t \in Task |-> NoType]

-----------------------------------------------------------------------------
(***************************************************************************)
(* pushTask: a task that already waits, for this type or for another, is   *)
(* left where it is; only the reported length tells the caller.            *)
(***************************************************************************)
PushTask(t, y, ahead) ==
    IF taskInQueue[t] = NoType
    THEN /\ queues' = [queues EXCEPT ![y] = IF ahead THEN <<t>> \o @
                                                     ELSE Append(@, t)]
         /\ taskInQueue' = [taskInQueue EXCEPT ![t] = y]
    ELSE UNCHANGED qvars

(***************************************************************************)
(* popTask: the head of the first non-empty queue in the order given.  The *)
(* KeyError that `del taskInQueue` would raise, and that would drop the    *)
(* task just popped, needs an index that lost an entry: IndexSound.        *)
(***************************************************************************)
NothingWaits(types) == \A i \in DOMAIN types : queues[types[i]] = <<>>

IsNextType(y, types) ==
    \E i \in DOMAIN types :
        /\ types[i] = y
        /\ queues[y] # <<>>
        /\ \A j \in 1 .. i - 1 : queues[types[j]] = <<>>

\* mutant of PopTask: the head is read and not taken out
PeekTask(y) ==
    /\ queues[y] # <<>>
    /\ taskInQueue' = [taskInQueue EXCEPT ![Head(queues[y])] = NoType]
    /\ UNCHANGED queues

\* mutant of PopTask: the index keeps the task
PopTaskNotIndex(y) ==
    /\ queues[y] # <<>>
    /\ queues' = [queues EXCEPT ![y] = Tail(@)]
    /\ UNCHANGED taskInQueue

PopTask(y) ==
    /\ queues[y] # <<>>
    /\ queues' = [queues EXCEPT ![y] = Tail(@)]
    /\ taskInQueue' = [taskInQueue EXCEPT ![Head(queues[y])] = NoType]

(***************************************************************************)
(* deleteTask: drops the index entry, then the first occurrence in the     *)
(* queue the entry named.                                                  *)
(***************************************************************************)
DeleteTask(t) ==
    IF taskInQueue[t] = NoType
    THEN UNCHANGED qvars
    ELSE /\ taskInQueue' = [taskInQueue EXCEPT ![t] = NoType]
         /\ queues' = [queues EXCEPT ![taskInQueue[t]] = RemoveFirst(@, t)]

-----------------------------------------------------------------------------
Push(t, y) == \E ahead \in BOOLEAN : PushTask(t, y, ahead)

QNext ==
    \/ \E t \in Task, y \in Type : Push(t, y)
    \/ \E y \in Type : PopTask(y)
    \/ \E t \in Task : DeleteTask(t)

QSpec == QInit /\ [][QNext]_qvars

-----------------------------------------------------------------------------
(***************************************************************************)
(* The index and the queues agree: a task waits at position i of the queue *)
(* of y exactly when the index says y, and it waits only once.  Were the   *)
(* two to drift apart a task could be sent twice, or be refused for ever   *)
(* by pushTask because a stale entry says that it already waits.           *)
(***************************************************************************)
IndexSound ==
    \A y \in Type : \A i \in DOMAIN queues[y] : taskInQueue[queues[y][i]] = y

IndexComplete ==
    \A t \in Task : taskInQueue[t] # NoType =>
        \E i \in DOMAIN queues[taskInQueue[t]] : queues[taskInQueue[t]][i] = t

WaitsOnce ==
    \A y \in Type : \A i, j \in DOMAIN queues[y] :
        queues[y][i] = queues[y][j] => i = j

QueueIndexConsistent == IndexSound /\ IndexComplete /\ WaitsOnce

(***************************************************************************)
(* A task never overtakes another one of the same queue unless it is       *)
(* pushed ahead: tasks that wait before and after a step and were not just *)
(* pushed keep their relative order (pushTask's append, popTask's pop(0),  *)
(* and the deletion by position of deleteTask).                            *)
(***************************************************************************)
KeepsOrder ==
    \A y \in Type : \A i, j \in DOMAIN queues'[y] :
        /\ i < j
        /\ taskInQueue[queues'[y][i]] = y
        /\ taskInQueue[queues'[y][j]] = y
        => \E k, l \in DOMAIN queues[y] :
              k < l /\ queues[y][k] = queues'[y][i] /\ queues[y][l] = queues'[y][j]

OrderKept == [][KeepsOrder]_qvars
=============================================================================
