---------------------------- MODULE ExecutorState ----------------------------
(***************************************************************************)
(* What the executor mind knows of its executors: class ExecutorState of   *)
(* Core/Utilities/ExecutorDispatcher.py.  Which executors serve a type,    *)
(* how many tasks each may hold, which tasks each holds, and the index     *)
(* from a task to its executor.  addExecutor, removeExecutor, addTask and  *)
(* removeTask run under the lock of the class; freeSlots, getIdleExecutor  *)
(* and getExecutorOfTask read without it.                                  *)
(*                                                                         *)
(* `registered` is the set of keys that __execTasks and __maxTasks share.  *)
(***************************************************************************)
EXTENDS ExecutorIds

CONSTANTS ExecTypes,      \* ExecTypes[e]: the types executor e announces
          MaxTasks        \* MaxTasks[e]: the tasks e may hold at a time

ASSUME StateAssumption ==
    /\ ExecTypes \in [Exec -> Seq(Type)]
    /\ MaxTasks \in [Exec -> Nat \ {0}]

VARIABLES typeToId, registered, execTasks, taskInExec

svars == <<typeToId, registered, execTasks, taskInExec>>

TypesOf(e) == {ExecTypes[e][i] : i \in DOMAIN ExecTypes[e]}

STypeOK ==
    /\ typeToId \in [Type -> SUBSET Exec]
    /\ registered \subseteq Exec
    /\ execTasks \in [Exec -> SUBSET Task]
    /\ taskInExec \in [Task -> Exec \cup {NoExec}]

SInit ==
    /\ typeToId = [y \in Type |-> {}]
    /\ registered = {}
    /\ execTasks = [e \in Exec |-> {}]
    /\ taskInExec = [t \in Task |-> NoExec]

-----------------------------------------------------------------------------
StateAddExecutor(e) ==
    /\ registered' = registered \cup {e}
    /\ typeToId' = [y \in Type |-> IF y \in TypesOf(e) THEN typeToId[y] \cup {e}
                                                       ELSE typeToId[y]]
    /\ UNCHANGED <<execTasks, taskInExec>>

(***************************************************************************)
(* removeExecutor when every task of the executor is in the index: the     *)
(* executor is forgotten and its tasks are handed to the caller.           *)
(***************************************************************************)
AllIndexed(e) == \A t \in execTasks[e] : taskInExec[t] # NoExec

ForgetTypes(e) == typeToId' = [y \in Type |-> typeToId[y] \ {e}]

StateRemoveExecutor(e) ==
    /\ ForgetTypes(e)
    /\ registered' = registered \ {e}
    /\ execTasks' = [execTasks EXCEPT ![e] = {}]
    /\ taskInExec' = [t \in Task |-> IF t \in execTasks[e] THEN NoExec
                                                           ELSE taskInExec[t]]

(***************************************************************************)
(* removeExecutor when `taskInExec.pop` meets a task that is not indexed:  *)
(* the KeyError leaves the loop with the executor half removed.  The tasks *)
(* popped before it are some of the indexed ones.                          *)
(***************************************************************************)
StateRemoveExecutorFails(e) ==
    /\ ForgetTypes(e)
    /\ \E popped \in SUBSET {t \in execTasks[e] : taskInExec[t] # NoExec} :
         taskInExec' = [t \in Task |-> IF t \in popped THEN NoExec
                                                       ELSE taskInExec[t]]
    /\ UNCHANGED <<registered, execTasks>>

(***************************************************************************)
(* addTask: the index entry is written first, so it stays behind when the  *)
(* executor is unknown (KeyError, 0 returned).                             *)
(***************************************************************************)
StateAddTask(e, t) ==
    /\ taskInExec' = [taskInExec EXCEPT ![t] = e]
    /\ execTasks' = IF e \in registered
                    THEN [execTasks EXCEPT ![e] = @ \cup {t}]
                    ELSE execTasks
    /\ UNCHANGED <<typeToId, registered>>

(***************************************************************************)
(* removeTask(taskId, eId): nothing changes unless the executor holds the  *)
(* task.  The index entry goes last, whatever executor it names; were it   *)
(* missing, the caller is told that the executor did not have the task.    *)
(***************************************************************************)
HoldsTask(e, t) == e \in registered /\ t \in execTasks[e]

\* mutant of RemoveSucceeds: what removeTask answers is not looked at
RemoveAnswerIgnored(e, t) == TRUE

RemoveSucceeds(e, t) == HoldsTask(e, t) /\ taskInExec[t] # NoExec

\* mutant of StateRemoveTaskFrom: the index entry stays
StateRemoveTaskLeavesIndex(e, t) ==
    IF HoldsTask(e, t)
    THEN /\ execTasks' = [execTasks EXCEPT ![e] = @ \ {t}]
         /\ UNCHANGED <<taskInExec, typeToId, registered>>
    ELSE UNCHANGED svars

StateRemoveTaskFrom(e, t) ==
    IF HoldsTask(e, t)
    THEN /\ execTasks' = [execTasks EXCEPT ![e] = @ \ {t}]
         /\ taskInExec' = [taskInExec EXCEPT ![t] = NoExec]
         /\ UNCHANGED <<typeToId, registered>>
    ELSE UNCHANGED svars

(***************************************************************************)
(* removeTask(taskId): the executor is the one in the index.               *)
(***************************************************************************)
StateRemoveTask(t) ==
    IF taskInExec[t] # NoExec
    THEN StateRemoveTaskFrom(taskInExec[t], t)
    ELSE UNCHANGED svars

-----------------------------------------------------------------------------
FreeSlots(e) ==
    IF e \in registered THEN MaxTasks[e] - Cardinality(execTasks[e]) ELSE 0

(***************************************************************************)
(* getIdleExecutor: any of the executors of the type with the most free    *)
(* slots, if it has one at all (ties follow the order of a Python set).    *)
(***************************************************************************)
IdleExecutors(y) ==
    {e \in typeToId[y] :
        FreeSlots(e) > 0 /\ \A f \in typeToId[y] : FreeSlots(f) <= FreeSlots(e)}

-----------------------------------------------------------------------------
(***************************************************************************)
(* The two maps tell the same story.                                       *)
(***************************************************************************)
TaskIndexConsistent ==
    \A t \in Task, e \in Exec : taskInExec[t] = e <=> t \in execTasks[e]
==============================================================================
