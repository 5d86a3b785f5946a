------------------------ MODULE MCExecutorDispatcher ------------------------
(***************************************************************************)
(* Small instances of ExecutorDispatcher for TLC.                          *)
(***************************************************************************)
EXTENDS ExecutorDispatcher

CONSTANTS y1, y2

\* every executor serves one type; every task needs one step
OneType == [e \in Exec |-> <<y1>>]
OneStep == [t \in Task |-> <<y1>>]

\* every executor serves both types; every task goes through both
TwoTypes == [e \in Exec |-> <<y1, y2>>]
TwoSteps == [t \in Task |-> <<y1, y2>>]

\* ExecutorMindHandler.conn_connected never passes maxTasks on: one each
OneTask == [e \in Exec |-> 1]

\* tasks are interchangeable, and so are executors of the same types
Interchangeable == Permutations(Task) \cup Permutations(Exec)
=============================================================================
