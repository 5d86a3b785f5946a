----------------------------- MODULE ExecutorIds -----------------------------
(***************************************************************************)
(* The identifiers the modules of the executor mind share: task ids, the   *)
(* types of executors, and executors.  An executor is named by the         *)
(* transport id of its connection, so one that reconnects is another one.  *)
(***************************************************************************)
EXTENDS Integers, SequencesExt

CONSTANTS Task, Type, Exec,
          NoTask, NoType, NoExec      \* None or False where an id is expected

ASSUME IdAssumption ==
    /\ NoTask \notin Task
    /\ NoType \notin Type
    /\ NoExec \notin Exec
==============================================================================
