---------------------------- MODULE TaskService -----------------------------
(***************************************************************************)
(* What the executor mind promises about a task, without queues, threads   *)
(* or locks: a task is added, waits, is frozen, runs on one executor at a  *)
(* time, and takes one step along its chain for each run that comes back   *)
(* as done.  A run that ends in any other way (freeze, crash) counts for   *)
(* nothing and the task waits again.  Only a task that no executor runs is *)
(* forgotten.                                                              *)
(***************************************************************************)
EXTENDS Integers

CONSTANTS Task, Exec, NoExec

VARIABLES
    phase,      \* where the life of each task is
    runner,     \* the executor a running task is with
    steps       \* the steps of its chain a task has behind it

svcvars == <<phase, runner, steps>>

Phase == {"unknown", "waiting", "frozen", "running", "returned"}

Init ==
    /\ phase = [t \in Task |-> "unknown"]
    /\ runner = [t \in Task |-> NoExec]
    /\ steps = [t \in Task |-> 0]

Move(t, from, to) == phase[t] = from /\ phase' = [phase EXCEPT ![t] = to]

Add(t) == Move(t, "unknown", "waiting") /\ UNCHANGED <<runner, steps>>

Freeze(t) == Move(t, "waiting", "frozen") /\ UNCHANGED <<runner, steps>>

Thaw(t) == Move(t, "frozen", "waiting") /\ UNCHANGED <<runner, steps>>

Run(t, e) ==
    /\ Move(t, "waiting", "running")
    /\ runner' = [runner EXCEPT ![t] = e]
    /\ UNCHANGED steps

\* the executor answers that it is done with the task
Return(t) ==
    /\ Move(t, "running", "returned")
    /\ runner' = [runner EXCEPT ![t] = NoExec]
    /\ UNCHANGED steps

\* its result is saved: one step more
Credit(t) ==
    /\ Move(t, "returned", "waiting")
    /\ steps' = [steps EXCEPT ![t] = @ + 1]
    /\ UNCHANGED runner

\* its result is not saved, and counts for nothing
Discard(t) == Move(t, "returned", "waiting") /\ UNCHANGED <<runner, steps>>

\* the executor asks for the task to be frozen, or was never sent it
GiveBack(t) ==
    /\ Move(t, "running", "waiting")
    /\ runner' = [runner EXCEPT ![t] = NoExec]
    /\ UNCHANGED steps

\* the executor dies: all it was running waits again
Crash(e) ==
    /\ e \in Exec
    /\ phase' = [t \in Task |-> IF runner[t] = e THEN "waiting" ELSE phase[t]]
    /\ runner' = [t \in Task |-> IF runner[t] = e THEN NoExec ELSE runner[t]]
    /\ UNCHANGED steps

Forget(t) ==
    /\ phase[t] \in {"waiting", "frozen", "returned"}
    /\ phase' = [phase EXCEPT ![t] = "unknown"]
    /\ steps' = [steps EXCEPT ![t] = 0]
    /\ UNCHANGED runner

Next ==
    \/ \E t \in Task :
         \/ Add(t) \/ Freeze(t) \/ Thaw(t) \/ Forget(t)
         \/ Return(t) \/ Credit(t) \/ Discard(t) \/ GiveBack(t)
    \/ \E t \in Task, e \in Exec : Run(t, e)
    \/ \E e \in Exec : Crash(e)

Spec == Init /\ [][Next]_svcvars
=============================================================================
