---------------------------- MODULE MCTaskQueues ----------------------------
(***************************************************************************)
(* Small instances of TaskQueues for TLC.                                  *)
(***************************************************************************)
EXTENDS TaskQueues, TLC

CONSTANTS f1, m1

\* all jobs need the first field
AllNeed == [j \in Job |-> {f1}]

\* m1 offers everything, the others nothing
OneFit == [m \in Matcher |-> IF m = m1 THEN Field ELSE {}]

\* every matcher offers everything
AllFit == [m \in Matcher |-> Field]

\* no job needs anything
NoneNeeds == [j \in Job |-> {}]

\* jobs that need the same are interchangeable
Interchangeable == Permutations(Job)
=============================================================================
