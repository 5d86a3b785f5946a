------------------------------ MODULE JobPool -------------------------------
(***************************************************************************)
(* What the task queues promise to the job management: a pool of waiting   *)
(* jobs.  Whoever is told that a job is in has seen it enter; whoever is   *)
(* told of an error knows nothing; and whatever fails underneath, a job    *)
(* leaves the pool once for each time it is in it.                         *)
(***************************************************************************)
CONSTANTS Job, Matcher

VARIABLES
    pool,       \* the jobs that wait to be matched
    told,       \* the insertion of each job: "none", "asked", "entered" (not yet
                \* told), "ok", "error"
    hands       \* the job a matcher has taken and not yet handed to its pilot, in a set

poolvars == <<pool, told, hands>>

PoolTypeOK ==
    /\ pool \subseteq Job
    /\ told \in [Job -> {"none", "asked", "entered", "ok", "error"}]
    /\ hands \in [Matcher -> SUBSET Job]

PoolInit ==
    /\ pool = {}
    /\ told = [j \in Job |-> "none"]
    /\ hands = [m \in Matcher |-> {}]

\* JobState.insertIntoTQ is called
Ask(j) ==
    /\ told[j] \in {"none", "ok", "error"}
    /\ told' = [told EXCEPT ![j] = "asked"]
    /\ UNCHANGED <<pool, hands>>

\* ... the job may be taken from now on
Enter(j) ==
    /\ told[j] \in {"asked", "entered"}
    /\ pool' = pool \cup {j}
    /\ told' = [told EXCEPT ![j] = "entered"]
    /\ UNCHANGED hands

\* ... it returns S_OK: the job has entered since it was asked
Confirm(j) ==
    /\ told[j] = "entered"
    /\ told' = [told EXCEPT ![j] = "ok"]
    /\ UNCHANGED <<pool, hands>>

\* ... it returns S_ERROR: the job is taken out, unless that fails as well
Refuse(j) ==
    /\ told[j] \in {"asked", "entered"}
    /\ pool' \in {pool, pool \ {j}}
    /\ told' = [told EXCEPT ![j] = "error"]
    /\ UNCHANGED hands

\* ... it raises, or dies: nobody is told anything
Abandon(j) ==
    /\ told[j] \in {"asked", "entered"}
    /\ told' = [told EXCEPT ![j] = "none"]
    /\ UNCHANGED <<pool, hands>>

\* the job is taken for one pilot
Take(m, j) ==
    /\ j \in pool
    /\ hands[m] = {}
    /\ pool' = pool \ {j}
    /\ hands' = [hands EXCEPT ![m] = {j}]
    /\ UNCHANGED told

HandOver(m) ==
    /\ hands' = [hands EXCEPT ![m] = {}]
    /\ UNCHANGED <<pool, told>>

\* ... or deleted
Remove(j) ==
    /\ j \in pool
    /\ pool' = pool \ {j}
    /\ UNCHANGED <<told, hands>>

PoolNext ==
    \/ \E j \in Job : Ask(j) \/ Enter(j) \/ Confirm(j) \/ Refuse(j) \/ Abandon(j) \/ Remove(j)
    \/ \E m \in Matcher : HandOver(m) \/ \E j \in Job : Take(m, j)

PoolSpec == PoolInit /\ [][PoolNext]_poolvars
=============================================================================
