----------------------------- MODULE TaskQueues -----------------------------
(***************************************************************************)
(* TaskQueueDB: the queues of waiting jobs, and the services and agents    *)
(* that insert, match and clean up.  Each SQL statement is one step (they  *)
(* are committed one by one); between two of them anybody may come in.     *)
(*                                                                         *)
(* The model is of the queues of one owner, group, setup and CPU segment,  *)
(* the single-valued fields, which never change and keep other queues      *)
(* apart.  A multi-valued field of a definition (sites, platforms, tags)   *)
(* is there or not; its rows live in a table of their own.                 *)
(***************************************************************************)
EXTENDS FiniteSets, Integers

CONSTANTS
    Job, Queue, Field, Matcher, Cleaner,
    NoQueue,
    Needs,          \* the fields of the definition of a job
    Offers,         \* the fields that the pilot behind a matcher satisfies
    MaxJobsInTQ,    \* __maxJobsInTQ: 5000
    Retries,        \* how often insertIntoTQ tries: 2
    MaxUpsets,      \* bound on each of the two
    Faults          \* subset of {"dbError", "lost", "crash", "restart"}

ASSUME TaskQueuesAssumption ==
    /\ IsFiniteSet(Job)
    /\ NoQueue \notin Queue
    /\ Needs \in [Job -> SUBSET Field]
    /\ Offers \in [Matcher -> SUBSET Field]
    /\ MaxJobsInTQ \in Nat
    /\ Retries \in Nat \ {0}
    /\ MaxUpsets \in Nat
    /\ Faults \subseteq {"dbError", "lost", "crash", "restart"}

VARIABLES
    enabled,        \* tq_TaskQueues: the Enabled of each queue that has a row
    conds,          \* tq_TQTo*: the fields of each queue
    queueOf,        \* tq_Jobs: the queue of each job
    insert,         \* the insertIntoTQ of each job
    match,          \* the matchAndGetJob of each matcher
    clean,          \* the cleanOrphanedTaskQueues of each service
    told,           \* what insertIntoTQ has told of the job, as in JobPool
    upset           \* history: the counts of Enabled, and other answers, that were lost

tables == <<enabled, conds, queueOf>>
vars == <<enabled, conds, queueOf, insert, match, clean, told, upset>>

Rows == DOMAIN enabled
JobsIn(q) == {j \in Job : queueOf[j] = q}
Idle == [pc |-> "idle", queue |-> NoQueue, todo |-> {}, ok |-> FALSE, tries |-> 0]
NotMatching == [pc |-> "idle", queue |-> NoQueue, list |-> {}]
NotCleaning == [pc |-> "idle", list |-> {}, todo |-> {}]

Init ==
    /\ enabled = [q \in {} |-> 0]
    /\ conds = [q \in Queue |-> {}]
    /\ queueOf = [j \in Job |-> NoQueue]
    /\ insert = [j \in Job |-> Idle]
    /\ match = [m \in Matcher |-> NotMatching]
    /\ clean = [c \in Cleaner |-> NotCleaning]
    /\ told = [j \in Job |-> "none"]
    /\ upset = [counts |-> 0, errors |-> 0]

\* an id that nobody remembers stands for the next AUTO_INCREMENT
Fresh == {q \in Queue \ Rows :
            /\ \A j \in Job : insert[j].queue # q
            /\ \A m \in Matcher : match[m].queue # q
            /\ \A c \in Cleaner : q \notin clean[c].list}

\* ids mean nothing: any of them does
NextId == IF Fresh = {} THEN {} ELSE {CHOOSE q \in Fresh : TRUE}

AddEnabled(q, n) ==
    enabled' = IF q \in Rows THEN [enabled EXCEPT ![q] = @ + n] ELSE enabled

-----------------------------------------------------------------------------
(***************************************************************************)
(* insertIntoTQ and the insertJob that it tries.                           *)
(***************************************************************************)
At(j, pc) == insert[j].pc = pc
Goto(j, pc) == insert' = [insert EXCEPT ![j].pc = pc]
Others == UNCHANGED <<match, clean>>
Tell(j, word) == told' = [told EXCEPT ![j] = word]

\* a job that waits is only inserted again by one who was not told that it does
Ask(j) ==
    /\ At(j, "idle")
    /\ queueOf[j] = NoQueue \/ told[j] \in {"none", "error"}
    /\ insert' = [insert EXCEPT ![j] = [Idle EXCEPT !.pc = "find", !.tries = Retries]]
    /\ Tell(j, "asked")
    /\ Others /\ UNCHANGED <<tables, upset>>

\* mutant of Retry: one try too many
RetryMore(j) ==
    insert' = [insert EXCEPT ![j] =
                [Idle EXCEPT !.pc = IF insert[j].tries > 0 THEN "find" ELSE "delete",
                             !.tries = insert[j].tries - 1]]

\* the attempt has failed: try again, in the end make sure that the job is out
Retry(j) ==
    insert' = [insert EXCEPT ![j] =
                [Idle EXCEPT !.pc = IF insert[j].tries > 1 THEN "find" ELSE "delete",
                             !.tries = insert[j].tries - 1]]

\* an exception: nobody catches it in the database or in insertIntoTQ
Raise(j) ==
    /\ insert' = [insert EXCEPT ![j] = Idle]
    /\ Tell(j, "none")

\* the queues with the definition of the job; the join finds only those with jobs
Exactly(j) == {q \in Rows : conds[q] = Needs[j] /\ JobsIn(q) # {}}

Smallest(queues) ==
    {q \in queues : \A p \in queues : Cardinality(JobsIn(q)) <= Cardinality(JobsIn(p))}

Find(j) ==
    /\ At(j, "find")
    /\ \/ \E q \in Smallest(Exactly(j)) :
            /\ Cardinality(JobsIn(q)) < MaxJobsInTQ
            /\ insert' = [insert EXCEPT ![j].pc = "disable", ![j].queue = q]
       \/ /\ \A q \in Smallest(Exactly(j)) : Cardinality(JobsIn(q)) >= MaxJobsInTQ
          /\ Goto(j, "create")
    /\ Others /\ UNCHANGED <<tables, told, upset>>

\* mutant of Disable: the queue is used as it is
DisableNot(j) ==
    /\ At(j, "disable")
    /\ Goto(j, "insert")
    /\ Others /\ UNCHANGED <<tables, told, upset>>

\* whether a row was updated makes no difference
Disable(j) ==
    /\ At(j, "disable")
    /\ AddEnabled(insert[j].queue, -1)
    /\ Goto(j, "insert")
    /\ Others /\ UNCHANGED <<conds, queueOf, told, upset>>

Create(j) ==
    /\ At(j, "create")
    /\ \E q \in NextId :
        /\ enabled' = [p \in Rows \cup {q} |-> IF p = q THEN 0 ELSE enabled[p]]
        /\ insert' = [insert EXCEPT ![j].pc = "conditions", ![j].queue = q, ![j].todo = Needs[j]]
    /\ Others /\ UNCHANGED <<conds, queueOf, told, upset>>

\* the foreign key asks for the row; the error message of a failing insert raises
AddCondition(j) ==
    /\ At(j, "conditions")
    /\ \E f \in insert[j].todo :
        IF insert[j].queue \in Rows
        THEN /\ conds' = [conds EXCEPT ![insert[j].queue] = @ \cup {f}]
             /\ insert' = [insert EXCEPT ![j].todo = @ \ {f}]
             /\ UNCHANGED told
        ELSE Raise(j) /\ UNCHANGED conds
    /\ Others /\ UNCHANGED <<enabled, queueOf, upset>>

Created(j) ==
    /\ At(j, "conditions")
    /\ insert[j].todo = {}
    /\ Goto(j, "insert")
    /\ Others /\ UNCHANGED <<tables, told, upset>>

\* the statement of __insertJobInTaskQueue, if the foreign key lets it
Enter(j, ok) ==
    /\ queueOf' = [queueOf EXCEPT ![j] = insert[j].queue]
    /\ insert' = [insert EXCEPT ![j].pc = "enable", ![j].ok = ok]
    /\ Tell(j, "entered")

InsertJob(j) ==
    /\ At(j, "insert")
    /\ IF insert[j].queue \in Rows
       THEN Enter(j, TRUE)
       ELSE Goto(j, "enable") /\ UNCHANGED <<queueOf, told>>
    /\ Others /\ UNCHANGED <<enabled, conds, upset>>

\* mutant of Return: whether the job was inserted is not looked at
ReturnAnyway(j) == insert' = [insert EXCEPT ![j] = Idle] /\ Tell(j, "ok")

Return(j) ==
    IF insert[j].ok
    THEN insert' = [insert EXCEPT ![j] = Idle] /\ Tell(j, "ok")
    ELSE Retry(j) /\ UNCHANGED told

\* the finally clause of insertJob
Enable(j) ==
    /\ At(j, "enable")
    /\ AddEnabled(insert[j].queue, 1)
    /\ Return(j)
    /\ Others /\ UNCHANGED <<conds, queueOf, upset>>

Refused(j) ==
    /\ insert' = [insert EXCEPT ![j] = Idle]
    /\ Tell(j, "error")

\* the job is forced out, and the caller hears of the first error
DeleteFailed(j) ==
    /\ At(j, "delete")
    /\ queueOf' = [queueOf EXCEPT ![j] = NoQueue]
    /\ Refused(j)
    /\ Others /\ UNCHANGED <<enabled, conds, upset>>

-----------------------------------------------------------------------------
(***************************************************************************)
(* matchAndGetJob and deleteJob.  Which queues come first is random,       *)
(* weighed by priorities, and so is the job that is tried first.           *)
(***************************************************************************)
\* disabled queues match, too
ChooseQueue(m, q) ==
    /\ match[m].pc = "idle"
    /\ q \in Rows
    /\ conds[q] \subseteq Offers[m]
    /\ match' = [match EXCEPT ![m] = [pc |-> "list", queue |-> q, list |-> {}]]
    /\ UNCHANGED <<tables, insert, clean, told, upset>>

ListJobs(m) ==
    /\ match[m].pc = "list"
    /\ match' = [match EXCEPT ![m] =
        IF JobsIn(@.queue) = {} THEN NotMatching
        ELSE [pc |-> "extract", queue |-> @.queue, list |-> JobsIn(@.queue)]]
    /\ UNCHANGED <<tables, insert, clean, told, upset>>

Got(m, j) == match' = [match EXCEPT ![m] = [pc |-> "got", queue |-> NoQueue, list |-> {j}]]

\* mutant of Extract: whether a row was deleted is not looked at
ExtractBlind(m, j) ==
    /\ match[m].pc = "extract" /\ j \in match[m].list
    /\ queueOf' = [queueOf EXCEPT ![j] = NoQueue]
    /\ Got(m, j)
    /\ UNCHANGED <<enabled, conds, insert, clean, told, upset>>

\* deleteJob deletes a row for one of those who try
Extract(m, j) ==
    /\ match[m].pc = "extract" /\ j \in match[m].list
    /\ IF queueOf[j] # NoQueue
       THEN queueOf' = [queueOf EXCEPT ![j] = NoQueue] /\ Got(m, j)
       ELSE /\ match' = [match EXCEPT ![m] =
                IF @.list = {j} THEN NotMatching
                ELSE [pc |-> "extract", queue |-> @.queue, list |-> @.list \ {j}]]
            /\ UNCHANGED queueOf
    /\ UNCHANGED <<enabled, conds, insert, clean, told, upset>>

\* the job goes to the pilot
HandOut(m) ==
    /\ match[m].pc = "got"
    /\ match' = [match EXCEPT ![m] = NotMatching]
    /\ UNCHANGED <<tables, insert, clean, told, upset>>

\* a job is killed or deleted
DeleteJob(j) ==
    /\ queueOf[j] # NoQueue
    /\ queueOf' = [queueOf EXCEPT ![j] = NoQueue]
    /\ UNCHANGED <<enabled, conds, insert, match, clean, told, upset>>

-----------------------------------------------------------------------------
(***************************************************************************)
(* cleanOrphanedTaskQueues, which retrieveTaskQueues calls when it sees a  *)
(* field of a queue without jobs; deleteTaskQueueIfEmpty is the same for   *)
(* one queue.                                                              *)
(***************************************************************************)
CleanerStep(c) == UNCHANGED <<queueOf, insert, match, told, upset>>

Orphans == {q \in Rows : enabled[q] >= 1 /\ JobsIn(q) = {}}

SelectOrphans(c) ==
    /\ clean[c].pc = "idle"
    /\ \E q \in Queue : conds[q] # {} /\ JobsIn(q) = {}
    /\ Orphans # {}
    /\ clean' = [clean EXCEPT ![c] = [pc |-> "fields", list |-> Orphans, todo |-> Field]]
    /\ CleanerStep(c) /\ UNCHANGED <<enabled, conds>>

DeleteConditions(c) ==
    /\ clean[c].pc = "fields"
    /\ \E f \in clean[c].todo :
        /\ conds' = [q \in Queue |-> IF q \in clean[c].list THEN conds[q] \ {f} ELSE conds[q]]
        /\ clean' = [clean EXCEPT ![c].todo = @ \ {f},
                                  ![c].pc = IF clean[c].todo = {f} THEN "rows" ELSE "fields"]
    /\ CleanerStep(c) /\ UNCHANGED enabled

\* mutant of Referenced: the tables have no foreign keys
ReferencedNot(q) == FALSE

\* the foreign keys of jobs and conditions to their queue
Referenced(q) == conds[q] # {} \/ JobsIn(q) # {}

\* one statement for all: it fails as a whole
DeleteRows(c) ==
    /\ clean[c].pc = "rows"
    /\ enabled' = IF \E q \in clean[c].list : q \in Rows /\ Referenced(q)
                  THEN enabled
                  ELSE [q \in Rows \ clean[c].list |-> enabled[q]]
    /\ clean' = [clean EXCEPT ![c] = NotCleaning]
    /\ CleanerStep(c) /\ UNCHANGED conds

-----------------------------------------------------------------------------
(***************************************************************************)
(* What may go wrong.                                                      *)
(***************************************************************************)
Upset(kind) == upset[kind] < MaxUpsets /\ upset' = [upset EXCEPT ![kind] = @ + 1]

\* a statement fails; when it creates a queue, the handling of the error raises;
\* when it is the last, which forces the job out, nobody looks
StatementFails(j) ==
    /\ "dbError" \in Faults
    /\ \/ At(j, "find") /\ Retry(j) /\ Upset("errors") /\ UNCHANGED told
       \/ At(j, "disable") /\ Goto(j, "find") /\ Upset("errors") /\ UNCHANGED told
       \/ At(j, "create") /\ Raise(j) /\ Upset("errors")
       \/ At(j, "conditions") /\ insert[j].todo # {} /\ Raise(j) /\ Upset("counts")
       \/ At(j, "insert") /\ Goto(j, "enable") /\ Upset("errors") /\ UNCHANGED told
       \/ At(j, "enable") /\ Return(j) /\ Upset("counts")
       \/ At(j, "delete") /\ Refused(j) /\ Upset("errors")
    /\ Others /\ UNCHANGED tables

\* the job is inserted, but the answer of the database is lost
AnswerLost(j) ==
    /\ "lost" \in Faults
    /\ At(j, "insert")
    /\ insert[j].queue \in Rows
    /\ Enter(j, FALSE)
    /\ Upset("errors")
    /\ Others /\ UNCHANGED <<enabled, conds>>

Crash(j) ==
    /\ "crash" \in Faults
    /\ ~ At(j, "idle")
    /\ Raise(j)
    /\ Upset("counts")
    /\ Others /\ UNCHANGED tables

\* cleanTaskQueues of an OptimizationMind that starts
EnableAll ==
    /\ "restart" \in Faults
    /\ enabled' = [q \in Rows |-> 1]
    /\ Upset("counts")
    /\ UNCHANGED <<conds, queueOf, insert, match, clean, told>>

-----------------------------------------------------------------------------
InsertStep(j) ==
    \/ Find(j) \/ Disable(j) \/ Create(j) \/ AddCondition(j) \/ Created(j)
    \/ InsertJob(j) \/ Enable(j) \/ DeleteFailed(j)

CleanStep(c) == DeleteConditions(c) \/ DeleteRows(c)

Next ==
    \/ \E j \in Job : Ask(j) \/ InsertStep(j) \/ DeleteJob(j)
    \/ \E j \in Job : StatementFails(j) \/ AnswerLost(j) \/ Crash(j)
    \/ \E m \in Matcher, q \in Queue : ChooseQueue(m, q)
    \/ \E m \in Matcher : ListJobs(m) \/ HandOut(m)
    \/ \E m \in Matcher, j \in Job : Extract(m, j)
    \/ \E c \in Cleaner : SelectOrphans(c) \/ CleanStep(c)
    \/ EnableAll

Spec == Init /\ [][Next]_vars

-----------------------------------------------------------------------------
(***************************************************************************)
(* Properties.                                                             *)
(***************************************************************************)
InsertTypeOK ==
    insert \in [Job -> [pc : {"idle", "find", "disable", "create", "conditions",
                              "insert", "enable", "delete"},
                        queue : Queue \cup {NoQueue}, todo : SUBSET Field,
                        ok : BOOLEAN, tries : 0 .. Retries]]

\* The variables have the types of the tables and threads they stand for.
TypeOK ==
    /\ Rows \subseteq Queue
    /\ enabled \in [Rows -> Int]
    /\ conds \in [Queue -> SUBSET Field]
    /\ queueOf \in [Job -> Queue \cup {NoQueue}]
    /\ InsertTypeOK
    /\ match \in [Matcher -> [pc : {"idle", "list", "extract", "got"},
                              queue : Queue \cup {NoQueue}, list : SUBSET Job]]
    /\ clean \in [Cleaner -> [pc : {"idle", "fields", "rows"},
                              list : SUBSET Queue, todo : SUBSET Field]]
    /\ told \in [Job -> {"none", "asked", "entered", "ok", "error"}]
    /\ upset \in [counts : 0 .. MaxUpsets, errors : 0 .. MaxUpsets]

\* A job never waits in a queue that is gone, nor in one that asks more of a
\* pilot than the job does: whatever inserters and cleaners do to a queue
\* between its selection and its use, no pilot fit for the job is turned away.
NeverStricter ==
    \A j \in Job : queueOf[j] # NoQueue =>
        /\ queueOf[j] \in Rows
        /\ conds[queueOf[j]] \subseteq Needs[j]

\* Who has taken a queue from the others by its Enabled, and not yet given it back.
Holders(q) == {j \in Job : insert[j].queue = q
                           /\ insert[j].pc \in {"conditions", "insert", "enable"}}

\* While no process dies and no count is lost, Enabled counts the inserters at
\* work on a queue: it is 1 for a queue left alone, and lower by one for each.
\* (__setTaskQueueEnabled adds and subtracts, cleaning relies on the sum.)
EnabledCounts ==
    upset.counts = 0 => \A q \in Rows : enabled[q] = 1 - Cardinality(Holders(q))

\* What insertIntoTQ tells of a job is true, and a job that enters is taken
\* once: the queues implement the pool, whatever fails, restarts or is cleaned.
Pool == INSTANCE JobPool WITH
            pool <- {j \in Job : queueOf[j] # NoQueue},
            told <- told,
            hands <- [m \in Matcher |-> IF match[m].pc = "got" THEN match[m].list ELSE {}]

ImplementsJobPool == Pool!PoolSpec
=============================================================================
