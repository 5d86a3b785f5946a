-------------------------------- MODULE Jobs --------------------------------
(***************************************************************************)
(* The life of one job in the workload management: the services, agents    *)
(* and pilots that read and write its row in JobDB and move it in and out  *)
(* of the task queues (JobPool), each at its own pace.                     *)
(*                                                                         *)
(* Whatever an actor has begun is a sequence of steps in todo; a step is   *)
(* one statement of a database or one call, and between two steps anybody  *)
(* may come in.  A service call runs to its end on behalf of its caller.   *)
(***************************************************************************)
EXTENDS JobStatus, Integers, Sequences

CONSTANTS
    J,                  \* the job
    Pilot,
    Submitted,          \* the statuses a submission may start with
    MaxRescheduling,
    Commands,           \* what users do: subset of {"kill", "delete", "reschedule", "reset"}
    MaxCommands,        \* bound on how often they do it
    Patient,            \* they reschedule or reset a job only when nobody is at it
    Overlapping,        \* actors whose read and write of a status may be parted by others
    Faults              \* subset of {"message", "pilot", "silence", "wait", "queue", "optimizer"}

ASSUME JobsAssumption ==
    /\ Submitted \subseteq {"Submitting", "Received"}
    /\ MaxRescheduling \in Nat
    /\ Patient \in BOOLEAN
    /\ Commands \subseteq {"kill", "delete", "reschedule", "reset"}
    /\ MaxCommands \in Nat
    /\ Faults \subseteq {"message", "pilot", "silence", "wait", "queue", "optimizer"}

VARIABLES
    status,     \* Jobs.Status, "none" without a row
    described,  \* there is a row in JobJDLs, to which a row in Jobs refers
    counter,    \* Jobs.RescheduleCounter
    old,        \* LastUpdateTime and HeartBeatTime are longer ago than the agents allow
    killing,    \* JobCommands: a Kill that is not sent yet
    task,       \* the task of the job in the OptimizationMind, and its CachedJobState
    copy,       \* the CachedJobState that is being committed
    pilot,      \* what each pilot does
    given,      \* history: how many pilots got the job since it was last started
    staging,    \* the stager works on the input files
    request,    \* the wrapper has left a request to the request management
    commands,   \* what users have done so far
    todo,       \* the steps that each actor still has to do
    pool, told, hands

row == <<status, described, counter, old, killing>>
mind == <<task, copy>>
worker == <<pilot, given>>
others == <<staging, request, commands>>
queue == <<pool, told, hands>>
vars == <<row, mind, worker, others, todo, queue>>

Q == INSTANCE JobPool WITH
        Job <- {J}, Matcher <- Pilot, pool <- pool, told <- told, hands <- hands

Service == {"User", "Mind", "StalledJobAgent", "JobCleaningAgent", "Stager", "RMS"}
Actor == Service \cup Pilot

ASSUME PilotsAssumption == Pilot \cap Service = {}

Op(op) == [op |-> op, to |-> "none", n |-> 0]
Set(s) == [op |-> "set", to |-> s, n |-> 0]
Report(s) == [op |-> "report", to |-> s, n |-> 0]
Write(s) == [op |-> "write", to |-> s, n |-> 0]
Restart(n) == [op |-> "restart", to |-> "none", n |-> n]

Optimizing == {"Received", "Checking"}
NoTask == [pc |-> "none", want |-> "none", same |-> FALSE]
NoCopy == [want |-> "none", same |-> FALSE]

Init ==
    /\ status \in Submitted
    /\ described = TRUE
    /\ counter = 0
    /\ old = FALSE
    /\ killing = FALSE
    /\ task = NoTask
    /\ copy = NoCopy
    /\ pilot = [p \in Pilot |-> "idle"]
    /\ given = 0
    /\ staging = FALSE
    /\ request = FALSE
    /\ commands = 0
    /\ todo = [a \in Actor |-> IF a = "User" /\ status = "Received" THEN <<Op("message")>> ELSE <<>>]
    /\ Q!PoolInit

-----------------------------------------------------------------------------
(***************************************************************************)
(* The steps.                                                              *)
(***************************************************************************)
Free(a) == todo[a] = <<>>
At(a, op) == todo[a] # <<>> /\ Head(todo[a]).op = op
Arg(a) == Head(todo[a]).to

Begin(a, steps) == Free(a) /\ todo' = [todo EXCEPT ![a] = steps]
Done(a) == todo' = [todo EXCEPT ![a] = Tail(@)]
Instead(a, steps) == todo' = [todo EXCEPT ![a] = steps \o Tail(@)]
GiveUp(a) == todo' = [todo EXCEPT ![a] = <<>>]

HasRow == status # "none"

\* a copy is compared with the row by Status, MinorStatus and LastUpdateTime
Touch ==
    /\ task' = [task EXCEPT !.same = FALSE]
    /\ copy' = [copy EXCEPT !.same = FALSE]

\* the Matcher leaves LastUpdateTime as it is
Put(a, s) ==
    /\ status' = s
    /\ old' = (old /\ a \in Pilot /\ pilot[a] = "matching")
    /\ Touch

\* the status is read, looked up in the state machine and written by statements of
\* their own
Store(a, s) ==
    IF a \in Overlapping
    THEN Instead(a, <<Write(s)>>) /\ UNCHANGED <<status, old, mind>>
    ELSE Done(a) /\ Put(a, s)

\* the row is not there, or is not updated
Nothing(a) == Done(a) /\ UNCHANGED <<status, old, mind>>

\* setJobsMajorStatus; __deleteJob stops at an error
SetStatus(a) ==
    /\ At(a, "set")
    /\ IF HasRow THEN Store(a, NextState(status, Arg(a)))
       ELSE IF Arg(a) = "Deleted" THEN GiveUp(a) /\ UNCHANGED <<status, old, mind>>
       ELSE Nothing(a)
    /\ UNCHANGED <<described, counter, killing, worker, others, queue>>

\* _setJobStatusBulk has a state machine of its own; a job that reports is not stalled
ReportStatus(a) ==
    /\ At(a, "report")
    /\ LET current == IF status = "Stalled" THEN "Running" ELSE status
       IN  IF HasRow
           THEN Store(a, IF Arg(a) = "none" THEN current ELSE NextState(current, Arg(a)))
           ELSE Nothing(a)
    /\ UNCHANGED <<described, counter, killing, worker, others, queue>>

\* the row is updated, or inserted once more
WriteStatus(a) ==
    /\ At(a, "write")
    /\ IF HasRow \/ described THEN Done(a) /\ Put(a, Arg(a)) ELSE Nothing(a)
    /\ UNCHANGED <<described, counter, killing, worker, others, queue>>

\* mutant of Reschedule: the limit is passed once
RescheduleOnceMore(a) ==
    /\ At(a, "reschedule")
    /\ IF ~ HasRow THEN GiveUp(a)
       ELSE IF counter > MaxRescheduling
       THEN todo' = [todo EXCEPT ![a] = <<Set("Failed")>>]
       ELSE Instead(a, <<Restart(counter + 1)>>)
    /\ UNCHANGED <<row, mind, worker, others, queue>>

\* JobDB.rescheduleJob: nothing of what follows is done after an error
Reschedule(a) ==
    /\ At(a, "reschedule")
    /\ IF ~ HasRow THEN GiveUp(a)
       ELSE IF counter + 1 > MaxRescheduling
       THEN todo' = [todo EXCEPT ![a] = <<Set("Failed")>>]
       ELSE Instead(a, <<Restart(counter + 1)>>)
    /\ UNCHANGED <<row, mind, worker, others, queue>>

\* and the row is new, but for its counter
RestartJob(a) ==
    /\ At(a, "restart")
    /\ IF HasRow
       THEN /\ status' = "Received"
            /\ counter' = Head(todo[a]).n
            /\ old' = FALSE
            /\ given' = 0
            /\ Touch
            /\ Done(a)
       ELSE GiveUp(a) /\ UNCHANGED <<status, counter, old, given, mind>>
    /\ UNCHANGED <<described, killing, pilot, others, queue>>

ResetCounter(a) ==
    /\ At(a, "zero")
    /\ counter' = IF HasRow THEN -1 ELSE counter
    /\ Done(a)
    /\ UNCHANGED <<status, described, old, killing, mind, worker, others, queue>>

\* TaskQueueDB.deleteJob
Dequeue(a) ==
    /\ At(a, "dequeue")
    /\ IF J \in pool THEN Q!Remove(J) ELSE UNCHANGED queue
    /\ Done(a)
    /\ UNCHANGED <<row, mind, worker, others>>

SetJobCommand(a) ==
    /\ At(a, "command")
    /\ IF HasRow THEN killing' = TRUE /\ Done(a) ELSE killing' = killing /\ GiveUp(a)
    /\ UNCHANGED <<status, described, counter, old, mind, worker, others, queue>>

Deletable == {"Submitting", "Received", "Checking", "Waiting", "Rescheduled", "Done",
              "Failed", "Killed"}

\* __kill_delete_jobs: what is done to a job depends on its status now
KillSteps(right) ==
    IF status \in {"Running", "Matched", "Stalled"}
    THEN <<Op("command"), Set("Killed"), Op("dequeue")>>
    ELSE IF status \in Deletable
    THEN IF right = "delete" THEN <<Set("Deleted"), Op("dequeue")>> ELSE <<>>
    ELSE IF status = "Staging" THEN <<Set("Killed"), Op("dequeue"), Op("unstage")>>
    ELSE IF HasRow THEN <<Set("Killed"), Op("dequeue")>> ELSE <<>>

KillOrDelete(a) ==
    /\ \E right \in {"kill", "delete"} : At(a, right) /\ Instead(a, KillSteps(right))
    /\ UNCHANGED <<row, mind, worker, others, queue>>

\* killTasksBySourceTaskID: the stager forgets the job
KillStaging(a) ==
    /\ At(a, "unstage")
    /\ staging' = FALSE
    /\ Done(a)
    /\ UNCHANGED <<row, mind, worker, request, commands, queue>>

\* removeJobFromDB
DeleteRow(a) ==
    /\ At(a, "deleteRow")
    /\ status' = "none"
    /\ killing' = FALSE
    /\ Touch
    /\ Done(a)
    /\ UNCHANGED <<described, counter, old, worker, others, queue>>

DeleteDescription(a) ==
    /\ At(a, "deleteDescription")
    /\ described' = HasRow
    /\ Done(a)
    /\ UNCHANGED <<status, counter, old, killing, mind, worker, others, queue>>

StatusStep(a) == SetStatus(a) \/ ReportStatus(a) \/ WriteStatus(a)

-----------------------------------------------------------------------------
(***************************************************************************)
(* The OptimizationMind, with the optimizers and the task queues.          *)
(***************************************************************************)
\* executeTask with a new CachedJobState
Fresh ==
    IF status \in Optimizing
    THEN [pc |-> "optimizing", want |-> status, same |-> TRUE]
    ELSE NoTask

\* the JobManager sends OptimizeJobs; the task that was there is forgotten
OptimizeJobs(a) ==
    /\ At(a, "message")
    /\ Done(a)
    /\ \/ task' = Fresh
       \/ "message" \in Faults /\ UNCHANGED task
    /\ UNCHANGED <<row, copy, worker, others, queue>>

\* __loadJobs
LoadJobs ==
    /\ task.pc = "none"
    /\ status \in Optimizing
    /\ task' = Fresh
    /\ UNCHANGED <<row, copy, worker, others, todo, queue>>

\* what an optimizer makes of a job (an optimizer may also put it on hold)
Outcomes(want) ==
    IF want = "Received" THEN {"Checking", "Failed"}
    ELSE {"Checking", "Waiting", "Staging", "Failed"}

Commit(s) ==
    <<Op("compare"), Set(s), Op("reread")>>
        \o (IF s = "Waiting" THEN <<Op("insert")>> ELSE <<>>)
        \o <<Op("dispatch")>>

\* the stager gets its request before the status is committed
TaskDone(s) ==
    /\ task.pc = "optimizing"
    /\ s \in Outcomes(task.want)
    /\ Begin("Mind", Commit(s))
    /\ copy' = [want |-> s, same |-> task.same]
    /\ task' = [NoTask EXCEPT !.pc = "committing"]
    /\ staging' = (staging \/ s = "Staging")
    /\ UNCHANGED <<row, worker, request, commands, queue>>

\* an optimizer has raised: the job fails, whatever has become of it
TaskError ==
    /\ "optimizer" \in Faults
    /\ task.pc = "optimizing"
    /\ Begin("Mind", <<Set("Failed")>>)
    /\ task' = NoTask
    /\ UNCHANGED <<row, copy, worker, others, queue>>

ForgetTask == task' = NoTask /\ copy' = NoCopy

\* mutant of Compare: the copy is committed whatever became of the row
CompareNothing ==
    /\ At("Mind", "compare") /\ Done("Mind")
    /\ UNCHANGED <<row, mind, worker, others, queue>>

\* commitCache: the row must still be as it was when the copy was made
Compare ==
    /\ At("Mind", "compare")
    /\ IF copy.same THEN Done("Mind") /\ UNCHANGED mind ELSE GiveUp("Mind") /\ ForgetTask
    /\ UNCHANGED <<row, worker, others, queue>>

Reread ==
    /\ At("Mind", "reread")
    /\ IF HasRow
       THEN Done("Mind") /\ copy' = [copy EXCEPT !.same = TRUE] /\ UNCHANGED task
       ELSE GiveUp("Mind") /\ ForgetTask
    /\ UNCHANGED <<row, worker, others, queue>>

\* insertIntoTQ; when it fails the job is rescheduled
InsertIntoTQ ==
    /\ At("Mind", "insert")
    /\ \/ Q!Ask(J) /\ UNCHANGED <<todo, mind>>
       \/ told[J] = "asked" /\ Q!Enter(J) /\ UNCHANGED <<todo, mind>>
       \/ Q!Confirm(J) /\ Done("Mind") /\ UNCHANGED mind
       \/ /\ "queue" \in Faults
          /\ Q!Refuse(J)
          /\ todo' = [todo EXCEPT !["Mind"] = <<Op("dequeue"), Op("reschedule")>>]
          /\ ForgetTask
    /\ UNCHANGED <<row, worker, others>>

\* the status in the copy decides, not the one in the database; a task that
\* came with a message meanwhile is left alone
Dispatch ==
    /\ At("Mind", "dispatch")
    /\ Done("Mind")
    /\ task' = IF task.pc # "committing" THEN task
               ELSE IF copy.want \in Optimizing
               THEN [pc |-> "optimizing", want |-> copy.want, same |-> copy.same]
               ELSE NoTask
    /\ copy' = NoCopy
    /\ UNCHANGED <<row, worker, others, queue>>

MindStep == Compare \/ Reread \/ InsertIntoTQ \/ Dispatch

-----------------------------------------------------------------------------
(***************************************************************************)
(* The Matcher, on behalf of a pilot, and the pilot with the job.          *)
(***************************************************************************)
GoTo(p, pc) == pilot' = [pilot EXCEPT ![p] = pc]

\* selectJob: the task queue gives the job, ...
TakeFromTQ(p) ==
    /\ pilot[p] = "idle"
    /\ Q!Take(p, J)
    /\ Begin(p, <<Op("check"), Set("Matched"), Op("give")>>)
    /\ GoTo(p, "matching")
    /\ UNCHANGED <<row, mind, given, others>>

\* ... the JobDB must agree, ...
CheckWaiting(p) ==
    /\ At(p, "check")
    /\ IF status = "Waiting" THEN Done(p) /\ UNCHANGED <<pilot, queue>>
       ELSE /\ todo' = [todo EXCEPT ![p] = IF HasRow THEN <<Op("dequeue")>> ELSE <<>>]
            /\ GoTo(p, "idle")
            /\ Q!HandOver(p)
    /\ UNCHANGED <<row, mind, given, others>>

\* ... and the pilot gets it, if there is still a row
GiveJob(p) ==
    /\ At(p, "give")
    /\ Done(p)
    /\ Q!HandOver(p)
    /\ IF HasRow
       THEN GoTo(p, "assigned") /\ given' = IF given < 2 THEN given + 1 ELSE given
       ELSE GoTo(p, "idle") /\ UNCHANGED given
    /\ UNCHANGED <<row, mind, others>>

StartWrapper(p) ==
    /\ pilot[p] = "assigned"
    /\ Begin(p, <<Report("Running")>>)
    /\ GoTo(p, "running")
    /\ UNCHANGED <<row, mind, given, others, queue>>

\* the wrapper says something that is no new status, or sends a heart beat
ReportProgress(p) ==
    /\ pilot[p] = "running"
    /\ \/ Begin(p, <<Report("none")>>)
       \/ Begin(p, <<Op("beat"), Op("restore"), Op("obey")>>)
    /\ UNCHANGED <<row, mind, worker, others, queue>>

\* setHeartBeatData
Beat(p) ==
    /\ At(p, "beat")
    /\ IF HasRow THEN Done(p) /\ Put(p, "Running") ELSE Nothing(p)
    /\ UNCHANGED <<described, counter, killing, worker, others, queue>>

\* sendHeartBeat goes on
Restore(p) ==
    /\ At(p, "restore")
    /\ IF ~ HasRow THEN GiveUp(p)
       ELSE IF status \in {"Stalled", "Matched"} THEN Instead(p, <<Set("Running")>>)
       ELSE Done(p)
    /\ UNCHANGED <<row, mind, worker, others, queue>>

\* the answer holds the commands; the wrapper stops at a Kill
Obey(p) ==
    /\ At(p, "obey")
    /\ IF killing THEN Instead(p, <<Report("Failed")>>) /\ GoTo(p, "idle")
       ELSE Done(p) /\ UNCHANGED pilot
    /\ killing' = FALSE
    /\ UNCHANGED <<status, described, counter, old, mind, given, others, queue>>

\* the payload has ended; finalize may leave a request
Finish(p, s) ==
    /\ pilot[p] = "running"
    /\ Begin(p, <<Report("Completing"), Report(s)>>)
    /\ GoTo(p, "idle")
    /\ request' \in CASE s = "Done" -> {request}
                      [] s = "Completed" -> {TRUE}
                      [] s = "Failed" -> {request, TRUE}
    /\ UNCHANGED <<row, mind, given, staging, commands, queue>>

\* rescheduleFailedJob
GiveBack(p) ==
    /\ pilot[p] \in {"assigned", "running"}
    /\ Begin(p, <<Report("Rescheduled"), Op("dequeue"), Op("reschedule"), Op("message")>>)
    /\ GoTo(p, "idle")
    /\ UNCHANGED <<row, mind, given, others, queue>>

LosePilot(p) ==
    /\ "pilot" \in Faults
    /\ pilot[p] \in {"assigned", "running"}
    /\ Free(p)
    /\ GoTo(p, "idle")
    /\ UNCHANGED <<row, mind, given, others, todo, queue>>

PilotStep(p) ==
    CheckWaiting(p) \/ GiveJob(p) \/ Beat(p) \/ Restore(p) \/ Obey(p)

-----------------------------------------------------------------------------
(***************************************************************************)
(* The agents, the stager, the request management, the users.              *)
(***************************************************************************)
Quiet == \A a \in Actor : Free(a)

\* time passes; a pilot that is alive reports in time, and a job need not wait
\* for as long, unless "silence" and "wait" are among the faults
HasPilot == \E p \in Pilot : pilot[p] # "idle"

Age ==
    /\ ~ old /\ HasRow
    /\ Quiet
    /\ HasPilot => "silence" \in Faults
    /\ status \in {"Submitting", "Waiting"} => "wait" \in Faults
    /\ old' = TRUE
    /\ UNCHANGED <<status, described, counter, killing, mind, worker, others, todo, queue>>

\* StalledJobAgent: _markStalledJobs looks again in its thread, ...
MarkStalled ==
    /\ status \in {"Running", "Completing"} /\ old
    /\ Begin("StalledJobAgent", <<Op("recheck"), Set("Stalled")>>)

Recheck(a) ==
    /\ At(a, "recheck")
    /\ IF old /\ HasRow THEN Done(a) ELSE GiveUp(a)
    /\ UNCHANGED <<row, mind, worker, others, queue>>

\* ... _failStalledJobs only if the pilot is gone or silent: the job goes
\* back when its site is in StalledJobsToRescheduleSites, ...
FailStalled ==
    /\ status = "Stalled"
    /\ \E last \in {Set("Failed"), Op("reject")} :
           Begin("StalledJobAgent", <<Op("kill"), last>>)

Reject(a) ==
    /\ At(a, "reject")
    /\ IF HasRow THEN Store(a, "Rescheduled") ELSE Nothing(a)
    /\ UNCHANGED <<described, counter, killing, worker, others, queue>>

\* mutant of KickStuck: jobs given back are not looked for
KickMatched ==
    /\ status = "Matched" /\ old
    /\ Begin("StalledJobAgent", <<Op("reschedule")>>)

\* ... _kickStuckJobs, _failSubmittingJobs
KickStuck ==
    /\ status \in {"Matched", "Rescheduled"} /\ old
    /\ Begin("StalledJobAgent", <<Op("reschedule")>>)

FailSubmitting ==
    /\ status = "Submitting" /\ old
    /\ Begin("StalledJobAgent", <<Set("Failed")>>)

\* JobCleaningAgent
RemoveDeleted ==
    /\ status = "Deleted"
    /\ Begin("JobCleaningAgent", <<Op("deleteRow"), Op("deleteDescription"), Op("dequeue")>>)

DeleteOld ==
    /\ status \in {"Done", "Failed", "Killed"} /\ old
    /\ Begin("JobCleaningAgent", <<Op("delete")>>)

AgentStarts ==
    /\ \/ MarkStalled \/ FailStalled \/ KickStuck \/ FailSubmitting
       \/ RemoveDeleted \/ DeleteOld
    /\ UNCHANGED <<row, mind, worker, others, queue>>

\* the stager calls updateJobFromStager when it is done, or has failed
StagerAnswers(s) ==
    /\ staging
    /\ staging' = FALSE
    /\ Begin("Stager", <<Op("await"), Report(s)>>)
    /\ UNCHANGED <<row, mind, worker, request, commands, queue>>

\* it looks for the job in Staging ten times
AwaitStaging(a) ==
    /\ At(a, "await")
    /\ IF status = "Staging" THEN Done(a) ELSE GiveUp(a)
    /\ UNCHANGED <<row, mind, worker, others, queue>>

\* finalizeRequest; a stalled job gets back the status it had before
FinalStatus ==
    IF status = "Completed" THEN {"Done", "Failed"}
    ELSE IF status = "Stalled" THEN {"Running", "Completing"}
    ELSE {"none"}

FinalizeRequest ==
    /\ request
    /\ request' = FALSE
    /\ \E s \in FinalStatus : Begin("RMS", IF HasRow THEN <<Report(s)>> ELSE <<>>)
    /\ UNCHANGED <<row, mind, worker, staging, commands, queue>>

\* confirmBulkSubmission, and what users do to their jobs
ConfirmSubmission ==
    /\ status = "Submitting"
    /\ Begin("User", <<Set("Received"), Op("message")>>)
    /\ UNCHANGED <<row, mind, worker, others, queue>>

\* nobody is at the job any more: no actor, no pilot, neither mind nor queue
Ended ==
    /\ status \in {"Done", "Failed", "Killed"} /\ Quiet /\ ~ HasPilot
    /\ task = NoTask /\ J \notin pool

UserCommand(c) ==
    /\ commands < MaxCommands
    /\ Patient /\ c \in {"reschedule", "reset"} => Ended
    /\ commands' = commands + 1
    /\ Begin("User", CASE c \in {"kill", "delete"} -> <<Op(c)>>
                       [] c = "reschedule" -> <<Op("dequeue"), Op("reschedule"), Op("message")>>
                       [] c = "reset" -> <<Op("zero"), Op("dequeue"), Op("reschedule"),
                                           Op("message")>>)
    /\ UNCHANGED <<row, mind, worker, staging, request, queue>>

-----------------------------------------------------------------------------
RowStep(a) ==
    \/ StatusStep(a) \/ Reschedule(a) \/ RestartJob(a) \/ ResetCounter(a) \/ Dequeue(a)
    \/ SetJobCommand(a) \/ KillOrDelete(a) \/ KillStaging(a)
    \/ DeleteRow(a) \/ DeleteDescription(a) \/ OptimizeJobs(a)
    \/ Recheck(a) \/ Reject(a) \/ AwaitStaging(a)

Next ==
    \/ \E a \in Actor : RowStep(a)
    \/ MindStep \/ LoadJobs \/ TaskError \/ \E s \in Statuses : TaskDone(s)
    \/ \E p \in Pilot : TakeFromTQ(p) \/ PilotStep(p)
    \/ \E p \in Pilot : StartWrapper(p) \/ ReportProgress(p) \/ GiveBack(p) \/ LosePilot(p)
    \/ \E p \in Pilot, s \in {"Done", "Completed", "Failed"} : Finish(p, s)
    \/ Age \/ AgentStarts \/ FinalizeRequest \/ ConfirmSubmission
    \/ \E s \in {"Checking", "none"} : StagerAnswers(s)
    \/ \E c \in Commands : UserCommand(c)

Spec == Init /\ [][Next]_vars

\* what has begun goes on, time passes, agents and the mind come back; an
\* optimizer puts a job on hold only finitely often
FairSpec ==
    /\ Spec
    /\ \A a \in Actor : WF_vars(RowStep(a))
    /\ WF_vars(MindStep)
    /\ \A p \in Pilot : WF_vars(PilotStep(p))
    /\ WF_vars(LoadJobs)
    /\ SF_vars(\E s \in Statuses \ {"Checking"} : TaskDone(s))
    /\ WF_vars(Age) /\ WF_vars(AgentStarts)

-----------------------------------------------------------------------------
(***************************************************************************)
(* Properties.                                                             *)
(***************************************************************************)
RowTypeOK ==
    /\ status \in Statuses \cup {"none"}
    /\ described \in BOOLEAN
    /\ counter \in -1 .. MaxRescheduling
    /\ old \in BOOLEAN
    /\ killing \in BOOLEAN

Steps == [op : {"set", "report", "write", "reschedule", "restart", "zero", "dequeue", "command",
                "kill", "delete", "deleteRow", "deleteDescription", "message", "compare",
                "reread", "insert", "dispatch", "check", "give", "beat", "restore", "obey",
                "recheck", "reject", "await", "unstage"},
          to : Statuses \cup {"none"}, n : 0 .. MaxRescheduling]

\* The variables have the types of the rows, threads and pilots they stand for.
TypeOK ==
    /\ RowTypeOK
    /\ task \in [pc : {"none", "optimizing", "committing"},
                 want : Optimizing \cup {"none"}, same : BOOLEAN]
    /\ copy \in [want : Statuses \cup {"none"}, same : BOOLEAN]
    /\ pilot \in [Pilot -> {"idle", "matching", "assigned", "running"}]
    /\ given \in 0 .. 2
    /\ staging \in BOOLEAN
    /\ request \in BOOLEAN
    /\ commands \in 0 .. MaxCommands
    /\ todo \in [Actor -> Seq(Steps)]
    /\ Q!PoolTypeOK

\* Between two starts of a job (submission, rescheduling) no two pilots get it: the
\* copy of the mind is compared before it is committed, the pool gives a job once for
\* each time it is inserted, and the Matcher looks at the status again.  It is the
\* promise behind the three checks, none of which is made under a lock.
OnePilotPerStart == given <= 1

Unsettled ==
    \/ status \in {"Received", "Checking", "Rescheduled", "Stalled"}
    \/ status \in {"Matched", "Running", "Completing"} /\ ~ HasPilot

\* No job is stuck: whatever messages are lost and whatever pilots die, a job that is
\* being optimised, that was given back, or whose pilot is gone comes to wait in a
\* queue, to be staged, to run or to its end, by the rounds of LoadJobs and of the
\* StalledJobAgent.
EverySettles == Unsettled ~> ~ Unsettled
=============================================================================
