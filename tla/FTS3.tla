-------------------------------- MODULE FTS3 --------------------------------
(***************************************************************************)
(* One FTS3 operation: the transfers of the files of one operation of a    *)
(* request, which FTS3 agents submit to an FTS server as jobs, monitor,    *)
(* retry, and report to the request management in the end.                 *)
(*                                                                         *)
(* Agents share the FTS3DB only.  A job is monitored by a thread that      *)
(* writes one row at a time; the operation is treated on a copy of all its *)
(* rows, which persistOperation writes back as a whole.  Jobs are numbered *)
(* in the order in which the server accepted them: that is their ftsGUID.  *)
(***************************************************************************)
EXTENDS Integers, FiniteSets

CONSTANTS
    Agent,
    File,
    MaxAttempts,    \* MaxAttemptsPerFile
    MaxJobs,        \* bound on the jobs the server is given
    MaxUpsets,      \* bound on the faults
    Faults          \* subset of Fault

Fault == {"query", "update", "treat", "unanswered", "put", "crash", "forget", "delete"}

ASSUME FTS3Assumption ==
    /\ MaxAttempts \in Nat \ {0}
    /\ MaxJobs \in Nat
    /\ MaxUpsets \in Nat
    /\ Faults \subseteq Fault

VARIABLES
    file,       \* rows of Files
    op,         \* row of Operations; held: assignment is set
    row,        \* rows of Jobs: "none" | "Active" (no final status) | "Final"
    held,       \* Jobs.assignment is set
    server,     \* the transfers of each job, as the FTS server has them
    forgotten,  \* the server does not know the job any more
    request,    \* the status of the request in the request management
    told,       \* the status of its files there
    reports,    \* history: how often it was told since it last was put back Scheduled
    pc,         \* where each agent is in its cycle
    thread,     \* what the threads of an agent do that monitor jobs
    copy,       \* the operation an agent treats, and what it has left to submit
    upsets

db == <<file, op, row, held>>
outside == <<server, forgotten>>
rms == <<request, told, reports>>
agents == <<pc, thread, copy>>
vars == <<db, outside, rms, agents, upsets>>

Job == 1 .. MaxJobs
FinalFile == {"Finished", "Defunct"}
\* FTS_FAILED_STATES: Canceled and Failed are treated alike
FileStatus == {"New", "Submitted", "Failed"} \cup FinalFile
FinalOperation == {"Finished", "Canceled"}
FinalRequest == {"Canceled", "Closed"}
NoTransfer == [f \in File |-> "none"]

NoAnswer == [f \in {} |-> "none"]
NoThread == [pc |-> "none", seen |-> NoAnswer, over |-> FALSE]
NoCopy == [status |-> "none", file |-> NoAnswer, row |-> NoAnswer, held |-> NoAnswer, left |-> {}]

\* the operation has just been persisted by fts3Transfer; the request it
\* belongs to is not back in its database yet
Init ==
    /\ file = [f \in File |-> [status |-> "New", attempt |-> 0, guid |-> 0]]
    /\ op = [status |-> "Active", held |-> FALSE]
    /\ row = [j \in Job |-> "none"]
    /\ held = [j \in Job |-> FALSE]
    /\ server = [j \in Job |-> NoTransfer]
    /\ forgotten = [j \in Job |-> FALSE]
    /\ request = "Assigned"
    /\ told = [f \in File |-> "none"]
    /\ reports = 0
    /\ pc = [a \in Agent |-> "idle"]
    /\ thread = [a \in Agent |-> [j \in Job |-> NoThread]]
    /\ copy = [a \in Agent |-> NoCopy]
    /\ upsets = 0

Goes(a, place) == pc' = [pc EXCEPT ![a] = place]
Upset(fault) ==
    /\ fault \in Faults
    /\ upsets < MaxUpsets
    /\ upsets' = upsets + 1

-----------------------------------------------------------------------------
(***************************************************************************)
(* Monitoring.                                                             *)
(***************************************************************************)
Thread(a, j, t) == thread' = [thread EXCEPT ![a][j] = t]
At(a, j, step) == thread[a][j].pc = step

\* one transaction: the jobs to monitor are chosen and assigned
getActiveJobs(a) ==
    LET chosen == {j \in Job : row[j] = "Active" /\ ~held[j] /\ ~op.held} IN
    /\ pc[a] = "idle"
    /\ held' = [j \in Job |-> held[j] \/ j \in chosen]
    /\ thread' = [thread EXCEPT ![a] =
                    [j \in Job |-> [NoThread EXCEPT !.pc = IF j \in chosen THEN "query" ELSE "none"]]]
    /\ Goes(a, "monitoring")
    /\ UNCHANGED <<file, op, row, outside, rms, copy, upsets>>

\* what the server says of the files of the job, at one moment
monitor(a, j) ==
    LET transfers == {f \in File : server[j][f] # "none"}
        seen == [f \in transfers |-> server[j][f]]
    IN
    /\ At(a, j, "query")
    /\ Thread(a, j, IF forgotten[j]
                    THEN [NoThread EXCEPT !.pc = "cancel"]
                    ELSE [pc |-> "update", seen |-> seen, over |-> \A f \in transfers : seen[f] # "live"])
    /\ UNCHANGED <<db, outside, rms, pc, copy, upsets>>

\* mutant of MonitorFails: every error of the server is taken for a missing job
MonitorFailsAsMissing(a, j) ==
    /\ Upset("query")
    /\ At(a, j, "query")
    /\ Thread(a, j, [NoThread EXCEPT !.pc = "cancel"])
    /\ UNCHANGED <<db, outside, rms, pc, copy>>

\* the server is not reached, or contradicts itself: the job stays assigned
MonitorFails(a, j) ==
    /\ Upset("query")
    /\ At(a, j, "query")
    /\ Thread(a, j, NoThread)
    /\ UNCHANGED <<db, outside, rms, pc, copy>>

\* one statement over the rows of the job and of the files that are in it;
\* the assignment stays
cancelNonExistingJob(a, j) ==
    LET its == {f \in File : file[f].guid = j} IN
    /\ At(a, j, "cancel")
    /\ file' = [f \in File |-> IF f \in its THEN [file[f] EXCEPT !.status = "Failed", !.guid = 0] ELSE file[f]]
    /\ row' = [row EXCEPT ![j] = IF its = {} THEN @ ELSE "Final"]
    /\ Thread(a, j, NoThread)
    /\ UNCHANGED <<op, held, outside, rms, pc, copy, upsets>>

\* the file still is in this job, and may change
Updatable(j, f) == file[f].guid = j /\ file[f].status \notin FinalFile

Reported(f, s) ==
    IF s = "live" THEN [file[f] EXCEPT !.status = "Submitted"]
                  ELSE [file[f] EXCEPT !.status = s, !.guid = 0]

updateFileStatus(a, j, f) ==
    LET t == thread[a][j] IN
    /\ At(a, j, "update")
    /\ f \in DOMAIN t.seen
    /\ file' = [file EXCEPT ![f] = IF Updatable(j, f) THEN Reported(f, t.seen[f]) ELSE @]
    /\ Thread(a, j, [t EXCEPT !.seen = [g \in DOMAIN t.seen \ {f} |-> t.seen[g]]])
    /\ UNCHANGED <<op, row, held, outside, rms, pc, copy, upsets>>

updateJobStatus(a, j) ==
    LET t == thread[a][j] IN
    /\ At(a, j, "update")
    /\ DOMAIN t.seen = {}
    /\ row' = [row EXCEPT ![j] = IF t.over THEN "Final" ELSE @]
    /\ held' = [held EXCEPT ![j] = @ /\ row[j] # "Active"]
    /\ Thread(a, j, NoThread)
    /\ UNCHANGED <<file, op, outside, rms, pc, copy, upsets>>

\* a statement fails: what was written stays, the rest is not tried
UpdateFails(a, j) ==
    /\ Upset("update")
    /\ thread[a][j].pc \in {"update", "cancel"}
    /\ Thread(a, j, NoThread)
    /\ UNCHANGED <<db, outside, rms, pc, copy>>

-----------------------------------------------------------------------------
(***************************************************************************)
(* Treating the operation.                                                 *)
(***************************************************************************)
\* the outer join keeps one row per job, and the filter one that is not assigned
Pickable ==
    LET jobs == {j \in Job : row[j] # "none"} IN
    /\ op.status \in {"Active", "Processed"}
    /\ ~op.held
    /\ jobs = {} \/ \E j \in jobs : ~held[j]

Monitored(a) == pc[a] = "monitoring" /\ \A j \in Job : At(a, j, "none")

Treats(a) == pc[a] \in {"treating", "submitting", "telling", "persisting"}

\* one transaction: the operation is loaded with its files and jobs, and assigned
getNonFinishedOperations(a) ==
    /\ Monitored(a)
    /\ Pickable
    /\ op' = [op EXCEPT !.held = TRUE]
    /\ copy' = [copy EXCEPT ![a] =
                    [status |-> op.status, file |-> file, row |-> row, held |-> held, left |-> {}]]
    /\ Goes(a, "treating")
    /\ UNCHANGED <<file, row, held, outside, rms, thread, upsets>>

NoneToTreat(a) ==
    /\ Monitored(a)
    /\ ~Pickable
    /\ Goes(a, "kicking")
    /\ UNCHANGED <<db, outside, rms, thread, copy, upsets>>

Final(files) == \A f \in File : files[f].status \in FinalFile

isTotallyProcessed(a) == copy[a].status = "Processed" \/ Final(copy[a].file)

\* mutant of callback: the request is not asked for its status
CallbackUnasked(a) ==
    /\ pc[a] = "treating"
    /\ isTotallyProcessed(a)
    /\ copy' = [copy EXCEPT ![a].status = "Processed"]
    /\ Goes(a, "telling")
    /\ UNCHANGED <<db, outside, rms, thread, upsets>>

\* _callback up to its look at the status of the request; when the request is
\* neither Scheduled nor final, the operation is put back as it is
callback(a) ==
    /\ pc[a] = "treating"
    /\ isTotallyProcessed(a)
    /\ copy' = [copy EXCEPT ![a].status = IF request \in FinalRequest THEN "Finished" ELSE "Processed"]
    /\ Goes(a, IF request = "Scheduled" THEN "telling" ELSE "persisting")
    /\ UNCHANGED <<db, outside, rms, thread, upsets>>

\* mutant of Verdict: what is not Defunct is Done
VerdictOnDefunct(a) == [f \in File |-> IF copy[a].file[f].status = "Defunct" THEN "Failed" ELSE "Done"]

\* a file of a processed operation that is not final can only have been Canceled,
\* by cancelNonExistingJob, after it was given up: that is a failure as well
Verdict(a) == [f \in File |-> IF copy[a].file[f].status = "Finished" THEN "Done" ELSE "Failed"]

\* getRequest assigns the request whatever its status; putRequest brings it back
\* with the status of its files and the registrations to do
_updateRmsOperationStatus(a) ==
    /\ pc[a] = "telling"
    /\ IF request = "Gone"
       THEN UNCHANGED <<rms, copy>>
       ELSE /\ told' = Verdict(a)
            /\ reports' = reports + 1
            /\ request' = "Told"
            /\ copy' = [copy EXCEPT ![a].status = "Finished"]
    /\ Goes(a, "persisting")
    /\ UNCHANGED <<db, outside, thread, upsets>>

\* putRequest fails and leaves the request Assigned, for the cleaning agent
PutFails(a) ==
    /\ Upset("put")
    /\ pc[a] = "telling"
    /\ request # "Gone"
    /\ request' = "Assigned"
    /\ Goes(a, "persisting")
    /\ UNCHANGED <<db, outside, told, reports, thread, copy>>

\* mutant of Exhausted: one attempt too many
ExhaustedLate(f) == f.attempt > MaxAttempts

Exhausted(f) == f.attempt >= MaxAttempts

\* whatever the status of a file, at MaxAttempts it is given up
_getFilesToSubmit(c) ==
    [c EXCEPT !.file = [f \in File |-> IF Exhausted(c.file[f])
                                       THEN [c.file[f] EXCEPT !.status = "Defunct"] ELSE c.file[f]],
              !.left = {f \in File : ~Exhausted(c.file[f]) /\ c.file[f].status \in {"New", "Failed"}}]

CheckRequest(a) ==
    /\ pc[a] = "treating"
    /\ ~isTotallyProcessed(a)
    /\ IF request \in {"Canceled", "Gone"}
       THEN /\ copy' = [copy EXCEPT ![a].status = "Canceled"]
            /\ Goes(a, "persisting")
       ELSE /\ copy' = [copy EXCEPT ![a] = _getFilesToSubmit(@)]
            /\ Goes(a, "submitting")
    /\ UNCHANGED <<db, outside, rms, thread, upsets>>

\* the jobs are numbered in the order in which the server takes them
IsNext(j) == server[j] = NoTransfer /\ \A i \in 1 .. j - 1 : server[i] # NoTransfer

Start(j, files) ==
    /\ IsNext(j)
    /\ server' = [server EXCEPT ![j] = [f \in File |-> IF f \in files THEN "live" ELSE "none"]]
    /\ UNCHANGED <<db, forgotten, rms, pc, thread>>

\* what submit makes of the files it was given: those in started are transferred,
\* those in same are where they should go already, and for the others no URL was
\* found; the attempt counts for all
WithJob(c, j, files, started, same) ==
    [status |-> c.status,
     row |-> [c.row EXCEPT ![j] = "Active"],
     held |-> [c.held EXCEPT ![j] = FALSE],
     left |-> c.left \ files,
     file |-> [f \in File |->
                IF f \in files
                THEN [status |-> IF f \in started THEN "Submitted"
                                 ELSE IF f \in same THEN "Defunct" ELSE c.file[f].status,
                      attempt |-> c.file[f].attempt + 1,
                      guid |-> j]
                ELSE c.file[f]]]

\* files with the same target and source go together
submit(a, j, files, started, same) ==
    /\ pc[a] = "submitting"
    /\ started # {}
    /\ Start(j, started)
    /\ copy' = [copy EXCEPT ![a] = WithJob(@, j, files, started, same)]
    /\ UNCHANGED upsets

\* the server has taken the job, and its answer is lost
SubmitUnanswered(a, j, files) ==
    /\ Upset("unanswered")
    /\ pc[a] = "submitting"
    /\ files # {}
    /\ Start(j, files)
    /\ copy' = [copy EXCEPT ![a].left = @ \ files]

\* the target is banned, or there is no server, context or source; the target is
\* in error; the file is not in the catalogue
LeftOut(was) == {was, [was EXCEPT !.attempt = @ + 1], [was EXCEPT !.status = "Defunct"]}

Without(c, f, is) == [c EXCEPT !.left = @ \ {f}, !.file[f] = is]

\* no submission this time
LeaveOut(a, f) ==
    /\ pc[a] = "submitting"
    /\ f \in copy[a].left
    /\ \E is \in LeftOut(copy[a].file[f]) : copy' = [copy EXCEPT ![a] = Without(@, f, is)]
    /\ UNCHANGED <<db, outside, rms, pc, thread, upsets>>

\* session.merge: every row of the operation becomes what it is in the copy
persistOperation(a) ==
    LET c == copy[a] IN
    /\ \/ pc[a] = "persisting"
       \/ pc[a] = "submitting" /\ c.left = {}
    /\ file' = c.file
    /\ op' = [status |-> c.status, held |-> FALSE]
    /\ row' = c.row
    /\ held' = c.held
    /\ copy' = [copy EXCEPT ![a] = NoCopy]
    /\ Goes(a, "kicking")
    /\ UNCHANGED <<outside, rms, thread, upsets>>

\* an exception, an early return, or a failing persistOperation: the operation
\* stays assigned
TreatFails(a) ==
    /\ Upset("treat")
    /\ Treats(a)
    /\ copy' = [copy EXCEPT ![a] = NoCopy]
    /\ Goes(a, "kicking")
    /\ UNCHANGED <<db, outside, rms, thread>>

-----------------------------------------------------------------------------
(***************************************************************************)
(* The end of the cycle.                                                   *)
(***************************************************************************)
\* mutant of StuckJobs: a job that has ended needs no kick
StuckActiveJobs == {j \in Job : held[j] /\ row[j] = "Active" /\ \A a \in Agent : At(a, j, "none")}

\* an hour is more than any thread takes: only what nobody works on is that old
StuckJobs == {j \in Job : held[j] /\ \A a \in Agent : At(a, j, "none")}
OperationStuck == op.held /\ \A a \in Agent : ~Treats(a)

Kick(a, jobs, operation) ==
    /\ pc[a] = "kicking"
    /\ held' = [j \in Job |-> held[j] /\ j \notin jobs]
    /\ op' = [op EXCEPT !.held = @ /\ ~operation]
    /\ Goes(a, "idle")
    /\ UNCHANGED <<file, row, outside, rms, thread, copy, upsets>>

\* some of what is stuck has been so for KickAssignedHours
kickStuck(a) ==
    \E jobs \in SUBSET StuckJobs, operation \in {FALSE, OperationStuck} : Kick(a, jobs, operation)

\* all of it has, and no operation is being treated
kickAll(a) ==
    /\ \A b \in Agent : ~Treats(b)
    /\ Kick(a, StuckJobs, OperationStuck)

\* the agent dies and is started again
Crash(a) ==
    /\ Upset("crash")
    /\ pc[a] # "idle"
    /\ Goes(a, "idle")
    /\ thread' = [thread EXCEPT ![a] = [j \in Job |-> NoThread]]
    /\ copy' = [copy EXCEPT ![a] = NoCopy]
    /\ UNCHANGED <<db, outside, rms>>

-----------------------------------------------------------------------------
(***************************************************************************)
(* The FTS server and the request management.                              *)
(***************************************************************************)
Transfer(j, f) ==
    /\ server[j][f] = "live"
    /\ \E end \in {"Finished", "Failed"} : server' = [server EXCEPT ![j][f] = end]
    /\ UNCHANGED <<db, forgotten, rms, agents, upsets>>

\* the server loses the job, and with it the transfers that have not ended
Forget(j) ==
    /\ Upset("forget")
    /\ server[j] # NoTransfer
    /\ ~forgotten[j]
    /\ forgotten' = [forgotten EXCEPT ![j] = TRUE]
    /\ server' = [server EXCEPT ![j] = [f \in File |-> IF @[f] = "live" THEN "Failed" ELSE @[f]]]
    /\ UNCHANGED <<db, rms, agents>>

RequestBecomes(before, after) ==
    /\ request \in before
    /\ request' = after
    /\ UNCHANGED <<db, outside, agents>>

\* whoever executes the request finds its operation in FTS3 and waits for it
PutRequest ==
    /\ RequestBecomes({"Assigned"}, "Scheduled")
    /\ reports' = 0
    /\ UNCHANGED <<told, upsets>>

Unheard == UNCHANGED <<told, reports>>
Cancel == RequestBecomes({"Assigned", "Scheduled", "Reset"}, "Canceled") /\ Unheard /\ UNCHANGED upsets
\* the files are registered, and the request ends
Close == RequestBecomes({"Told"}, "Closed") /\ Unheard /\ UNCHANGED upsets
Delete == RequestBecomes({"Scheduled", "Canceled", "Closed"}, "Gone") /\ Unheard /\ Upset("delete")

\* resetFailedRequest: the failed files of the ended request wait again
ResetFailed ==
    /\ \E f \in File : told[f] = "Failed"
    /\ RequestBecomes({"Closed"}, "Reset")
    /\ told' = [f \in File |-> IF told[f] = "Failed" THEN "none" ELSE told[f]]
    /\ UNCHANGED <<reports, upsets>>

\* an agent executes the request again and finds that its operation has not
\* ended in FTS3: all the files of it are set Scheduled, the ones that are Done
\* included.  Otherwise the files go into another operation of FTS3.
_checkExistingFTS3Operations ==
    /\ op.status \notin FinalOperation
    /\ RequestBecomes({"Reset"}, "Assigned")
    /\ told' = [f \in File |-> "none"]
    /\ UNCHANGED <<reports, upsets>>

-----------------------------------------------------------------------------
MonitorStep(a, j) ==
    \/ monitor(a, j)
    \/ cancelNonExistingJob(a, j)
    \/ \E f \in File : updateFileStatus(a, j, f)
    \/ updateJobStatus(a, j)

Leave(a) == \E f \in File : LeaveOut(a, f)
Submission(a) ==
    \E j \in Job, files \in SUBSET copy[a].left :
        \E started \in SUBSET files : \E same \in SUBSET (files \ started) : submit(a, j, files, started, same)

TreatStep(a) ==
    \/ callback(a)
    \/ _updateRmsOperationStatus(a)
    \/ CheckRequest(a)
    \/ persistOperation(a)

AgentUpset(a) ==
    \/ \E j \in Job : MonitorFails(a, j) \/ UpdateFails(a, j)
    \/ PutFails(a)
    \/ \E j \in Job, files \in SUBSET copy[a].left : SubmitUnanswered(a, j, files)
    \/ TreatFails(a)
    \/ Crash(a)

AgentNext(a) ==
    \/ getActiveJobs(a)
    \/ \E j \in Job : MonitorStep(a, j)
    \/ getNonFinishedOperations(a)
    \/ NoneToTreat(a)
    \/ TreatStep(a)
    \/ Submission(a)
    \/ Leave(a)
    \/ kickStuck(a)
    \/ AgentUpset(a)

Elsewhere ==
    \/ \E j \in Job : Forget(j) \/ \E f \in File : Transfer(j, f)
    \/ PutRequest \/ Cancel \/ Close \/ Delete
    \/ ResetFailed \/ _checkExistingFTS3Operations

Next == (\E a \in Agent : AgentNext(a)) \/ Elsewhere

Spec == Init /\ [][Next]_vars

\* what an agent does by itself
Works(a) ==
    \/ getActiveJobs(a)
    \/ \E j \in Job : MonitorStep(a, j)
    \/ getNonFinishedOperations(a)
    \/ NoneToTreat(a)
    \/ TreatStep(a)
    \/ Submission(a)
    \/ Leave(a)
    \/ kickStuck(a)

\* what ends by itself outside
GoesOn == PutRequest \/ Close \/ _checkExistingFTS3Operations \/ \E j \in Job, f \in File : Transfer(j, f)

\* An agent goes on with what it does and starts its next cycle; a transfer
\* ends; the request is put back and ends.  Strong fairness where the chance
\* comes and goes: what is stuck is old at the end of some cycle, a target is
\* banned again, and two agents do not keep in step for ever.
Fairness ==
    /\ \A a \in Agent : WF_vars(Works(a))
    /\ WF_vars(GoesOn)
    /\ SF_vars(\E a \in Agent : kickAll(a))
    /\ SF_vars(\E a \in Agent : Submission(a))
    /\ SF_vars(\E a \in Agent : getNonFinishedOperations(a))

FairSpec == Spec /\ Fairness

-----------------------------------------------------------------------------
(***************************************************************************)
(* Properties.                                                             *)
(***************************************************************************)

FileRows == [File -> [status : FileStatus, attempt : 0 .. MaxAttempts, guid : {0} \cup Job]]
JobRows == [Job -> {"none", "Active", "Final"}]
OperationStatus == {"Active", "Processed"} \cup FinalOperation
Answers == UNION {[files -> {"live", "Finished", "Failed"}] : files \in SUBSET File}
Threads == [pc : {"none", "query", "update", "cancel"}, seen : Answers, over : BOOLEAN]
Copies == [status : OperationStatus, file : FileRows, row : JobRows,
           held : [Job -> BOOLEAN], left : SUBSET File]

\* The types, and where an agent must be to have threads or a copy.
TypeOK ==
    /\ file \in FileRows
    /\ op \in [status : OperationStatus, held : BOOLEAN]
    /\ row \in JobRows
    /\ held \in [Job -> BOOLEAN]
    /\ server \in [Job -> [File -> {"none", "live", "Finished", "Failed"}]]
    /\ forgotten \in [Job -> BOOLEAN]
    /\ request \in {"Assigned", "Scheduled", "Told", "Closed", "Reset", "Canceled", "Gone"}
    /\ told \in [File -> {"none", "Done", "Failed"}]
    /\ reports \in Nat
    /\ pc \in [Agent -> {"idle", "monitoring", "treating", "submitting", "telling", "persisting", "kicking"}]
    /\ thread \in [Agent -> [Job -> Threads]]
    /\ \A a \in Agent, j \in Job : thread[a][j].pc # "none" => pc[a] = "monitoring"
    /\ copy \in [Agent -> {NoCopy} \cup Copies]
    /\ \A a \in Agent : IF Treats(a) THEN copy[a] \in Copies ELSE copy[a] = NoCopy
    /\ upsets \in 0 .. MaxUpsets

\* The transfers of a file that run in jobs the database knows.
Running(f) == {j \in Job : row[j] # "none" /\ server[j][f] = "live"}

\* A file is never transferred by two jobs at a time, unless the database has
\* lost a submission: _monitorJob gives the ftsGUID of its job, so that a late
\* answer does not free a file that a newer job has taken.
OneTransfer == \A f \in File : Cardinality(Running(f)) <= 1

\* A file that is Done in the request has been transferred, and no job of the
\* operation writes it any more: isTotallyProcessed comes before the callback.
DoneIsTransferred ==
    \A f \in File : told[f] = "Done" =>
        /\ Running(f) = {}
        /\ \E j \in Job : server[j][f] = "Finished"

\* Each time the request waits for its transfers it hears of its files once: the
\* callback of an agent whose persistOperation was lost, or of another agent that
\* was given the operation, leaves it alone until it is Scheduled again, which
\* only an execution of the request does (a first one, one after PutFails, one
\* after resetFailedRequest).
ToldOnce == reports <= 1

\* Every file that is in a transfer belongs to a job that agents still monitor.
Followed == \A f \in File : file[f].status = "Submitted" => row[file[f].guid] = "Active"

\* The operation is treated while one of its jobs is monitored.
Overtaken ==
    /\ \E a \in Agent : Treats(a)
    /\ \E a \in Agent, j \in Job : ~At(a, j, "none")

\* A job the server has forgotten after it freed all its files never ends.
Orphaned == \E j \in Job : row[j] = "Active" /\ forgotten[j] /\ \A f \in File : file[f].guid # j

\* A processed operation whose request is deleted has nobody to report to.
Unclaimed == op.status = "Processed" /\ request = "Gone"

\* The operation ends, whatever else is lost, as long as it is not treated
\* while it is monitored: stuck jobs and operations are kicked, failed files are
\* submitted again.  The agents sleep between their cycles.
EveryOperationEnds ==
    []<>(\A a \in Agent : pc[a] = "idle") =>
        <>(op.status \in FinalOperation \/ Overtaken \/ Orphaned \/ Unclaimed)
=============================================================================
