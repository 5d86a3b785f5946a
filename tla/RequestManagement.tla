------------------------- MODULE RequestManagement --------------------------
(***************************************************************************)
(* The request management system: the RequestDB, the agents that take      *)
(* requests from it, execute them and put them back, the cleaning agent,   *)
(* the FTS3 callback and the users.  Only the database is shared; each of  *)
(* the others works on copies and talks to it by calls that another one    *)
(* may come between.                                                       *)
(*                                                                         *)
(* A request is its operations (RequestStatus).  A put in flight is a      *)
(* record of its own: RequestDB.putRequest looks at the status and merges  *)
(* the copy in two transactions.                                           *)
(***************************************************************************)
EXTENDS RequestStatus

CONSTANTS
    Req,            \* request ids
    Agent,          \* the RequestExecutingAgents
    NoReq, NoAgent,
    Plan,           \* Plan[r]: the numbers of files of the operations of r
    HasJob,         \* the requests of a job, which RequestTask finalises
    Bulk,           \* TRUE: getBulkRequests, FALSE: getRequest
    Patient,        \* TRUE: the grace periods outlast whatever is under way,
                    \* and users do not reset what is older
    Outcomes,       \* what handlers may make of the files of an operation
    Users,          \* what users do: "cancel", "reset", "force"
    Faults          \* what may go wrong: see FaultKinds

FaultKinds ==
    {"exception", "timeout", "crash", "stop", "putFails", "lost", "finalize", "noProxy"}
FinalStates == {"Done", "Failed", "Canceled"}

ASSUME RequestAssumption ==
    /\ NoReq \notin Req
    /\ NoAgent \notin Agent
    /\ Plan \in [Req -> Seq(Nat) \ {<<>>}]
    /\ HasJob \subseteq Req
    /\ {Bulk, Patient} \subseteq BOOLEAN
    /\ Outcomes \subseteq FileStatuses
    /\ Users \subseteq {"cancel", "reset", "force"}
    /\ Faults \subseteq FaultKinds

VARIABLES
    db,             \* the RequestDB
    submitted,      \* the requests users have put
    hand,           \* the request an agent has fetched and not yet cached
    cache,          \* __requestCache of each agent
    task,           \* the RequestTask of each agent and request
    puts,           \* the calls of putRequest under way
    fts,            \* the operation whose FTS3 callback has seen its request Scheduled
    clean           \* the cycle of the CleanReqDBAgent

agentvars == <<hand, cache, task>>
vars == <<db, submitted, hand, cache, task, puts, fts, clean>>

NoCopy == <<>>
NoRow == [status |-> "none", ops |-> NoCopy, old |-> FALSE]
NoTask == [pc |-> "none", ops |-> NoCopy, result |-> "none"]
EmptyHand == [pc |-> "empty", req |-> NoReq, ops |-> NoCopy]

Row(status, ops) == [status |-> status, ops |-> ops, old |-> FALSE]
Put(by, a, r, ops) == [by |-> by, agent |-> a, req |-> r, ops |-> ops, stage |-> "check"]

Exists(r) == db[r].status # "none"
SetStatus(r, status) == db' = [db EXCEPT ![r].status = status, ![r].old = FALSE]

Init ==
    /\ db = [r \in Req |-> NoRow]
    /\ submitted = {}
    /\ hand = [a \in Agent |-> EmptyHand]
    /\ cache = [a \in Agent |-> [r \in Req |-> NoCopy]]
    /\ task = [a \in Agent |-> [r \in Req |-> NoTask]]
    /\ puts = {}
    /\ fts = [r \in Req |-> 0]
    /\ clean = [pc |-> "idle", list |-> {}]

-----------------------------------------------------------------------------
(***************************************************************************)
(* putRequest.  Reading the status and merging the copy are two steps; the *)
(* caller waits for the answer, but a caller that dies does not stop them. *)
(***************************************************************************)
\* mutant of Fresh: the files are queued like their operations
FreshQueued(r) ==
    LET new(n) == Op("Queued", [f \in 1 .. n |-> "Queued"])
    IN  [i \in DOMAIN Plan[r] |-> new(Plan[r][i])]

Fresh(r) ==
    LET new(n) == Op("Queued", [f \in 1 .. n |-> "Waiting"])
    IN  Reload([i \in DOMAIN Plan[r] |-> new(Plan[r][i])])

\* the first put of a request, which no id identifies yet, only inserts it
Submit(r) ==
    /\ r \notin submitted
    /\ submitted' = submitted \cup {r}
    /\ db' = [db EXCEPT ![r] = Row(StatusOf(Fresh(r)), Fresh(r))]
    /\ UNCHANGED <<agentvars, puts, fts, clean>>

\* the answer a RequestTask that is still there waits for
Answer(p, ok) ==
    task' = IF p.by = "task" /\ task[p.agent][p.req].pc = "put"
            THEN [task EXCEPT ![p.agent][p.req] =
                    IF ok THEN [@ EXCEPT !.pc = "finalize"]
                          ELSE [@ EXCEPT !.pc = "ended", !.result = "error"]]
            ELSE task

\* mutant of PutCheck: the status is not looked at
PutCheckBlind(p) ==
    /\ p.stage = "check"
    /\ puts' = (puts \ {p}) \cup {[p EXCEPT !.stage = "merge"]}
    /\ UNCHANGED <<db, submitted, agentvars, fts, clean>>

PutCheck(p) ==
    /\ p.stage = "check"
    /\ IF db[p.req].status = "Canceled"
       THEN puts' = puts \ {p} /\ Answer(p, TRUE)
       ELSE puts' = (puts \ {p}) \cup {[p EXCEPT !.stage = "merge"]} /\ UNCHANGED task
    /\ UNCHANGED <<db, submitted, hand, cache, fts, clean>>

\* the service has read the copy from JSON; its status is inferred again
Merge(p) ==
    LET ops == Reload(p.ops) IN
    /\ p.stage = "merge"
    /\ puts' = puts \ {p}
    /\ db' = [db EXCEPT ![p.req] = Row(StatusOf(ops), ops)]
    /\ UNCHANGED <<submitted, hand, cache, fts, clean>>

PutMerge(p) == Merge(p) /\ Answer(p, TRUE)

\* the answer is an error, or is lost: the merge may have happened all the same.
\* (The client sends the copy again up to three times; that is left out.)
PutFails(p) ==
    /\ "putFails" \in Faults
    /\ \/ /\ puts' = puts \ {p}
          /\ UNCHANGED <<db, submitted, hand, cache, fts, clean>>
       \/ Merge(p)
    /\ Answer(p, FALSE)

-----------------------------------------------------------------------------
(***************************************************************************)
(* RequestExecutingAgent.execute.                                          *)
(***************************************************************************)
\* mutant of BulkFetch: the rows are not updated
BulkFetchUnassigned(a, r) ==
    /\ Bulk
    /\ hand[a] = EmptyHand
    /\ db[r].status = "Waiting"
    /\ hand' = [hand EXCEPT ![a] = [pc |-> "assigned", req |-> r, ops |-> db[r].ops]]
    /\ UNCHANGED <<db, submitted, cache, task, puts, fts, clean>>

\* getBulkRequests locks the rows it selects until they are assigned
BulkFetch(a, r) ==
    /\ Bulk
    /\ hand[a] = EmptyHand
    /\ db[r].status = "Waiting"
    /\ SetStatus(r, "Assigned")
    /\ hand' = [hand EXCEPT ![a] = [pc |-> "assigned", req |-> r, ops |-> db[r].ops]]
    /\ UNCHANGED <<submitted, cache, task, puts, fts, clean>>

\* getRequest selects and reads first, and assigns whatever the row has become
SelectRequest(a, r) ==
    /\ ~Bulk
    /\ hand[a] = EmptyHand
    /\ db[r].status = "Waiting"
    /\ hand' = [hand EXCEPT ![a] = [pc |-> "read", req |-> r, ops |-> db[r].ops]]
    /\ UNCHANGED <<db, submitted, cache, task, puts, fts, clean>>

AssignRequest(a) ==
    LET r == hand[a].req IN
    /\ hand[a].pc = "read"
    /\ IF Exists(r) THEN SetStatus(r, "Assigned") ELSE UNCHANGED db
    /\ hand' = [hand EXCEPT ![a].pc = "assigned"]
    /\ UNCHANGED <<submitted, cache, task, puts, fts, clean>>

\* the answer of the service is lost with the request in it
LoseRequest(a) ==
    /\ "lost" \in Faults
    /\ hand[a].pc = "assigned"
    /\ hand' = [hand EXCEPT ![a] = EmptyHand]
    /\ UNCHANGED <<db, submitted, cache, task, puts, fts, clean>>

\* cacheRequest and createAndQueueTask: one that is in the cache is left there
StartTask(a) ==
    LET r == hand[a].req  ops == Reload(hand[a].ops) IN
    /\ hand[a].pc = "assigned"
    /\ hand' = [hand EXCEPT ![a] = EmptyHand]
    /\ IF cache[a][r] = NoCopy
       THEN /\ cache' = [cache EXCEPT ![a][r] = ops]
            /\ task' = [task EXCEPT ![a][r] = [pc |-> "running", ops |-> ops, result |-> "none"]]
       ELSE UNCHANGED <<cache, task>>
    /\ UNCHANGED <<db, submitted, puts, fts, clean>>

-----------------------------------------------------------------------------
(***************************************************************************)
(* RequestTask.__call__, in a process of its own.                          *)
(***************************************************************************)
\* what a handler makes of the unfinished files of operation i
Handle(ops, i, outcome) ==
    LET touch(s, f) == IF s[i].files[f] \in Unfinished THEN SetFile(s, i, f, outcome) ELSE s IN
    IF ops[i].files # <<>>
    THEN FoldLeft(touch, ops, [f \in DOMAIN ops[i].files |-> f])
    ELSE IF outcome \in {"Done", "Failed"} THEN SetOp(ops, i, outcome) ELSE ops

\* one turn of the loop: the operation that waits is handled; if it still waits,
\* or was scheduled, the loop is left
Execute(a, r) ==
    LET t == task[a][r]  i == NextOp(t.ops) IN
    /\ t.pc = "running"
    /\ StatusOf(t.ops) = "Waiting"
    /\ \E outcome \in Outcomes :
         LET after == Handle(Notify(t.ops), i, outcome) IN
         task' = [task EXCEPT ![a][r] =
            IF after[i].status \in Unfinished
            THEN [pc |-> "ended", ops |-> after, result |-> "ok"]
            ELSE [pc |-> "running", ops |-> after, result |-> "none"]]
    /\ UNCHANGED <<db, submitted, hand, cache, puts, fts, clean>>

\* the owner has no proxy (any more): nothing is executed and everything fails
NoProxy(a, r) ==
    LET t == task[a][r] IN
    /\ "noProxy" \in Faults
    /\ t.pc = "running"
    /\ t.ops = cache[a][r]
    /\ task' = [task EXCEPT ![a][r] = [pc |-> "ended", ops |-> FailAll(t.ops), result |-> "ok"]]
    /\ UNCHANGED <<db, submitted, hand, cache, puts, fts, clean>>

\* the handler raises: what the task did is not reported
Raise(a, r) ==
    /\ "exception" \in Faults
    /\ task[a][r].pc = "running"
    /\ StatusOf(task[a][r].ops) = "Waiting"
    /\ task' = [task EXCEPT ![a][r].pc = "ended", ![a][r].result = "error"]
    /\ UNCHANGED <<db, submitted, hand, cache, puts, fts, clean>>

\* nothing waits any more: the task itself puts back a request that is done
Leave(a, r) ==
    LET t == task[a][r]  status == StatusOf(t.ops) IN
    /\ t.pc = "running"
    /\ status # "Waiting"
    /\ IF status = "Done"
       THEN /\ task' = [task EXCEPT ![a][r].pc = "put"]
            /\ puts' = puts \cup {Put("task", a, r, t.ops)}
       ELSE /\ task' = [task EXCEPT ![a][r].pc = "ended", ![a][r].result = "ok"]
            /\ UNCHANGED puts
    /\ UNCHANGED <<db, submitted, hand, cache, fts, clean>>

\* finalizeRequest, tried ten times, if there is a job: it wants to read "Done"
Finalize(a, r) ==
    /\ task[a][r].pc = "finalize"
    /\ \/ /\ r \notin HasJob \/ db[r].status = "Done"
          /\ task' = [task EXCEPT ![a][r].pc = "ended", ![a][r].result = "ok"]
       \/ /\ r \in HasJob
          /\ db[r].status # "Done" \/ "finalize" \in Faults
          /\ task' = [task EXCEPT ![a][r].pc = "ended", ![a][r].result = "error"]
    /\ UNCHANGED <<db, submitted, hand, cache, puts, fts, clean>>

\* WorkingProcess gives up the task and kills itself; a put under way goes on
Timeout(a, r) ==
    /\ "timeout" \in Faults
    /\ task[a][r].pc \in {"running", "put", "finalize"}
    /\ task' = [task EXCEPT ![a][r].pc = "ended", ![a][r].result = "timeout"]
    /\ UNCHANGED <<db, submitted, hand, cache, puts, fts, clean>>

-----------------------------------------------------------------------------
(***************************************************************************)
(* resultCallback, exceptionCallback and finalize of the agent.            *)
(***************************************************************************)
\* mutant of Callback: a task that timed out is only taken from the cache
CallbackForgets(a, r) ==
    LET t == task[a][r]  ok == t.result = "ok" IN
    /\ t.pc = "ended"
    /\ task' = [task EXCEPT ![a][r] = NoTask]
    /\ cache' = [cache EXCEPT ![a][r] = NoCopy]
    /\ puts' = IF cache[a][r] = NoCopy \/ ~ok \/ StatusOf(t.ops) = "Done"
               THEN puts
               ELSE puts \cup {Put("callback", a, r, t.ops)}
    /\ UNCHANGED <<db, submitted, hand, fts, clean>>

\* mutant of Callback: the copy in the cache is put back whatever the result
CallbackOriginal(a, r) ==
    LET t == task[a][r]  ok == t.result = "ok" IN
    /\ t.pc = "ended"
    /\ task' = [task EXCEPT ![a][r] = NoTask]
    /\ cache' = [cache EXCEPT ![a][r] = NoCopy]
    /\ puts' = puts \cup {Put("callback", a, r, cache[a][r])}
    /\ UNCHANGED <<db, submitted, hand, fts, clean>>

\* the copy to put back is the task's if it returned one, else the agent's own
Callback(a, r) ==
    LET t == task[a][r]  ok == t.result = "ok" IN
    /\ t.pc = "ended"
    /\ task' = [task EXCEPT ![a][r] = NoTask]
    /\ cache' = [cache EXCEPT ![a][r] = NoCopy]
    /\ puts' = IF cache[a][r] = NoCopy \/ (ok /\ StatusOf(t.ops) = "Done")
               THEN puts
               ELSE puts \cup {Put("callback", a, r, IF ok THEN t.ops ELSE cache[a][r])}
    /\ UNCHANGED <<db, submitted, hand, fts, clean>>

NothingLeft(a) ==
    /\ hand' = [hand EXCEPT ![a] = EmptyHand]
    /\ cache' = [cache EXCEPT ![a] = [r \in Req |-> NoCopy]]
    /\ task' = [task EXCEPT ![a] = [r \in Req |-> NoTask]]

\* the agent and its processes die; it starts again with nothing
Crash(a) ==
    /\ "crash" \in Faults
    /\ NothingLeft(a)
    /\ UNCHANGED <<db, submitted, puts, fts, clean>>

\* finalize: the pool is killed; putAllRequests iterates over the dictionary it
\* pops from, so that the first request is put back and the others are not
Stop(a) ==
    /\ "stop" \in Faults
    /\ hand[a] = EmptyHand
    /\ \E r \in Req :
         /\ cache[a][r] # NoCopy
         /\ puts' = puts \cup {Put("stop", a, r, cache[a][r])}
    /\ NothingLeft(a)
    /\ UNCHANGED <<db, submitted, fts, clean>>

-----------------------------------------------------------------------------
(***************************************************************************)
(* The FTS3 callback (FTS3StagingOperation; that of a transfer also adds   *)
(* an operation, see RequestObject) and the users.                         *)
(***************************************************************************)
FtsCheck(r) ==
    /\ db[r].status = "Scheduled"
    /\ fts' = [fts EXCEPT ![r] = NextOp(db[r].ops)]
    /\ UNCHANGED <<db, submitted, agentvars, puts, clean>>

\* getRequest by id assigns the row whatever its status: the comparison of a row
\* with "Assigned" is never true.  Files of another operation make it raise.
FtsGet(r) ==
    LET ops == Reload(db[r].ops) IN
    /\ fts[r] # 0
    /\ fts' = [fts EXCEPT ![r] = 0]
    /\ IF Exists(r)
       THEN /\ SetStatus(r, "Assigned")
            /\ IF NextOp(ops) = fts[r]
               THEN \E outcome \in {"Done", "Failed"} :
                      puts' = puts \cup {Put("fts", NoAgent, r, Handle(ops, fts[r], outcome))}
               ELSE UNCHANGED puts
       ELSE UNCHANGED <<db, puts>>
    /\ UNCHANGED <<submitted, agentvars, clean>>

Cancel(r) ==
    /\ "cancel" \in Users
    /\ Exists(r)
    /\ SetStatus(r, "Canceled")
    /\ UNCHANGED <<submitted, agentvars, puts, fts, clean>>

(***************************************************************************)
(* resetFailedRequest: the copy is read without being assigned.  The       *)
(* command only calls it for a Failed request ("reset": one operator, who  *)
(* waits for the answer) unless it is forced ("force": any number of them, *)
(* at any time); then only NotBefore changes.                              *)
(***************************************************************************)
Resetting(r) == \E p \in puts : p.by = "user" /\ p.req = r

ResetFailed(r) ==
    LET ops == Reload(db[r].ops)  failed == StatusOf(ops) = "Failed" IN
    /\ Exists(r)
    /\ "force" \in Users \/ ("reset" \in Users /\ failed /\ ~Resetting(r))
    /\ Patient => ~db[r].old
    /\ puts' = puts \cup {Put("user", NoAgent, r, IF failed THEN Reset(ops) ELSE ops)}
    /\ UNCHANGED <<db, submitted, agentvars, fts, clean>>

-----------------------------------------------------------------------------
(***************************************************************************)
(* CleanReqDBAgent.  A row is old when its LastUpdate is further back than *)
(* the grace period for its status; the limits are computed once a cycle.  *)
(***************************************************************************)
Busy(a, r) == task[a][r].pc \notin {"none", "ended"}
InFlight(r) ==
    \/ \E p \in puts : p.req = r
    \/ fts[r] # 0
    \/ \E a \in Agent : task[a][r].pc # "none" \/ hand[a].req = r

Age(r) ==
    /\ clean.pc = "idle"
    /\ Exists(r)
    /\ ~db[r].old
    /\ Patient => ~InFlight(r)
    /\ db' = [db EXCEPT ![r].old = TRUE]
    /\ UNCHANGED <<submitted, agentvars, puts, fts, clean>>

StartCycle ==
    /\ clean.pc = "idle"
    /\ clean' = [pc |-> "kick", list |-> {r \in Req : db[r].status = "Assigned" /\ db[r].old}]
    /\ UNCHANGED <<db, submitted, agentvars, puts, fts>>

Kicking == \E p \in puts : p.by = "kick"

\* mutant of Kick: the cycle goes on without putting the request back
KickNothing(r) ==
    /\ clean.pc = "kick"
    /\ r \in clean.list
    /\ clean' = [clean EXCEPT !.list = @ \ {r}]
    /\ UNCHANGED <<db, submitted, agentvars, puts, fts>>

\* the row is read again: it must still be assigned and old
Kick(r) ==
    /\ clean.pc = "kick"
    /\ r \in clean.list
    /\ ~Kicking
    /\ clean' = [clean EXCEPT !.list = @ \ {r}]
    /\ puts' = IF db[r].status = "Assigned" /\ db[r].old
               THEN puts \cup {Put("kick", NoAgent, r, db[r].ops)}
               ELSE puts
    /\ UNCHANGED <<db, submitted, agentvars, fts>>

\* mutant of ListFinal: every old row is listed
ListOld ==
    /\ clean.pc = "kick"
    /\ clean.list = {}
    /\ ~Kicking
    /\ clean' = [pc |-> "delete", list |-> {r \in Req : Exists(r) /\ db[r].old}]
    /\ UNCHANGED <<db, submitted, agentvars, puts, fts>>

ListFinal ==
    /\ clean.pc = "kick"
    /\ clean.list = {}
    /\ ~Kicking
    /\ clean' = [pc |-> "delete",
                 list |-> {r \in Req : db[r].status \in FinalStates /\ db[r].old}]
    /\ UNCHANGED <<db, submitted, agentvars, puts, fts>>

\* what is listed is deleted without another look
Delete(r) ==
    /\ clean.pc = "delete"
    /\ r \in clean.list
    /\ clean' = [clean EXCEPT !.list = @ \ {r}]
    /\ db' = [db EXCEPT ![r] = NoRow]
    /\ UNCHANGED <<submitted, agentvars, puts, fts>>

EndCycle ==
    /\ clean.pc = "delete"
    /\ clean.list = {}
    /\ clean' = [clean EXCEPT !.pc = "idle"]
    /\ UNCHANGED <<db, submitted, agentvars, puts, fts>>

-----------------------------------------------------------------------------
FetchStep(a, r) == BulkFetch(a, r) \/ SelectRequest(a, r)
AgentStep(a) == AssignRequest(a) \/ LoseRequest(a) \/ StartTask(a)
TaskStep(a, r) ==
    \/ Execute(a, r) \/ NoProxy(a, r) \/ Raise(a, r)
    \/ Leave(a, r) \/ Finalize(a, r) \/ Timeout(a, r)
PutStep == \E p \in puts : PutCheck(p) \/ PutMerge(p) \/ PutFails(p)
CleanStep == StartCycle \/ ListFinal \/ EndCycle \/ \E r \in Req : Kick(r) \/ Delete(r)

Next ==
    \/ \E a \in Agent, r \in Req : FetchStep(a, r) \/ TaskStep(a, r) \/ Callback(a, r)
    \/ \E a \in Agent : AgentStep(a) \/ Crash(a) \/ Stop(a)
    \/ PutStep
    \/ CleanStep
    \/ \E r \in Req : Submit(r) \/ FtsCheck(r) \/ FtsGet(r) \/ Cancel(r) \/ ResetFailed(r) \/ Age(r)

Spec == Init /\ [][Next]_vars

(***************************************************************************)
(* Agents, tasks and callbacks keep working: they are loops that runit     *)
(* starts again.  A put that is tried again and again is answered at *)
(* last, and a row that nobody touches grows old.                          *)
(***************************************************************************)
Fairness ==
    /\ \A a \in Agent : WF_vars(AgentStep(a))
    /\ \A a \in Agent, r \in Req : WF_vars(TaskStep(a, r)) /\ WF_vars(Callback(a, r))
    /\ SF_vars(\E p \in puts : PutCheck(p))
    /\ SF_vars(\E p \in puts : PutMerge(p))
    /\ WF_vars(CleanStep)
    /\ \A r \in Req : WF_vars(FtsGet(r)) /\ SF_vars(Age(r))

FairSpec == Spec /\ Fairness

-----------------------------------------------------------------------------
OpsType == Seq([status : OpStatuses, files : Seq(FileStatuses)])

(***************************************************************************)
(* The type invariant.                                                     *)
(***************************************************************************)
TypeOK ==
    /\ db \in [Req -> [status : {"none", "Waiting", "Scheduled", "Assigned"} \cup FinalStates,
                       ops : OpsType, old : BOOLEAN]]
    /\ submitted \subseteq Req
    /\ hand \in [Agent -> [pc : {"empty", "read", "assigned"}, req : Req \cup {NoReq}, ops : OpsType]]
    /\ cache \in [Agent -> [Req -> OpsType]]
    /\ task \in [Agent -> [Req -> [pc : {"none", "running", "put", "finalize", "ended"},
                                   ops : OpsType,
                                   result : {"none", "ok", "error", "timeout"}]]]
    /\ \A p \in puts : /\ p.by \in {"task", "callback", "stop", "fts", "user", "kick"}
                       /\ p.agent \in Agent \cup {NoAgent}
                       /\ p.req \in Req
                       /\ p.ops \in OpsType
                       /\ p.stage \in {"check", "merge"}
    /\ fts \in [Req -> Nat]
    /\ clean.pc \in {"idle", "kick", "delete"}
    /\ clean.list \subseteq Req

(***************************************************************************)
(* A request is processed by one agent at a time: what the row lock of     *)
(* getBulkRequests is for, and what a put that comes late, a kick that     *)
(* comes early or a reset of a request in execution would break.           *)
(***************************************************************************)
OneProcessor ==
    \A r \in Req, a, b \in Agent : Busy(a, r) /\ Busy(b, r) => a = b

(***************************************************************************)
(* A request that is assigned is in somebody's hands, who will put it      *)
(* back: without crashes and lost calls none is left to the grace period.  *)
(***************************************************************************)
AssignedIsHeld ==
    \A r \in Req : db[r].status = "Assigned" =>
        \/ \E a \in Agent : hand[a].req = r \/ cache[a][r] # NoCopy
        \/ \E p \in puts : p.req = r

(***************************************************************************)
(* What the database has recorded as done is never recorded as not done:   *)
(* no put of an older copy undoes a later one.  Deleting, and submitting   *)
(* again, are not undoing.                                                 *)
(***************************************************************************)
DoneIn(row) == {i \in DOMAIN row.ops : row.ops[i].status = "Done"}

NothingUndone ==
    [][\A r \in Req : db'[r].status # "none" => DoneIn(db[r]) \subseteq DoneIn(db'[r])]_vars

(***************************************************************************)
(* The cleaning agent deletes nothing that is still to be executed.        *)
(***************************************************************************)
OnlyFinalDeleted ==
    [][\A r \in Req : Exists(r) /\ db'[r].status = "none" => db[r].status \in FinalStates]_vars

(***************************************************************************)
(* A canceled request remains so until it is deleted, even if an agent     *)
(* holds it and puts it back: no put gets past the look at the status any  *)
(* more.  One that was past it already, or the FTS3 callback, which        *)
(* assigns the request it saw Scheduled, may still overwrite the status.   *)
(***************************************************************************)
PastCheck(r) == fts[r] # 0 \/ \E p \in puts : p.req = r /\ p.stage = "merge"
CanceledForGood(r) == db[r].status = "Canceled" /\ ~PastCheck(r)

CanceledRemains ==
    [][\A r \in Req : CanceledForGood(r) => CanceledForGood(r)' \/ db'[r].status = "none"]_vars

(***************************************************************************)
(* No request stays assigned for ever: whoever had it puts it back, or it  *)
(* is kicked.                                                              *)
(***************************************************************************)
AssignedIsLeft ==
    \A r \in Req : db[r].status = "Assigned" ~> db[r].status # "Assigned"
=============================================================================
