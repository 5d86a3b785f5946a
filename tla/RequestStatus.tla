--------------------------- MODULE RequestStatus ----------------------------
(***************************************************************************)
(* How the status of a request follows from its operations, and theirs     *)
(* from their files: the _notify methods of Client/Request.py and          *)
(* Client/Operation.py of the RequestManagementSystem, the setters that    *)
(* call them, and what reading a request back from its JSON form does.     *)
(*                                                                         *)
(* The operations of a request are a sequence of records with a status and *)
(* a sequence of file statuses; an operation without files has the empty   *)
(* one.  The request keeps no status of its own that matters: its getter   *)
(* recomputes it, so it is an operator here.                               *)
(***************************************************************************)
EXTENDS Integers, SequencesExt

FileStatuses == {"Waiting", "Scheduled", "Failed", "Done"}
OpStatuses == {"Queued", "Waiting", "Scheduled", "Failed", "Done"}
Unfinished == {"Waiting", "Scheduled"}

Op(status, files) == [status |-> status, files |-> files]

\* Operation._notify: the status that the files of an operation give it
FromFiles(files) ==
    LET seen == ToSet(files) IN
    IF "Scheduled" \in seen THEN "Scheduled"
    ELSE IF "Waiting" \in seen THEN "Queued"
    ELSE IF "Failed" \in seen THEN "Failed"
    ELSE "Done"

-----------------------------------------------------------------------------
\* one more operation is behind, with the status it has now
Pass(s, o, status) == [s EXCEPT !.ops = Append(@, Op(status, o.files))]

\* mutant of Visit: a later waiting operation is not queued again
VisitKeepsWaiting(s, o) ==
    LET first == s.waiting = 0 /\ s.status # "Failed"
        here == Len(s.ops) + 1
    IN
    IF first
    THEN CASE o.status \in {"Failed", "Done"} -> [Pass(s, o, o.status) EXCEPT !.status = o.status]
           [] o.status = "Scheduled" ->
                [Pass(s, o, "Scheduled") EXCEPT !.waiting = here, !.status = "Scheduled"]
           [] o.status \in {"Queued", "Waiting"} ->
                [Pass(s, o, "Waiting") EXCEPT !.waiting = here, !.status = "Waiting"]
    ELSE Pass(s, o, o.status)

\* mutant of Visit: the loop goes on after a failed operation
VisitPastFailed(s, o) ==
    LET first == s.waiting = 0
        here == Len(s.ops) + 1
    IN
    IF first
    THEN CASE o.status \in {"Failed", "Done"} -> [Pass(s, o, o.status) EXCEPT !.status = o.status]
           [] o.status = "Scheduled" ->
                [Pass(s, o, "Scheduled") EXCEPT !.waiting = here, !.status = "Scheduled"]
           [] o.status \in {"Queued", "Waiting"} ->
                [Pass(s, o, "Waiting") EXCEPT !.waiting = here, !.status = "Waiting"]
    ELSE IF o.status = "Waiting"
    THEN [Pass(s, o, "Queued") EXCEPT !.status = "Waiting"]
    ELSE Pass(s, o, o.status)

(***************************************************************************)
(* One turn of the loop of Request._notify.  waiting is the place of the   *)
(* operation found to be next, 0 as long as there is none.  The loop ends  *)
(* at a failed operation that no pending one precedes: status "Failed".    *)
(***************************************************************************)
Visit(s, o) ==
    LET first == s.waiting = 0
        here == Len(s.ops) + 1
    IN
    IF s.status = "Failed"
    THEN Pass(s, o, o.status)
    ELSE IF first
    THEN CASE o.status \in {"Failed", "Done"} -> [Pass(s, o, o.status) EXCEPT !.status = o.status]
           [] o.status = "Scheduled" ->
                [Pass(s, o, "Scheduled") EXCEPT !.waiting = here, !.status = "Scheduled"]
           [] o.status \in {"Queued", "Waiting"} ->
                [Pass(s, o, "Waiting") EXCEPT !.waiting = here, !.status = "Waiting"]
    ELSE IF o.status = "Waiting"
    THEN [Pass(s, o, "Queued") EXCEPT !.status = "Waiting"]
    ELSE Pass(s, o, o.status)

Scan(ops) == FoldLeft(Visit, [ops |-> <<>>, waiting |-> 0, status |-> "Waiting"], ops)

Notify(ops) == Scan(ops).ops
NextOp(ops) == Scan(ops).waiting        \* what getWaiting returns
StatusOf(ops) == Scan(ops).status       \* what the Status getter returns

-----------------------------------------------------------------------------
\* the setter of File.Status
SetFile(ops, i, f, v) ==
    LET files == [ops[i].files EXCEPT ![f] = v] IN
    Notify([ops EXCEPT ![i] = Op(FromFiles(files), files)])

\* the setter of Operation.Status: an operation with files only looks at them again
SetOp(ops, i, v) ==
    Notify([ops EXCEPT ![i].status = IF ops[i].files = <<>> THEN v ELSE FromFiles(ops[i].files)])

\* an operation given its files, then its status: new, or read from JSON
NewOp(o) == [o EXCEPT !.status = IF o.files = <<>> THEN @ ELSE FromFiles(o.files)]

InsertBefore(ops, o, i) == Notify(InsertAt(ops, i, NewOp(o)))
InsertAfter(ops, o, i) == Notify(InsertAt(ops, i + 1, NewOp(o)))

\* mutant of Reload: the operations are set in one go and never looked at
ReloadRaw(ops) == [i \in DOMAIN ops |-> NewOp(ops[i])]

\* Request(fromDict): the operations are appended one by one
Reload(ops) ==
    LET append(read, o) == Notify(Append(read, NewOp(o)))
    IN  Notify(FoldLeft(append, <<>>, ops))

-----------------------------------------------------------------------------
\* RequestTask without a proxy for the owner: every file and operation fails
FailAll(ops) ==
    Notify([i \in DOMAIN ops |-> Op("Failed", [f \in DOMAIN ops[i].files |-> "Failed"])])

\* mutant of ResetFiles: every file is tried again
ResetAllFiles(files) == [f \in DOMAIN files |-> "Waiting"]

\* resetFailedRequest of a request that is Failed
ResetFiles(files) == [f \in DOMAIN files |-> IF files[f] = "Failed" THEN "Waiting" ELSE files[f]]

ResetOp(o) ==
    LET files == ResetFiles(o.files) IN
    Op(IF "Failed" \in ToSet(o.files) THEN FromFiles(files)
       ELSE IF o.status = "Failed" THEN "Waiting" ELSE o.status,
       files)

Reset(ops) == Notify([i \in DOMAIN ops |-> ResetOp(ops[i])])
=============================================================================
