--------------------------- MODULE RequestObject ----------------------------
(***************************************************************************)
(* A Request object in the hands of the code that works on it: the handler *)
(* of its waiting operation, the FTS3 callback, RequestTask, the reset     *)
(* command, and the transport of the request as JSON.  The calls are those *)
(* of RequestStatus; this module says in which order they come.            *)
(***************************************************************************)
EXTENDS RequestStatus

CONSTANTS
    Plans,      \* the requests as they are submitted: the numbers of files
                \* of their operations (the validator wants at least one)
    MaxLength   \* bound on the operations of a request, inserted ones included

ASSUME PlansAssumption == Plans \subseteq Seq(Nat) \ {<<>>}

VARIABLES
    ops,        \* the operations of the request
    current     \* the operation its handler works on, 0 when there is none

vars == <<ops, current>>

FreshOp(n) == Op("Queued", [f \in 1 .. n |-> "Waiting"])

Init ==
    /\ \E plan \in Plans : ops = Reload([i \in DOMAIN plan |-> FreshOp(plan[i])])
    /\ current = 0

-----------------------------------------------------------------------------
\* RequestTask starts a handler on the waiting operation; the callback of FTS3
\* takes up the scheduled one
Take ==
    /\ current = 0
    /\ StatusOf(ops) \in {"Waiting", "Scheduled"}
    /\ current' = NextOp(ops)
    /\ ops' = Notify(ops)

\* handlers and the callback only touch files that are not finished
SetFileStatus(f, v) ==
    /\ current # 0
    /\ ops[current].files[f] \in Unfinished
    /\ ops' = SetFile(ops, current, f, v)
    /\ UNCHANGED current

SetOperationStatus(v) ==
    /\ current # 0
    /\ ops[current].status \in Unfinished
    /\ ops' = SetOp(ops, current, v)
    /\ UNCHANGED current

\* the end of FTS3TransferOperation._callback, once the files it scheduled are settled
RegisterBefore(o) ==
    /\ current # 0
    /\ ops[current].status # "Scheduled"
    /\ Len(ops) < MaxLength
    /\ ops' = InsertBefore(ops, o, current)
    /\ current' = 0

\* ReplicateAndRegister, PutAndRegister, MoveReplica
RegisterAfter(o) ==
    /\ current # 0
    /\ Len(ops) < MaxLength
    /\ ops' = InsertAfter(ops, o, current)
    /\ UNCHANGED current

Release ==
    /\ current # 0
    /\ current' = 0
    /\ UNCHANGED ops

NoProxy ==
    /\ current = 0
    /\ StatusOf(ops) = "Waiting"
    /\ ops' = FailAll(ops)
    /\ UNCHANGED current

ResetFailed ==
    /\ current = 0
    /\ StatusOf(ops) = "Failed"
    /\ ops' = Reset(ops)
    /\ UNCHANGED current

\* the request travels between client, service and database
Transport ==
    /\ current = 0
    /\ ops' = Reload(ops)
    /\ UNCHANGED current

Next ==
    \/ Take \/ Release \/ NoProxy \/ ResetFailed \/ Transport
    \/ current # 0 /\ \E f \in DOMAIN ops[current].files, v \in FileStatuses : SetFileStatus(f, v)
    \/ current # 0 /\ ops[current].files = <<>> /\ \E v \in {"Done", "Failed"} : SetOperationStatus(v)
    \/ RegisterBefore(FreshOp(1)) \/ RegisterAfter(FreshOp(1))

Spec == Init /\ [][Next]_vars

-----------------------------------------------------------------------------
(***************************************************************************)
(* Operations are executed in turns: only the first that is not done may   *)
(* be waiting or scheduled, all others are queued, finished or failed, and *)
(* it is the one getWaiting hands out.                                     *)
(***************************************************************************)
DoneBefore(i) == \A j \in 1 .. i - 1 : ops[j].status = "Done"

InTurns ==
    \A i \in DOMAIN ops :
        ops[i].status \in Unfinished => DoneBefore(i) /\ NextOp(ops) = i

(***************************************************************************)
(* The status of a request says what its operations say: done when all of  *)
(* them are, failed when the first that is not done has failed, and waiting*)
(* or scheduled with that operation otherwise.  RequestTask trusts it to   *)
(* decide that there is something to execute.                              *)
(***************************************************************************)
Pending == {i \in DOMAIN ops : ops[i].status # "Done"}
FirstPending == CHOOSE i \in Pending : \A j \in Pending : i <= j

StatusAgrees ==
    StatusOf(ops) = IF Pending = {} THEN "Done" ELSE ops[FirstPending].status

(***************************************************************************)
(* Reading a request back from its JSON form changes nothing, although the *)
(* operations are appended, and looked at, one by one.                     *)
(***************************************************************************)
ReloadFaithful == Reload(ops) = ops

(***************************************************************************)
(* What is done stays done: no call on one operation undoes another that   *)
(* was done (RegisterBefore and RegisterAfter shift their places).  Only   *)
(* RequestTask without a proxy fails the done ones too, with the rest.     *)
(***************************************************************************)
DoneCount == Cardinality({i \in DOMAIN ops : ops[i].status = "Done"})
AllFailed == \A i \in DOMAIN ops : ops[i].status = "Failed"
DoneStaysDone == [][DoneCount' >= DoneCount \/ AllFailed']_vars
=============================================================================
