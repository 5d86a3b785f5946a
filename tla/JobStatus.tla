----------------------------- MODULE JobStatus -----------------------------
(***************************************************************************)
(* The statuses of a job and the state machine between them.               *)
(***************************************************************************)

\* JobsStateMachine: where a job may go from each status
Transitions == [
    Submitting  |-> {"Received", "Checking", "Deleted"},
    Received    |-> {"Checking", "Waiting", "Failed", "Deleted"},
    Checking    |-> {"Staging", "Waiting", "Rescheduled", "Failed", "Deleted"},
    Staging     |-> {"Waiting", "Failed", "Killed"},
    Waiting     |-> {"Matched", "Rescheduled", "Deleted"},
    Matched     |-> {"Running", "Failed", "Rescheduled", "Killed"},
    Rescheduled |-> {"Waiting", "Received", "Deleted", "Failed"},
    Running     |-> {"Stalled", "Done", "Failed", "Rescheduled", "Completing", "Killed",
                     "Received"},
    Stalled     |-> {"Running", "Failed", "Killed"},
    Completing  |-> {"Done", "Failed", "Completed", "Stalled", "Killed"},
    Completed   |-> {"Done", "Failed"},
    Done        |-> {"Deleted"},
    Failed      |-> {"Rescheduled", "Deleted"},
    Killed      |-> {"Deleted"},
    Deleted     |-> {} ]

Statuses == DOMAIN Transitions

\* transitionRule: what is not allowed changes nothing, but a status without a
\* default (only Deleted) accepts everything
NextState(current, candidate) ==
    IF candidate \in Transitions[current] \/ current = "Deleted"
    THEN candidate
    ELSE current
=============================================================================
