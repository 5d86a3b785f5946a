-------------------------- MODULE TaskQueuesProofs --------------------------
(***************************************************************************)
(* Proofs about TaskQueues, for any jobs, queues, fields, services and     *)
(* faults.                                                                 *)
(***************************************************************************)
EXTENDS TaskQueues, FiniteSetTheorems, TLAPS

InsertType == [pc : {"idle", "find", "disable", "create", "conditions",
                     "insert", "enable", "delete"},
               queue : Queue \cup {NoQueue}, todo : SUBSET Field,
               ok : BOOLEAN, tries : 0 .. Retries]

MatchType == [pc : {"idle", "list", "extract", "got"},
              queue : Queue \cup {NoQueue}, list : SUBSET Job]

CleanType == [pc : {"idle", "fields", "rows"}, list : SUBSET Queue, todo : SUBSET Field]

\* An insertion under way has a try left to lose, and knows its queue when it
\* works on one.
AtWork ==
    \A j \in Job :
        /\ insert[j].pc \notin {"idle", "delete"} => insert[j].tries \in 1 .. Retries
        /\ insert[j].pc \in {"disable", "conditions", "insert", "enable"} =>
            insert[j].queue \in Queue

Typed == TypeOK /\ AtWork

USE TaskQueuesAssumption DEF TaskQueuesAssumption

-----------------------------------------------------------------------------
(***************************************************************************)
(* Type correctness.                                                       *)
(***************************************************************************)
LEMMA InitTyped == Init => Typed
BY DEF Init, Typed, TypeOK, InsertTypeOK, AtWork, Rows, Idle, NotMatching, NotCleaning

\* The number of a new queue is that of no row, and nobody remembers it.
LEMMA NextIdIsFresh ==
  ASSUME NEW q \in NextId
  PROVE  q \in Fresh
BY DEF NextId

\* The inserters, when one of them takes a step.
LEMMA InsertKeepsTyped ==
  ASSUME Typed, NEW j \in Job, NEW r \in InsertType,
         r.pc \notin {"idle", "delete"} => r.tries \in 1 .. Retries,
         r.pc \in {"disable", "conditions", "insert", "enable"} => r.queue \in Queue,
         insert' = [insert EXCEPT ![j] = r]
  PROVE  InsertTypeOK' /\ AtWork'
<1>1. insert \in [Job -> InsertType]
  BY DEF Typed, TypeOK, InsertTypeOK, InsertType
<1>2. insert' \in [Job -> InsertType]
  BY <1>1
<1>3. InsertTypeOK'
  BY <1>2 DEF InsertTypeOK, InsertType
<1>4. AtWork'
  BY <1>1 DEF Typed, AtWork
<1> QED  BY <1>3, <1>4

LEMMA IdleType == Idle \in InsertType /\ Idle.pc = "idle"
BY DEF Idle, InsertType

\* An insertion at the beginning of a try.
Try(pc, n) == [Idle EXCEPT !.pc = pc, !.tries = n]

LEMMA TryType ==
  ASSUME NEW pc \in {"find", "delete"}, NEW n \in 0 .. Retries
  PROVE  Try(pc, n) \in InsertType /\ Try(pc, n).pc = pc /\ Try(pc, n).tries = n
BY IdleType DEF InsertType, Try

LEMMA IdleKeepsTyped ==
  ASSUME Typed, NEW j \in Job, insert' = [insert EXCEPT ![j] = Idle]
  PROVE  InsertTypeOK' /\ AtWork'
BY IdleType, InsertKeepsTyped

LEMMA RetryKeepsTyped ==
  ASSUME Typed, NEW j \in Job, Retry(j), insert[j].pc \notin {"idle", "delete"}
  PROVE  InsertTypeOK' /\ AtWork'
<1> DEFINE pc == IF insert[j].tries > 1 THEN "find" ELSE "delete"
           n == insert[j].tries - 1
<1>1. insert' = [insert EXCEPT ![j] = Try(pc, n)]
  BY DEF Retry, Try
<1>2. insert[j].tries \in 1 .. Retries
  BY DEF Typed, AtWork
<1>3. pc \in {"find", "delete"} /\ n \in 0 .. Retries /\ (pc = "find" => n \in 1 .. Retries)
  BY <1>2
<1> HIDE DEF pc, n
<1> DEFINE r == Try(pc, n)
<1>4. r \in InsertType /\ r.pc = pc /\ r.tries = n
  BY <1>3, TryType
<1> HIDE DEF r
<1>5. /\ r.pc \notin {"idle", "delete"} => r.tries \in 1 .. Retries
      /\ r.pc \notin {"disable", "conditions", "insert", "enable"}
  BY <1>3, <1>4
<1>6. insert' = [insert EXCEPT ![j] = r]
  BY <1>1 DEF r
<1> QED  BY <1>4, <1>5, <1>6, InsertKeepsTyped

LEMMA GotoKeepsTyped ==
  ASSUME Typed, NEW j \in Job, NEW pc, Goto(j, pc),
         \/ pc \in {"find", "create", "enable"}
         \/ pc = "insert",
         insert[j].pc \notin {"idle", "delete"},
         pc \in {"insert", "enable"} => insert[j].pc \in {"disable", "conditions", "insert"}
  PROVE  InsertTypeOK' /\ AtWork'
<1> DEFINE r == [insert[j] EXCEPT !.pc = pc]
<1>1. insert[j] \in InsertType
  BY DEF Typed, TypeOK, InsertTypeOK, InsertType
<1>2. r \in InsertType /\ r.pc = pc /\ r.queue = insert[j].queue /\ r.tries = insert[j].tries
  BY <1>1 DEF InsertType
<1>3. insert' = [insert EXCEPT ![j] = r]
  BY DEF Goto
<1>4. /\ r.tries \in 1 .. Retries
      /\ r.pc \in {"disable", "conditions", "insert", "enable"} => r.queue \in Queue
  BY <1>2 DEF Typed, AtWork
<1> HIDE DEF r
<1> QED  BY <1>2, <1>3, <1>4, InsertKeepsTyped

LEMMA UpsetType ==
  ASSUME upset \in [counts : 0 .. MaxUpsets, errors : 0 .. MaxUpsets],
         NEW kind \in {"counts", "errors"}, Upset(kind)
  PROVE  upset' \in [counts : 0 .. MaxUpsets, errors : 0 .. MaxUpsets]
BY DEF Upset

\* The rest of the state.
LEMMA OthersKeepTyped ==
  ASSUME Typed, InsertTypeOK' /\ AtWork',
         Rows' \subseteq Queue, enabled' \in [Rows' -> Int],
         conds' \in [Queue -> SUBSET Field],
         queueOf' \in [Job -> Queue \cup {NoQueue}],
         told' \in [Job -> {"none", "asked", "entered", "ok", "error"}],
         upset' \in [counts : 0 .. MaxUpsets, errors : 0 .. MaxUpsets],
         Others
  PROVE  Typed'
BY DEF Typed, TypeOK, Others

LEMMA AddEnabledType ==
  ASSUME Typed, NEW q, NEW n \in Int, AddEnabled(q, n)
  PROVE  Rows' = Rows /\ enabled' \in [Rows -> Int]
BY DEF Typed, TypeOK, AddEnabled, Rows

LEMMA TellType ==
  ASSUME Typed, NEW j \in Job, NEW word \in {"none", "asked", "entered", "ok", "error"},
         Tell(j, word)
  PROVE  told' \in [Job -> {"none", "asked", "entered", "ok", "error"}]
BY DEF Typed, TypeOK, Tell

\* Each step of an inserter.
LEMMA AskTyped ==
  ASSUME Typed, NEW j \in Job, Ask(j)
  PROVE  Typed'
<1>1. insert' = [insert EXCEPT ![j] = Try("find", Retries)]
  BY DEF Ask, Try
<1>2. Retries \in 1 .. Retries
  OBVIOUS
<1>3. InsertTypeOK' /\ AtWork'
  <2> DEFINE r == Try("find", Retries)
  <2>1. r \in InsertType /\ r.pc = "find" /\ r.tries = Retries
    BY TryType
  <2>2. insert' = [insert EXCEPT ![j] = r]
    BY <1>1
  <2> HIDE DEF r
  <2> QED  BY <1>2, <2>1, <2>2, InsertKeepsTyped
<1> QED  BY <1>3, TellType DEF Ask, Others, Typed, TypeOK, tables, Rows

LEMMA FindTyped ==
  ASSUME Typed, NEW j \in Job, Find(j)
  PROVE  Typed'
<1>1. InsertTypeOK' /\ AtWork'
  <2>1. CASE \E q \in Smallest(Exactly(j)) :
               insert' = [insert EXCEPT ![j].pc = "disable", ![j].queue = q]
    <3>1. PICK q \in Queue : insert' = [insert EXCEPT ![j].pc = "disable", ![j].queue = q]
      BY <2>1 DEF Smallest, Exactly, Typed, TypeOK
    <3> DEFINE r == [insert[j] EXCEPT !.pc = "disable", !.queue = q]
    <3>2. insert[j] \in InsertType /\ insert[j].tries \in 1 .. Retries
      BY DEF Typed, TypeOK, InsertTypeOK, InsertType, AtWork, Find, At
    <3>3. r \in InsertType /\ r.pc = "disable" /\ r.queue = q /\ r.tries = insert[j].tries
      BY <3>2 DEF InsertType
    <3>4. insert' = [insert EXCEPT ![j] = r]
      BY <3>1
    <3> HIDE DEF r
    <3> QED  BY <3>2, <3>3, <3>4, InsertKeepsTyped
  <2>2. CASE Goto(j, "create")
    BY <2>2, GotoKeepsTyped DEF Find, At
  <2> QED  BY <2>1, <2>2 DEF Find
<1> QED  BY <1>1 DEF Find, Others, Typed, TypeOK, tables, Rows

LEMMA DisableTyped ==
  ASSUME Typed, NEW j \in Job, Disable(j)
  PROVE  Typed'
<1>1. InsertTypeOK' /\ AtWork'
  BY GotoKeepsTyped DEF Disable, At
<1>2. Rows' = Rows /\ enabled' \in [Rows -> Int]
  BY AddEnabledType DEF Disable
<1> QED  BY <1>1, <1>2 DEF Disable, Others, Typed, TypeOK

LEMMA CreateTyped ==
  ASSUME Typed, NEW j \in Job, Create(j)
  PROVE  Typed'
<1>1. PICK q \in Queue :
        /\ enabled' = [p \in Rows \cup {q} |-> IF p = q THEN 0 ELSE enabled[p]]
        /\ insert' = [insert EXCEPT ![j].pc = "conditions", ![j].queue = q, ![j].todo = Needs[j]]
  BY NextIdIsFresh DEF Create, Fresh
<1> DEFINE r == [insert[j] EXCEPT !.pc = "conditions", !.queue = q, !.todo = Needs[j]]
<1>2. insert[j] \in InsertType /\ insert[j].tries \in 1 .. Retries
  BY DEF Typed, TypeOK, InsertTypeOK, InsertType, AtWork, Create, At
<1>3. r \in InsertType /\ r.pc = "conditions" /\ r.queue = q /\ r.tries = insert[j].tries
  BY <1>2 DEF InsertType
<1>4. insert' = [insert EXCEPT ![j] = r]
  BY <1>1
<1>5. InsertTypeOK' /\ AtWork'
  <2> HIDE DEF r
  <2> QED  BY <1>2, <1>3, <1>4, InsertKeepsTyped
<1>6. Rows' \subseteq Queue /\ enabled' \in [Rows' -> Int]
  BY <1>1 DEF Typed, TypeOK, Rows
<1> QED  BY <1>5, <1>6 DEF Create, Others, Typed, TypeOK

LEMMA AddConditionTyped ==
  ASSUME Typed, NEW j \in Job, AddCondition(j)
  PROVE  Typed'
<1>1. CASE Raise(j) /\ UNCHANGED conds
  BY <1>1, IdleKeepsTyped, TellType DEF AddCondition, Raise, Others, Typed, TypeOK, Rows
<1>2. CASE ~ (Raise(j) /\ UNCHANGED conds)
  <2>1. PICK f \in insert[j].todo :
          /\ insert[j].queue \in Rows
          /\ conds' = [conds EXCEPT ![insert[j].queue] = @ \cup {f}]
          /\ insert' = [insert EXCEPT ![j].todo = @ \ {f}]
          /\ UNCHANGED told
    BY <1>2 DEF AddCondition
  <2> DEFINE r == [insert[j] EXCEPT !.todo = @ \ {f}]
  <2>2. /\ insert[j] \in InsertType /\ insert[j].tries \in 1 .. Retries
        /\ insert[j].queue \in Queue
    BY DEF Typed, TypeOK, InsertTypeOK, InsertType, AtWork, AddCondition, At
  <2>3. /\ r \in InsertType /\ r.queue = insert[j].queue /\ r.tries = insert[j].tries
        /\ f \in Field
    BY <2>2 DEF InsertType
  <2>4. insert' = [insert EXCEPT ![j] = r]
    BY <2>1
  <2>5. InsertTypeOK' /\ AtWork'
    <3> HIDE DEF r
    <3> QED  BY <2>2, <2>3, <2>4, InsertKeepsTyped
  <2>6. conds' \in [Queue -> SUBSET Field]
    BY <2>1, <2>2, <2>3 DEF Typed, TypeOK
  <2> QED  BY <2>1, <2>5, <2>6 DEF AddCondition, Others, Typed, TypeOK, Rows
<1> QED  BY <1>1, <1>2

LEMMA EnterTyped ==
  ASSUME Typed, NEW j \in Job, At(j, "insert"), NEW ok \in BOOLEAN, Enter(j, ok)
  PROVE  /\ InsertTypeOK' /\ AtWork'
         /\ queueOf' \in [Job -> Queue \cup {NoQueue}]
         /\ told' \in [Job -> {"none", "asked", "entered", "ok", "error"}]
<1> DEFINE r == [insert[j] EXCEPT !.pc = "enable", !.ok = ok]
<1>1. /\ insert[j] \in InsertType /\ insert[j].tries \in 1 .. Retries
      /\ insert[j].queue \in Queue
  BY DEF Typed, TypeOK, InsertTypeOK, InsertType, AtWork, At
<1>2. r \in InsertType /\ r.queue = insert[j].queue /\ r.tries = insert[j].tries
  BY <1>1 DEF InsertType
<1>3. insert' = [insert EXCEPT ![j] = r]
  BY DEF Enter
<1>4. InsertTypeOK' /\ AtWork'
  <2> HIDE DEF r
  <2> QED  BY <1>1, <1>2, <1>3, InsertKeepsTyped
<1>5. queueOf' \in [Job -> Queue \cup {NoQueue}]
  BY <1>1 DEF Enter, Typed, TypeOK
<1> QED  BY <1>4, <1>5, TellType DEF Enter

LEMMA InsertJobTyped ==
  ASSUME Typed, NEW j \in Job, InsertJob(j)
  PROVE  Typed'
<1>1. CASE Enter(j, TRUE)
  BY <1>1, EnterTyped DEF InsertJob, Others, Typed, TypeOK, Rows
<1>2. CASE Goto(j, "enable") /\ UNCHANGED <<queueOf, told>>
  <2>1. InsertTypeOK' /\ AtWork'
    BY <1>2, GotoKeepsTyped DEF InsertJob, At
  <2> QED  BY <1>2, <2>1 DEF InsertJob, Others, Typed, TypeOK, Rows
<1> QED  BY <1>1, <1>2 DEF InsertJob

LEMMA ReturnTyped ==
  ASSUME Typed, NEW j \in Job, At(j, "enable"), Return(j)
  PROVE  /\ InsertTypeOK' /\ AtWork'
         /\ told' \in [Job -> {"none", "asked", "entered", "ok", "error"}]
<1>1. CASE insert' = [insert EXCEPT ![j] = Idle] /\ Tell(j, "ok")
  BY <1>1, IdleKeepsTyped, TellType
<1>2. CASE Retry(j) /\ UNCHANGED told
  BY <1>2, RetryKeepsTyped DEF At, Typed, TypeOK
<1> QED  BY <1>1, <1>2 DEF Return

LEMMA StatementFailsTyped ==
  ASSUME Typed, NEW j \in Job, StatementFails(j)
  PROVE  Typed'
<1>0. \/ At(j, "find") /\ Retry(j) /\ UNCHANGED told
      \/ At(j, "disable") /\ Goto(j, "find") /\ UNCHANGED told
      \/ Raise(j)
      \/ At(j, "insert") /\ Goto(j, "enable") /\ UNCHANGED told
      \/ At(j, "enable") /\ Return(j)
      \/ Refused(j)
  BY DEF StatementFails
<1>1. /\ upset' \in [counts : 0 .. MaxUpsets, errors : 0 .. MaxUpsets]
      /\ UNCHANGED tables /\ Others
  BY UpsetType DEF StatementFails, Typed, TypeOK
<1>2. /\ InsertTypeOK' /\ AtWork'
      /\ told' \in [Job -> {"none", "asked", "entered", "ok", "error"}]
  <2>1. CASE At(j, "find") /\ Retry(j) /\ UNCHANGED told
    BY <2>1, RetryKeepsTyped DEF At, Typed, TypeOK
  <2>2. CASE At(j, "disable") /\ Goto(j, "find") /\ UNCHANGED told
    BY <2>2, GotoKeepsTyped DEF At, Typed, TypeOK
  <2>3. CASE Raise(j)
    BY <2>3, IdleKeepsTyped, TellType DEF Raise
  <2>4. CASE At(j, "insert") /\ Goto(j, "enable") /\ UNCHANGED told
    BY <2>4, GotoKeepsTyped DEF At, Typed, TypeOK
  <2>5. CASE At(j, "enable") /\ Return(j)
    BY <2>5, ReturnTyped
  <2>6. CASE Refused(j)
    BY <2>6, IdleKeepsTyped, TellType DEF Refused
  <2> QED  BY <1>0, <2>1, <2>2, <2>3, <2>4, <2>5, <2>6
<1> QED  BY <1>1, <1>2 DEF Others, tables, Typed, TypeOK, Rows

\* Each step of all.
LEMMA StepTyped ==
  ASSUME Typed, [Next]_vars
  PROVE  Typed'
<1>1. ASSUME NEW j \in Job, Ask(j)
      PROVE  Typed'
  BY <1>1, AskTyped
<1>2. ASSUME NEW j \in Job, InsertStep(j)
      PROVE  Typed'
  <2>1. CASE Find(j)
    BY <2>1, FindTyped
  <2>2. CASE Disable(j)
    BY <2>2, DisableTyped
  <2>3. CASE Create(j)
    BY <2>3, CreateTyped
  <2>4. CASE AddCondition(j)
    BY <2>4, AddConditionTyped
  <2>5. CASE Created(j)
    <3>1. InsertTypeOK' /\ AtWork'
      BY <2>5, GotoKeepsTyped DEF Created, At
    <3> QED  BY <2>5, <3>1 DEF Created, Others, tables, Typed, TypeOK, Rows
  <2>6. CASE InsertJob(j)
    BY <2>6, InsertJobTyped
  <2>7. CASE Enable(j)
    <3>1. Rows' = Rows /\ enabled' \in [Rows -> Int]
      BY <2>7, AddEnabledType DEF Enable
    <3> QED  BY <2>7, <3>1, ReturnTyped DEF Enable, Others, Typed, TypeOK
  <2>8. CASE DeleteFailed(j)
    <3>1. InsertTypeOK' /\ AtWork'
      BY <2>8, IdleKeepsTyped DEF DeleteFailed, Refused
    <3> QED  BY <2>8, <3>1, TellType DEF DeleteFailed, Refused, Others, Typed, TypeOK, Rows
  <2> QED  BY <1>2, <2>1, <2>2, <2>3, <2>4, <2>5, <2>6, <2>7, <2>8 DEF InsertStep
<1>3. ASSUME NEW j \in Job, DeleteJob(j)
      PROVE  Typed'
  BY <1>3 DEF DeleteJob, Typed, TypeOK, InsertTypeOK, AtWork, Rows
<1>4. ASSUME NEW j \in Job, StatementFails(j)
      PROVE  Typed'
  BY <1>4, StatementFailsTyped
<1>5. ASSUME NEW j \in Job, AnswerLost(j)
      PROVE  Typed'
  BY <1>5, EnterTyped, UpsetType DEF AnswerLost, Others, Typed, TypeOK, Rows
<1>6. ASSUME NEW j \in Job, Crash(j)
      PROVE  Typed'
  <2>1. InsertTypeOK' /\ AtWork'
    BY <1>6, IdleKeepsTyped DEF Crash, Raise
  <2> QED  BY <1>6, <2>1, TellType, UpsetType DEF Crash, Raise, Others, tables, Typed, TypeOK, Rows
<1>7. ASSUME NEW m \in Matcher, NEW q \in Queue, ChooseQueue(m, q)
      PROVE  Typed'
  BY <1>7 DEF ChooseQueue, tables, Typed, TypeOK, InsertTypeOK, AtWork, Rows
<1>8. ASSUME NEW m \in Matcher, ListJobs(m) \/ HandOut(m)
      PROVE  Typed'
  BY <1>8 DEF ListJobs, HandOut, NotMatching, JobsIn, tables, Typed, TypeOK, InsertTypeOK,
              AtWork, Rows
<1>9. ASSUME NEW m \in Matcher, NEW j \in Job, Extract(m, j)
      PROVE  Typed'
  <2>1. match' \in [Matcher -> MatchType]
    <3>1. match \in [Matcher -> MatchType]
      BY DEF Typed, TypeOK, MatchType
    <3>2. /\ [pc |-> "extract", queue |-> match[m].queue, list |-> match[m].list \ {j}]
                \in MatchType
          /\ NotMatching \in MatchType
          /\ [pc |-> "got", queue |-> NoQueue, list |-> {j}] \in MatchType
      BY <3>1 DEF MatchType, NotMatching
    <3>3. \E r \in MatchType : match' = [match EXCEPT ![m] = r]
      BY <1>9, <3>2 DEF Extract, Got
    <3> QED  BY <3>1, <3>3
  <2> QED  BY <1>9, <2>1 DEF Extract, Typed, TypeOK, InsertTypeOK, AtWork, Rows, MatchType
<1>10. ASSUME NEW c \in Cleaner, SelectOrphans(c)
       PROVE  Typed'
  BY <1>10 DEF SelectOrphans, Orphans, CleanerStep, Typed, TypeOK, InsertTypeOK, AtWork, Rows
<1>11. ASSUME NEW c \in Cleaner, CleanStep(c)
       PROVE  Typed'
  <2>1. CASE DeleteConditions(c)
    <3>1. PICK f \in clean[c].todo :
            clean' = [clean EXCEPT ![c].todo = @ \ {f},
                                   ![c].pc = IF clean[c].todo = {f} THEN "rows" ELSE "fields"]
      BY <2>1 DEF DeleteConditions
    <3>2. clean' \in [Cleaner -> CleanType]
      <4> DEFINE pc == IF clean[c].todo = {f} THEN "rows" ELSE "fields"
                 r == [clean[c] EXCEPT !.todo = @ \ {f}, !.pc = pc]
      <4>1. clean \in [Cleaner -> CleanType] /\ pc \in {"rows", "fields"}
        BY DEF Typed, TypeOK, CleanType
      <4>2. clean' = [clean EXCEPT ![c] = r]
        BY <3>1
      <4>3. r \in CleanType
        <5> HIDE DEF pc
        <5> QED  BY <4>1 DEF CleanType
      <4> HIDE DEF r
      <4> QED  BY <4>1, <4>2, <4>3
    <3>3. conds' \in [Queue -> SUBSET Field]
      BY <2>1 DEF DeleteConditions, Typed, TypeOK
    <3> QED
      BY <2>1, <3>2, <3>3 DEF DeleteConditions, CleanerStep, CleanType, Typed, TypeOK,
                              InsertTypeOK, AtWork, Rows
  <2>2. CASE DeleteRows(c)
    BY <1>11, <2>2 DEF DeleteRows, CleanerStep, NotCleaning, Typed, TypeOK, InsertTypeOK,
                       AtWork, Rows
  <2> QED  BY <1>11, <2>1, <2>2 DEF CleanStep
<1>12. ASSUME EnableAll
       PROVE  Typed'
  BY <1>12, UpsetType DEF EnableAll, Typed, TypeOK, InsertTypeOK, AtWork, Rows
<1>13. CASE UNCHANGED vars
  BY <1>13 DEF vars, tables, Typed, TypeOK, InsertTypeOK, AtWork, Rows
<1> QED
  BY <1>1, <1>2, <1>3, <1>4, <1>5, <1>6, <1>7, <1>8, <1>9, <1>10, <1>11, <1>12, <1>13 DEF Next

(***************************************************************************)
(* The tables, and every thread that works on them, keep their types; an   *)
(* insertion tries no more often than it may.                              *)
(***************************************************************************)
THEOREM TaskQueuesTyped == Spec => []TypeOK
<1>1. Spec => []Typed
  BY InitTyped, StepTyped, PTL DEF Spec
<1>2. Typed => TypeOK
  BY DEF Typed
<1> QED  BY <1>1, <1>2, PTL

-----------------------------------------------------------------------------
(***************************************************************************)
(* No job waits in a queue that is gone, or stricter than the job.         *)
(***************************************************************************)
\* A queue that is being created is empty and known to its creator alone, who
\* adds what the job needs; a queue that is about to be used asks no more than
\* the job does; and a queue without a row has no conditions left, so that the
\* next one under its number starts with none.
OwnQueue ==
    \A j \in Job : At(j, "conditions") =>
        /\ insert[j].todo \subseteq Needs[j]
        /\ JobsIn(insert[j].queue) = {}
        /\ \A k \in Job \ {j} : insert[k].queue # insert[j].queue

RightQueue ==
    \A j \in Job : insert[j].pc \in {"disable", "conditions", "insert"} =>
        conds[insert[j].queue] \subseteq Needs[j]

Bare == \A q \in Queue \ Rows : conds[q] = {}

Fit == Typed /\ OwnQueue /\ RightQueue /\ Bare /\ NeverStricter

LEMMA InitFit == Init => Fit
BY InitTyped DEF Init, Fit, OwnQueue, RightQueue, Bare, NeverStricter, At, Idle, Rows

\* A step that leaves the inserters alone and only takes away from the tables:
\* conditions, jobs, and rows that nothing refers to.
LEMMA TakingKeepsFit ==
  ASSUME Fit, Typed', UNCHANGED insert,
         \A q \in Queue : conds'[q] \subseteq conds[q],
         \A j \in Job : queueOf'[j] \in {queueOf[j], NoQueue},
         Rows' \subseteq Rows,
         \A q \in Rows \ Rows' : ~ Referenced(q),
         \A j \in Job : queueOf[j] # NoQueue => queueOf[j] \in Queue
  PROVE  Fit'
<1>1. OwnQueue'
  BY DEF Fit, OwnQueue, At, JobsIn, Typed, AtWork
<1>2. RightQueue'
  BY DEF Fit, RightQueue, Typed, AtWork
<1>3. Bare'
  BY DEF Fit, Bare, Referenced
<1>4. NeverStricter'
  BY DEF Fit, NeverStricter, Referenced, JobsIn
<1> QED  BY <1>1, <1>2, <1>3, <1>4 DEF Fit

\* A step of an inserter that touches no table (but Enabled), and after which it
\* is neither creating a queue nor about to use one that it was not about to use.
LEMMA MovingKeepsFit ==
  ASSUME Fit, Typed', UNCHANGED <<conds, queueOf>>, Rows' = Rows,
         NEW j \in Job,
         \A k \in Job \ {j} : insert'[k] = insert[k],
         insert'[j].queue \in {insert[j].queue, NoQueue},
         insert'[j].pc # "conditions",
         insert'[j].pc \in {"disable", "insert"} =>
            /\ insert[j].pc \in {"disable", "conditions", "insert"}
            /\ insert'[j].queue = insert[j].queue
  PROVE  Fit'
<1>1. OwnQueue'
  <2> SUFFICES ASSUME NEW i \in Job, At(i, "conditions")'
               PROVE  /\ (insert[i].todo \subseteq Needs[i])'
                      /\ (JobsIn(insert[i].queue) = {})'
                      /\ \A k \in Job \ {i} : (insert[k].queue # insert[i].queue)'
    BY DEF OwnQueue
  <2>1. i # j /\ insert'[i] = insert[i] /\ At(i, "conditions")
    BY DEF At
  <2>2. insert[i].queue \in Queue
    BY <2>1 DEF Fit, Typed, AtWork, At
  <2>3. /\ insert[i].todo \subseteq Needs[i]
        /\ JobsIn(insert[i].queue) = {}
        /\ \A k \in Job \ {i} : insert[k].queue # insert[i].queue
    BY <2>1 DEF Fit, OwnQueue
  <2>4. ASSUME NEW k \in Job \ {i}
        PROVE  insert'[k].queue # insert'[i].queue
    <3>1. CASE k = j
      BY <2>1, <2>2, <2>3, <3>1
    <3>2. CASE k # j
      BY <2>1, <2>3, <3>2
    <3> QED  BY <3>1, <3>2
  <2> QED  BY <2>1, <2>3, <2>4 DEF JobsIn
<1>2. RightQueue'
  BY DEF Fit, RightQueue
<1>3. Bare' /\ NeverStricter'
  BY DEF Fit, Bare, NeverStricter
<1> QED  BY <1>1, <1>2, <1>3 DEF Fit

LEMMA RecordOf ==
  ASSUME Typed, NEW j \in Job
  PROVE  insert \in [Job -> InsertType] /\ insert[j] \in InsertType
BY DEF Typed, TypeOK, InsertTypeOK, InsertType

LEMMA IdleKeepsFit ==
  ASSUME Fit, Typed', UNCHANGED <<conds, queueOf>>, Rows' = Rows,
         NEW j \in Job, insert' = [insert EXCEPT ![j] = Idle]
  PROVE  Fit'
<1>1. insert \in [Job -> InsertType]
  BY RecordOf DEF Fit
<1>2. insert'[j].pc = "idle" /\ insert'[j].queue = NoQueue
  BY <1>1 DEF Idle
<1>3. \A k \in Job \ {j} : insert'[k] = insert[k]
  BY <1>1
<1> QED  BY <1>2, <1>3, MovingKeepsFit

LEMMA RetryKeepsFit ==
  ASSUME Fit, Typed', UNCHANGED <<conds, queueOf>>, Rows' = Rows,
         NEW j \in Job, Retry(j)
  PROVE  Fit'
<1>1. insert \in [Job -> InsertType]
  BY RecordOf DEF Fit
<1>2. insert'[j].pc \in {"find", "delete"} /\ insert'[j].queue = NoQueue
  BY <1>1 DEF Idle, Retry
<1>3. \A k \in Job \ {j} : insert'[k] = insert[k]
  BY <1>1 DEF Retry
<1> QED  BY <1>2, <1>3, MovingKeepsFit

LEMMA GotoKeepsFit ==
  ASSUME Fit, Typed', UNCHANGED <<conds, queueOf>>, Rows' = Rows,
         NEW j \in Job, NEW pc, Goto(j, pc), pc \notin {"disable", "conditions"},
         pc = "insert" => insert[j].pc \in {"disable", "conditions", "insert"}
  PROVE  Fit'
<1>1. insert \in [Job -> InsertType] /\ insert[j] \in InsertType
  BY RecordOf DEF Fit
<1>2. insert'[j].pc = pc /\ insert'[j].queue = insert[j].queue
  BY <1>1 DEF Goto, InsertType
<1>3. \A k \in Job \ {j} : insert'[k] = insert[k]
  BY <1>1 DEF Goto
<1> QED  BY <1>2, <1>3, MovingKeepsFit

\* A queue with a job in it is not being created.
LEMMA FindFit ==
  ASSUME Fit, Typed', NEW j \in Job, Find(j)
  PROVE  Fit'
<1>0. /\ insert \in [Job -> InsertType] /\ insert[j] \in InsertType
      /\ UNCHANGED <<conds, queueOf>> /\ Rows' = Rows
  BY RecordOf DEF Fit, Find, tables, Rows
<1>1. CASE Goto(j, "create")
  BY <1>0, <1>1, GotoKeepsFit
<1>2. CASE \E q \in Smallest(Exactly(j)) :
             insert' = [insert EXCEPT ![j].pc = "disable", ![j].queue = q]
  <2>1. PICK q \in Smallest(Exactly(j)) :
               insert' = [insert EXCEPT ![j].pc = "disable", ![j].queue = q]
    BY <1>2
  <2>2. q \in Queue /\ q \in Rows /\ conds[q] = Needs[j] /\ JobsIn(q) # {}
    BY DEF Smallest, Exactly, Fit, Typed, TypeOK
  <2>3. /\ insert'[j].pc = "disable" /\ insert'[j].queue = q
        /\ \A k \in Job \ {j} : insert'[k] = insert[k]
    BY <1>0, <2>1 DEF InsertType
  <2>4. OwnQueue'
    <3> SUFFICES ASSUME NEW i \in Job, At(i, "conditions")'
                 PROVE  /\ (insert[i].todo \subseteq Needs[i])'
                        /\ (JobsIn(insert[i].queue) = {})'
                        /\ \A k \in Job \ {i} : (insert[k].queue # insert[i].queue)'
      BY DEF OwnQueue
    <3>1. i # j /\ insert'[i] = insert[i] /\ At(i, "conditions")
      BY <2>3 DEF At
    <3>2. /\ insert[i].todo \subseteq Needs[i]
          /\ JobsIn(insert[i].queue) = {}
          /\ \A k \in Job \ {i} : insert[k].queue # insert[i].queue
      BY <3>1 DEF Fit, OwnQueue
    <3>3. ASSUME NEW k \in Job \ {i}
          PROVE  insert'[k].queue # insert'[i].queue
      <4>1. CASE k = j
        BY <4>1, <2>2, <2>3, <3>1, <3>2
      <4>2. CASE k # j
        BY <2>3, <3>1, <3>2, <4>2
      <4> QED  BY <4>1, <4>2
    <3> QED  BY <1>0, <3>1, <3>2, <3>3 DEF JobsIn
  <2>5. RightQueue'
    BY <1>0, <2>2, <2>3 DEF Fit, RightQueue
  <2> QED  BY <1>0, <2>4, <2>5 DEF Fit, Bare, NeverStricter
<1> QED  BY <1>1, <1>2 DEF Find

\* A new queue has no conditions, no jobs, and no other user.
LEMMA CreateFit ==
  ASSUME Fit, Typed', NEW j \in Job, Create(j)
  PROVE  Fit'
<1>0. /\ insert \in [Job -> InsertType] /\ insert[j] \in InsertType
      /\ UNCHANGED <<conds, queueOf>>
  BY RecordOf DEF Fit, Create
<1>1. PICK q \in NextId :
        /\ enabled' = [p \in Rows \cup {q} |-> IF p = q THEN 0 ELSE enabled[p]]
        /\ insert' = [insert EXCEPT ![j].pc = "conditions", ![j].queue = q, ![j].todo = Needs[j]]
  BY DEF Create
<1>2. q \in Queue /\ q \notin Rows /\ \A i \in Job : insert[i].queue # q
  BY NextIdIsFresh DEF Fresh
<1>3. Rows' = Rows \cup {q}
  BY <1>1 DEF Rows
<1>4. /\ insert'[j].pc = "conditions" /\ insert'[j].queue = q /\ insert'[j].todo = Needs[j]
      /\ \A k \in Job \ {j} : insert'[k] = insert[k]
  BY <1>0, <1>1 DEF InsertType
<1>5. JobsIn(q) = {} /\ conds[q] = {}
  BY <1>2 DEF Fit, NeverStricter, JobsIn, Bare
<1>6. OwnQueue'
  <2> SUFFICES ASSUME NEW i \in Job, At(i, "conditions")'
               PROVE  /\ (insert[i].todo \subseteq Needs[i])'
                      /\ (JobsIn(insert[i].queue) = {})'
                      /\ \A k \in Job \ {i} : (insert[k].queue # insert[i].queue)'
    BY DEF OwnQueue
  <2>1. CASE i = j
    BY <2>1, <1>0, <1>2, <1>4, <1>5 DEF JobsIn
  <2>2. CASE i # j
    <3>1. insert'[i] = insert[i] /\ At(i, "conditions")
      BY <2>2, <1>4 DEF At
    <3>2. /\ insert[i].todo \subseteq Needs[i]
          /\ JobsIn(insert[i].queue) = {}
          /\ \A k \in Job \ {i} : insert[k].queue # insert[i].queue
      BY <3>1 DEF Fit, OwnQueue
    <3>3. ASSUME NEW k \in Job \ {i}
          PROVE  insert'[k].queue # insert'[i].queue
      BY <1>2, <1>4, <3>1, <3>2
    <3> QED  BY <1>0, <3>1, <3>2, <3>3 DEF JobsIn
  <2> QED  BY <2>1, <2>2
<1>7. RightQueue'
  BY <1>0, <1>4, <1>5 DEF Fit, RightQueue
<1>8. Bare' /\ NeverStricter'
  BY <1>0, <1>3 DEF Fit, Bare, NeverStricter
<1> QED  BY <1>6, <1>7, <1>8 DEF Fit

\* Only the job that creates a queue is concerned by its conditions.
LEMMA AddConditionFit ==
  ASSUME Fit, Typed', NEW j \in Job, AddCondition(j)
  PROVE  Fit'
<1>0. /\ insert \in [Job -> InsertType] /\ insert[j] \in InsertType
      /\ UNCHANGED queueOf /\ Rows' = Rows
      /\ conds \in [Queue -> SUBSET Field] /\ insert[j].queue \in Queue
  BY RecordOf DEF Fit, AddCondition, Rows, Typed, TypeOK, AtWork, At
<1>1. CASE Raise(j) /\ UNCHANGED conds
  BY <1>0, <1>1, IdleKeepsFit DEF Raise
<1>2. CASE ~ (Raise(j) /\ UNCHANGED conds)
  <2> DEFINE q == insert[j].queue
  <2>1. PICK f \in insert[j].todo :
          /\ q \in Rows
          /\ conds' = [conds EXCEPT ![q] = @ \cup {f}]
          /\ insert' = [insert EXCEPT ![j].todo = @ \ {f}]
    BY <1>2 DEF AddCondition
  <2>2. /\ insert[j].todo \subseteq Needs[j]
        /\ JobsIn(q) = {}
        /\ \A k \in Job \ {j} : insert[k].queue # q
    BY DEF Fit, OwnQueue, AddCondition
  <2>3. \A k \in Job : /\ insert'[k].pc = insert[k].pc
                       /\ insert'[k].queue = insert[k].queue
                       /\ insert'[k].todo \subseteq insert[k].todo
    BY <1>0, <2>1 DEF InsertType
  <2>4. OwnQueue'
    BY <1>0, <2>3 DEF Fit, OwnQueue, At, JobsIn
  <2>5. /\ conds'[q] = conds[q] \cup {f}
        /\ \A p \in Queue \ {q} : conds'[p] = conds[p]
    BY <1>0, <2>1
  <2>6. conds[q] \subseteq Needs[j]
    BY DEF Fit, RightQueue, AddCondition, At
  <2>7. RightQueue'
    <3> SUFFICES ASSUME NEW i \in Job,
                        insert[i].pc \in {"disable", "conditions", "insert"}
                 PROVE  conds'[insert[i].queue] \subseteq Needs[i]
      BY <2>3 DEF RightQueue
    <3>1. CASE i = j
      BY <3>1, <2>1, <2>2, <2>5, <2>6
    <3>2. CASE i # j
      <4>1. insert[i].queue # q /\ insert[i].queue \in Queue
        BY <3>2, <2>2 DEF Fit, Typed, AtWork
      <4> QED  BY <4>1, <2>5 DEF Fit, RightQueue
    <3> QED  BY <3>1, <3>2
  <2>8. Bare'
    BY <1>0, <2>1, <2>5 DEF Fit, Bare
  <2>9. NeverStricter'
    <3> SUFFICES ASSUME NEW i \in Job, queueOf[i] # NoQueue
                 PROVE  queueOf[i] \in Rows /\ conds'[queueOf[i]] \subseteq Needs[i]
      BY <1>0 DEF NeverStricter
    <3>1. queueOf[i] # q /\ queueOf[i] \in Queue
      BY <2>2 DEF JobsIn, Fit, Typed, TypeOK
    <3> QED  BY <3>1, <2>5 DEF Fit, NeverStricter
  <2> QED  BY <2>4, <2>7, <2>8, <2>9 DEF Fit
<1> QED  BY <1>1, <1>2

\* The queue that a job enters is right for it, and nobody is creating it.
LEMMA EnterFit ==
  ASSUME Fit, Typed', NEW j \in Job, At(j, "insert"), NEW ok \in BOOLEAN,
         Enter(j, ok), insert[j].queue \in Rows, UNCHANGED <<enabled, conds>>
  PROVE  Fit'
<1> DEFINE q == insert[j].queue
<1>0. /\ insert \in [Job -> InsertType] /\ insert[j] \in InsertType
      /\ queueOf \in [Job -> Queue \cup {NoQueue}]
      /\ Rows' = Rows
  BY RecordOf DEF Fit, Rows, Typed, TypeOK
<1>1. /\ insert'[j].pc = "enable" /\ insert'[j].queue = q
      /\ \A k \in Job \ {j} : insert'[k] = insert[k]
  BY <1>0 DEF Enter, InsertType
<1>2. queueOf'[j] = q /\ \A k \in Job \ {j} : queueOf'[k] = queueOf[k]
  BY <1>0 DEF Enter
<1>3. OwnQueue'
  <2> SUFFICES ASSUME NEW i \in Job, At(i, "conditions")'
               PROVE  /\ (insert[i].todo \subseteq Needs[i])'
                      /\ (JobsIn(insert[i].queue) = {})'
                      /\ \A k \in Job \ {i} : (insert[k].queue # insert[i].queue)'
    BY DEF OwnQueue
  <2>1. i # j /\ insert'[i] = insert[i] /\ At(i, "conditions")
    BY <1>1 DEF At
  <2>2. /\ insert[i].todo \subseteq Needs[i]
        /\ JobsIn(insert[i].queue) = {}
        /\ \A k \in Job \ {i} : insert[k].queue # insert[i].queue
    BY <2>1 DEF Fit, OwnQueue
  <2>3. q # insert[i].queue
    BY <2>1, <2>2
  <2>4. \A k \in Job : queueOf'[k] # insert[i].queue
    BY <1>2, <2>2, <2>3 DEF JobsIn
  <2>5. \A k \in Job \ {i} : insert'[k].queue # insert'[i].queue
    BY <1>1, <2>1, <2>2
  <2> QED  BY <2>1, <2>2, <2>4, <2>5 DEF JobsIn
<1>4. RightQueue'
  BY <1>1 DEF Fit, RightQueue
<1>5. conds[q] \subseteq Needs[j]
  BY DEF Fit, RightQueue, At
<1>6. NeverStricter'
  BY <1>0, <1>2, <1>5 DEF Fit, NeverStricter
<1> QED  BY <1>0, <1>3, <1>4, <1>6 DEF Fit, Bare

\* When a try ends.
LEMMA ReturnFit ==
  ASSUME Fit, Typed', UNCHANGED <<conds, queueOf>>, Rows' = Rows,
         NEW j \in Job, Return(j)
  PROVE  Fit'
BY IdleKeepsFit, RetryKeepsFit DEF Return

LEMMA StatementFailsFit ==
  ASSUME Fit, Typed', NEW j \in Job, StatementFails(j)
  PROVE  Fit'
<1>0. UNCHANGED <<conds, queueOf>> /\ Rows' = Rows
  BY DEF StatementFails, tables, Rows
<1>1. CASE Retry(j)
  BY <1>0, <1>1, RetryKeepsFit
<1>2. CASE Goto(j, "find") \/ Goto(j, "enable")
  BY <1>0, <1>2, GotoKeepsFit
<1>3. CASE Raise(j)
  BY <1>0, <1>3, IdleKeepsFit DEF Raise
<1>4. CASE Return(j)
  BY <1>0, <1>4, ReturnFit
<1>5. CASE Refused(j)
  BY <1>0, <1>5, IdleKeepsFit DEF Refused
<1> QED  BY <1>1, <1>2, <1>3, <1>4, <1>5 DEF StatementFails

LEMMA InsertStepFit ==
  ASSUME Fit, Typed', NEW j \in Job, InsertStep(j)
  PROVE  Fit'
<1>1. CASE Find(j)
  BY <1>1, FindFit
<1>2. CASE Disable(j)
  <2>1. Rows' = Rows
    BY <1>2, AddEnabledType DEF Disable, Fit
  <2> QED  BY <1>2, <2>1, GotoKeepsFit DEF Disable, At
<1>3. CASE Create(j)
  BY <1>3, CreateFit
<1>4. CASE AddCondition(j)
  BY <1>4, AddConditionFit
<1>5. CASE Created(j)
  BY <1>5, GotoKeepsFit DEF Created, At, tables, Rows
<1>6. CASE InsertJob(j)
  <2>1. CASE insert[j].queue \in Rows
    BY <1>6, <2>1, EnterFit DEF InsertJob
  <2>2. CASE insert[j].queue \notin Rows
    BY <1>6, <2>2, GotoKeepsFit DEF InsertJob, Rows
  <2> QED  BY <2>1, <2>2
<1>7. CASE Enable(j)
  <2>1. Rows' = Rows
    BY <1>7, AddEnabledType DEF Enable, Fit
  <2> QED  BY <1>7, <2>1, ReturnFit DEF Enable
<1>8. CASE DeleteFailed(j)
  <2>1. /\ insert \in [Job -> InsertType]
        /\ queueOf \in [Job -> Queue \cup {NoQueue}]
    BY RecordOf DEF Fit, Typed, TypeOK
  <2>2. /\ insert'[j].pc = "idle" /\ insert'[j].queue = NoQueue
        /\ \A k \in Job \ {j} : insert'[k] = insert[k]
        /\ \A k \in Job : queueOf'[k] \in {queueOf[k], NoQueue}
        /\ UNCHANGED conds /\ Rows' = Rows
    BY <1>8, <2>1 DEF DeleteFailed, Refused, Idle, Rows
  <2>3. OwnQueue'
    <3> SUFFICES ASSUME NEW i \in Job, At(i, "conditions")'
                 PROVE  /\ (insert[i].todo \subseteq Needs[i])'
                        /\ (JobsIn(insert[i].queue) = {})'
                        /\ \A k \in Job \ {i} : (insert[k].queue # insert[i].queue)'
      BY DEF OwnQueue
    <3>1. insert'[i] = insert[i] /\ At(i, "conditions") /\ insert[i].queue \in Queue
      BY <2>2 DEF At, Fit, Typed, AtWork
    <3>2. /\ insert[i].todo \subseteq Needs[i]
          /\ JobsIn(insert[i].queue) = {}
          /\ \A k \in Job \ {i} : insert[k].queue # insert[i].queue
      BY <3>1 DEF Fit, OwnQueue
    <3>3. \A k \in Job \ {i} : insert'[k].queue # insert'[i].queue
      BY <2>2, <3>1, <3>2
    <3> QED  BY <2>2, <3>1, <3>2, <3>3 DEF JobsIn
  <2>4. RightQueue'
    BY <2>2 DEF Fit, RightQueue
  <2> QED  BY <2>2, <2>3, <2>4 DEF Fit, Bare, NeverStricter
<1> QED  BY <1>1, <1>2, <1>3, <1>4, <1>5, <1>6, <1>7, <1>8 DEF InsertStep

LEMMA StepFit ==
  ASSUME Fit, [Next]_vars
  PROVE  Fit'
<1>0. Typed'
  BY StepTyped DEF Fit
<1>a. \A j \in Job : queueOf[j] # NoQueue => queueOf[j] \in Queue
  BY DEF Fit, Typed, TypeOK
<1>1. ASSUME NEW j \in Job, Ask(j)
      PROVE  Fit'
  <2>1. insert \in [Job -> InsertType]
    BY RecordOf DEF Fit
  <2>2. /\ insert'[j].pc = "find" /\ insert'[j].queue = NoQueue
        /\ \A k \in Job \ {j} : insert'[k] = insert[k]
    BY <1>1, <2>1 DEF Ask, Idle
  <2> QED  BY <1>0, <1>1, <2>2, MovingKeepsFit DEF Ask, tables, Rows
<1>2. ASSUME NEW j \in Job, InsertStep(j)
      PROVE  Fit'
  BY <1>0, <1>2, InsertStepFit
<1>3. ASSUME NEW j \in Job, DeleteJob(j)
      PROVE  Fit'
  <2>1. \A i \in Job : queueOf'[i] \in {queueOf[i], NoQueue}
    BY <1>3 DEF DeleteJob, Fit, Typed, TypeOK
  <2> QED  BY <1>0, <1>a, <1>3, <2>1, TakingKeepsFit DEF DeleteJob, Rows
<1>4. ASSUME NEW j \in Job, StatementFails(j)
      PROVE  Fit'
  BY <1>0, <1>4, StatementFailsFit
<1>5. ASSUME NEW j \in Job, AnswerLost(j)
      PROVE  Fit'
  BY <1>0, <1>5, EnterFit DEF AnswerLost
<1>6. ASSUME NEW j \in Job, Crash(j)
      PROVE  Fit'
  BY <1>0, <1>6, IdleKeepsFit DEF Crash, Raise, tables, Rows
<1>7. ASSUME NEW m \in Matcher, NEW q \in Queue, ChooseQueue(m, q)
      PROVE  Fit'
  BY <1>0, <1>a, <1>7, TakingKeepsFit DEF ChooseQueue, tables, Rows
<1>8. ASSUME NEW m \in Matcher, ListJobs(m) \/ HandOut(m)
      PROVE  Fit'
  BY <1>0, <1>a, <1>8, TakingKeepsFit DEF ListJobs, HandOut, tables, Rows
<1>9. ASSUME NEW m \in Matcher, NEW j \in Job, Extract(m, j)
      PROVE  Fit'
  <2>1. \A i \in Job : queueOf'[i] \in {queueOf[i], NoQueue}
    BY <1>9 DEF Extract, Fit, Typed, TypeOK
  <2> QED  BY <1>0, <1>a, <1>9, <2>1, TakingKeepsFit DEF Extract, Rows
<1>10. ASSUME NEW c \in Cleaner, SelectOrphans(c)
       PROVE  Fit'
  BY <1>0, <1>a, <1>10, TakingKeepsFit DEF SelectOrphans, CleanerStep, Rows
<1>11. ASSUME NEW c \in Cleaner, CleanStep(c)
       PROVE  Fit'
  <2>1. CASE DeleteConditions(c)
    <3>1. \A q \in Queue : conds'[q] \subseteq conds[q]
      BY <2>1 DEF DeleteConditions
    <3> QED  BY <1>0, <1>a, <2>1, <3>1, TakingKeepsFit DEF DeleteConditions, CleanerStep, Rows
  <2>2. CASE DeleteRows(c)
    <3>1. /\ Rows' \subseteq Rows
          /\ \A q \in Rows \ Rows' : ~ Referenced(q)
      BY <2>2 DEF DeleteRows, Rows
    <3> QED  BY <1>0, <1>a, <2>2, <3>1, TakingKeepsFit DEF DeleteRows, CleanerStep
  <2> QED  BY <1>11, <2>1, <2>2 DEF CleanStep
<1>12. ASSUME EnableAll
       PROVE  Fit'
  BY <1>0, <1>a, <1>12, TakingKeepsFit DEF EnableAll, Rows
<1>13. CASE UNCHANGED vars
  BY <1>0, <1>a, <1>13, TakingKeepsFit DEF vars, tables, Rows
<1> QED
  BY <1>1, <1>2, <1>3, <1>4, <1>5, <1>6, <1>7, <1>8, <1>9, <1>10, <1>11, <1>12, <1>13 DEF Next

(***************************************************************************)
(* No job waits in a queue that cleaning has deleted or that asks more of  *)
(* a pilot than the job does, whatever the statements of inserters,        *)
(* matchers and cleaners do between each other and whichever of them fail. *)
(***************************************************************************)
THEOREM TaskQueuesNeverStricter == Spec => []NeverStricter
<1>1. Spec => []Fit
  BY InitFit, StepFit, PTL DEF Spec
<1>2. Fit => NeverStricter
  BY DEF Fit
<1> QED  BY <1>1, <1>2, PTL

-----------------------------------------------------------------------------
(***************************************************************************)
(* Enabled counts the inserters at work.                                   *)
(***************************************************************************)
Counted == Typed /\ EnabledCounts

Holds(j, q) == insert[j].queue = q /\ insert[j].pc \in {"conditions", "insert", "enable"}

LEMMA HoldersFinite ==
  ASSUME NEW q
  PROVE  IsFiniteSet(Holders(q)) /\ Cardinality(Holders(q)) \in Nat
BY FS_Subset, FS_CardinalityType DEF Holders

LEMMA InitCounted == Init => Counted
BY InitTyped DEF Init, Counted, EnabledCounts, Rows

\* One inserter moves, and with it the number of each queue, or that of a queue
\* which nobody held is 0 when it gets its row.
LEMMA OneKeepsCounted ==
  ASSUME Counted, Typed', NEW j \in Job,
         \A k \in Job \ {j} : insert'[k] = insert[k],
         upset'.counts = 0 => upset.counts = 0,
         \A q \in Rows' :
            LET was == IF q \in Rows THEN enabled[q] ELSE 1
            IN  /\ q \notin Rows => Holders(q) = {}
                /\ enabled'[q] = IF Holds(j, q) = Holds(j, q)' THEN was
                                 ELSE IF Holds(j, q)' THEN was - 1 ELSE was + 1
  PROVE  Counted'
<1> SUFFICES ASSUME upset'.counts = 0, NEW q \in Rows'
             PROVE  enabled'[q] = 1 - Cardinality(Holders(q)')
  BY DEF Counted, EnabledCounts
<1> DEFINE was == IF q \in Rows THEN enabled[q] ELSE 1
           n == Cardinality(Holders(q))
<1>1. IsFiniteSet(Holders(q)) /\ n \in Nat
  BY HoldersFinite
<1>2. was = 1 - n
  <2>1. CASE q \in Rows
    BY <2>1 DEF Counted, EnabledCounts
  <2>2. CASE q \notin Rows
    <3>1. was = 1 /\ Holders(q) = {}
      BY <2>2
    <3>2. n = 0
      BY <3>1, FS_EmptySet
    <3> QED  BY <3>1, <3>2
  <2> QED  BY <2>1, <2>2
<1>3. CASE Holds(j, q) = Holds(j, q)'
  <2>1. Holders(q)' = Holders(q)
    BY <1>3 DEF Holders, Holds
  <2> QED  BY <1>2, <1>3, <2>1
<1>4. CASE ~ Holds(j, q) /\ Holds(j, q)'
  <2>1. Holders(q)' = Holders(q) \cup {j} /\ j \notin Holders(q)
    BY <1>4 DEF Holders, Holds
  <2>2. Cardinality(Holders(q)') = n + 1
    <3>1. Cardinality(Holders(q) \cup {j}) = n + 1
      BY <1>1, <2>1, FS_AddElement
    <3> QED  BY <2>1, <3>1
  <2>3. enabled'[q] = was - 1
    BY <1>4
  <2> QED  BY <1>1, <1>2, <2>2, <2>3
<1>5. CASE Holds(j, q) /\ ~ Holds(j, q)'
  <2>1. Holders(q)' = Holders(q) \ {j} /\ j \in Holders(q)
    BY <1>5 DEF Holders, Holds
  <2>2. Cardinality(Holders(q)') = n - 1
    BY <1>1, <2>1, FS_RemoveElement
  <2>3. enabled'[q] = was + 1
    BY <1>5
  <2> QED  BY <1>1, <1>2, <2>2, <2>3
<1> QED  BY <1>3, <1>4, <1>5 DEF Holds

\* Nobody takes or gives back a queue, and no count changes.
LEMMA NoneKeepsCounted ==
  ASSUME Counted, Typed', UNCHANGED insert,
         upset'.counts = 0 => upset.counts = 0,
         Rows' \subseteq Rows, \A q \in Rows' : enabled'[q] = enabled[q]
  PROVE  Counted'
<1>1. \A q : Holders(q)' = Holders(q)
  BY DEF Holders
<1> QED  BY <1>1 DEF Counted, EnabledCounts

\* A lost count is remembered.
LEMMA UpsetCounts ==
  ASSUME Typed, NEW kind \in {"counts", "errors"}, Upset(kind)
  PROVE  /\ upset'.counts = 0 => upset.counts = 0
         /\ kind = "counts" => upset'.counts # 0
BY DEF Typed, TypeOK, Upset

LEMMA LostKeepsCounted ==
  ASSUME Counted, Typed', Upset("counts")
  PROVE  Counted'
<1>1. upset'.counts # 0
  BY UpsetCounts DEF Counted
<1> QED  BY <1>1 DEF Counted, EnabledCounts

\* The records of an inserter after its steps.
LEMMA GotoRecord ==
  ASSUME Typed, NEW j \in Job, NEW pc, Goto(j, pc)
  PROVE  /\ insert'[j].pc = pc /\ insert'[j].queue = insert[j].queue
         /\ \A k \in Job \ {j} : insert'[k] = insert[k]
<1>1. insert \in [Job -> InsertType] /\ insert[j] \in InsertType
  BY RecordOf
<1> QED  BY <1>1 DEF Goto, InsertType

LEMMA IdleRecord ==
  ASSUME Typed, NEW j \in Job,
         insert' = [insert EXCEPT ![j] = Idle] \/ Retry(j)
  PROVE  /\ insert'[j].pc \notin {"conditions", "insert", "enable"}
         /\ \A k \in Job \ {j} : insert'[k] = insert[k]
<1>1. insert \in [Job -> InsertType]
  BY RecordOf
<1>2. CASE insert' = [insert EXCEPT ![j] = Idle]
  BY <1>1, <1>2 DEF Idle
<1>3. CASE Retry(j)
  <2>1. insert'[j].pc \in {"find", "delete"}
    BY <1>1, <1>3 DEF Idle, Retry
  <2> QED  BY <1>1, <1>3, <2>1 DEF Retry
<1> QED  BY <1>2, <1>3

\* Enabled of one queue.
LEMMA AddEnabledCount ==
  ASSUME Typed, NEW q, NEW n \in Int, AddEnabled(q, n)
  PROVE  /\ Rows' = Rows
         /\ \A p \in Rows : /\ enabled[p] \in Int
                           /\ enabled'[p] = IF p = q THEN enabled[p] + n ELSE enabled[p]
BY DEF Typed, TypeOK, AddEnabled, Rows

\* A step that leaves the counts alone and in which nobody takes a queue or
\* gives one back that has a row.
LEMMA SameKeepsCounted ==
  ASSUME Counted, Typed', UNCHANGED enabled, NEW j \in Job,
         \A k \in Job \ {j} : insert'[k] = insert[k],
         upset'.counts = 0 => upset.counts = 0,
         \A q \in Rows : Holds(j, q) = Holds(j, q)'
  PROVE  Counted'
<1>1. Rows' = Rows
  BY DEF Rows
<1> QED  BY <1>1, OneKeepsCounted

LEMMA InsertStepCounted ==
  ASSUME Counted, Typed', NEW j \in Job, InsertStep(j)
  PROVE  Counted'
<1>0. /\ Typed
      /\ insert \in [Job -> InsertType] /\ insert[j] \in InsertType
  BY RecordOf DEF Counted
<1>1. CASE Find(j)
  <2>1. /\ insert[j].pc = "find" /\ insert'[j].pc \in {"disable", "create"}
        /\ \A k \in Job \ {j} : insert'[k] = insert[k]
        /\ UNCHANGED <<enabled, upset>>
    BY <1>0, <1>1 DEF Find, At, Goto, tables, InsertType
  <2> QED  BY <2>1, SameKeepsCounted DEF Holds
<1>2. CASE Disable(j)
  <2>1. /\ insert[j].pc = "disable" /\ insert'[j].pc = "insert"
        /\ insert'[j].queue = insert[j].queue
        /\ \A k \in Job \ {j} : insert'[k] = insert[k]
    BY <1>0, <1>2, GotoRecord DEF Disable, At
  <2>2. /\ Rows' = Rows /\ UNCHANGED upset
        /\ \A p \in Rows : /\ enabled[p] \in Int
                          /\ enabled'[p] = IF p = insert[j].queue THEN enabled[p] + (-1)
                                           ELSE enabled[p]
    BY <1>0, <1>2, AddEnabledCount DEF Disable
  <2> QED  BY <2>1, <2>2, OneKeepsCounted DEF Holds
<1>3. CASE Create(j)
  <2>1. PICK q \in NextId :
          /\ enabled' = [p \in Rows \cup {q} |-> IF p = q THEN 0 ELSE enabled[p]]
          /\ insert' = [insert EXCEPT ![j].pc = "conditions", ![j].queue = q, ![j].todo = Needs[j]]
    BY <1>3 DEF Create
  <2>2. q \notin Rows /\ \A i \in Job : insert[i].queue # q
    BY NextIdIsFresh DEF Fresh
  <2>3. /\ Rows' = Rows \cup {q} /\ enabled'[q] = 0
        /\ \A p \in Rows : enabled'[p] = enabled[p]
    BY <2>1, <2>2 DEF Rows
  <2>4. /\ insert'[j].pc = "conditions" /\ insert'[j].queue = q
        /\ \A k \in Job \ {j} : insert'[k] = insert[k]
    BY <1>0, <2>1 DEF InsertType
  <2>5. insert[j].pc = "create" /\ UNCHANGED upset
    BY <1>3 DEF Create, At
  <2>6. Holders(q) = {}
    BY <2>2 DEF Holders
  <2>7. \A p \in Rows : Holds(j, p) = Holds(j, p)'
    BY <2>2, <2>4, <2>5 DEF Holds
  <2>8. ~ Holds(j, q) /\ Holds(j, q)'
    BY <2>2, <2>4 DEF Holds
  <2> QED  BY <2>2, <2>3, <2>4, <2>5, <2>6, <2>7, <2>8, OneKeepsCounted
<1>4. CASE AddCondition(j)
  <2>1. /\ \A k \in Job \ {j} : insert'[k] = insert[k]
        /\ UNCHANGED <<enabled, upset>>
    BY <1>0, <1>4 DEF AddCondition, Raise
  <2>2. \/ /\ insert'[j].pc = insert[j].pc
           /\ insert'[j].queue = insert[j].queue
        \/ insert[j].queue \notin Rows /\ insert'[j].pc = "idle"
    BY <1>0, <1>4 DEF AddCondition, Raise, Idle, InsertType
  <2> QED  BY <2>1, <2>2, SameKeepsCounted DEF Holds
<1>5. CASE Created(j)
  <2>1. /\ insert[j].pc = "conditions" /\ insert'[j].pc = "insert"
        /\ insert'[j].queue = insert[j].queue
        /\ \A k \in Job \ {j} : insert'[k] = insert[k]
        /\ UNCHANGED <<enabled, upset>>
    BY <1>0, <1>5, GotoRecord DEF Created, At, tables
  <2> QED  BY <2>1, SameKeepsCounted DEF Holds
<1>6. CASE InsertJob(j)
  <2>1. /\ insert[j].pc = "insert" /\ insert'[j].pc = "enable"
        /\ insert'[j].queue = insert[j].queue
        /\ \A k \in Job \ {j} : insert'[k] = insert[k]
        /\ UNCHANGED <<enabled, upset>>
    BY <1>0, <1>6 DEF InsertJob, At, Enter, Goto, InsertType
  <2> QED  BY <2>1, SameKeepsCounted DEF Holds
<1>7. CASE Enable(j)
  <2>1. /\ insert[j].pc = "enable" /\ insert'[j].pc \notin {"conditions", "insert", "enable"}
        /\ \A k \in Job \ {j} : insert'[k] = insert[k]
    BY <1>0, <1>7, IdleRecord DEF Enable, At, Return
  <2>2. /\ Rows' = Rows /\ UNCHANGED upset
        /\ \A p \in Rows : /\ enabled[p] \in Int
                          /\ enabled'[p] = IF p = insert[j].queue THEN enabled[p] + 1
                                           ELSE enabled[p]
    BY <1>0, <1>7, AddEnabledCount DEF Enable
  <2> QED  BY <2>1, <2>2, OneKeepsCounted DEF Holds
<1>8. CASE DeleteFailed(j)
  <2>1. /\ insert[j].pc = "delete" /\ insert'[j].pc \notin {"conditions", "insert", "enable"}
        /\ \A k \in Job \ {j} : insert'[k] = insert[k]
        /\ UNCHANGED <<enabled, upset>>
    BY <1>0, <1>8, IdleRecord DEF DeleteFailed, Refused, At
  <2> QED  BY <2>1, SameKeepsCounted DEF Holds
<1> QED  BY <1>1, <1>2, <1>3, <1>4, <1>5, <1>6, <1>7, <1>8, InsertStep(j) DEF InsertStep

LEMMA StatementFailsCounted ==
  ASSUME Counted, Typed', NEW j \in Job, StatementFails(j)
  PROVE  Counted'
<1>0. Typed /\ UNCHANGED enabled
  BY DEF Counted, StatementFails, tables
<1>1. CASE Upset("counts")
  BY <1>1, LostKeepsCounted
<1>2. CASE At(j, "find") /\ Retry(j) /\ Upset("errors")
  <2>1. /\ insert'[j].pc \notin {"conditions", "insert", "enable"}
        /\ \A k \in Job \ {j} : insert'[k] = insert[k]
        /\ upset'.counts = 0 => upset.counts = 0
    BY <1>0, <1>2, IdleRecord, UpsetCounts
  <2> QED  BY <1>0, <1>2, <2>1, SameKeepsCounted DEF Holds, At
<1>3. CASE At(j, "disable") /\ Goto(j, "find") /\ Upset("errors")
  <2>1. /\ insert'[j].pc = "find"
        /\ \A k \in Job \ {j} : insert'[k] = insert[k]
        /\ upset'.counts = 0 => upset.counts = 0
    BY <1>0, <1>3, GotoRecord, UpsetCounts
  <2> QED  BY <1>0, <1>3, <2>1, SameKeepsCounted DEF Holds, At
<1>4. CASE At(j, "create") /\ Raise(j) /\ Upset("errors")
  <2>1. /\ insert'[j].pc \notin {"conditions", "insert", "enable"}
        /\ \A k \in Job \ {j} : insert'[k] = insert[k]
        /\ upset'.counts = 0 => upset.counts = 0
    BY <1>0, <1>4, IdleRecord, UpsetCounts DEF Raise
  <2> QED  BY <1>0, <1>4, <2>1, SameKeepsCounted DEF Holds, At
<1>5. CASE At(j, "insert") /\ Goto(j, "enable") /\ Upset("errors")
  <2>1. /\ insert'[j].pc = "enable" /\ insert'[j].queue = insert[j].queue
        /\ \A k \in Job \ {j} : insert'[k] = insert[k]
        /\ upset'.counts = 0 => upset.counts = 0
    BY <1>0, <1>5, GotoRecord, UpsetCounts
  <2> QED  BY <1>0, <1>5, <2>1, SameKeepsCounted DEF Holds, At
<1>6. CASE At(j, "delete") /\ Refused(j) /\ Upset("errors")
  <2>1. /\ insert'[j].pc \notin {"conditions", "insert", "enable"}
        /\ \A k \in Job \ {j} : insert'[k] = insert[k]
        /\ upset'.counts = 0 => upset.counts = 0
    BY <1>0, <1>6, IdleRecord, UpsetCounts DEF Refused
  <2> QED  BY <1>0, <1>6, <2>1, SameKeepsCounted DEF Holds, At
<1> QED  BY <1>1, <1>2, <1>3, <1>4, <1>5, <1>6, StatementFails(j) DEF StatementFails

LEMMA StepCounted ==
  ASSUME Counted, [Next]_vars
  PROVE  Counted'
<1>0. Typed /\ Typed'
  BY StepTyped DEF Counted
<1>1. ASSUME NEW j \in Job, Ask(j)
      PROVE  Counted'
  <2>1. /\ insert[j].pc = "idle" /\ insert'[j].pc = "find"
        /\ \A k \in Job \ {j} : insert'[k] = insert[k]
        /\ UNCHANGED <<enabled, upset>>
    BY <1>0, <1>1, RecordOf DEF Ask, At, Idle, tables
  <2> QED  BY <1>0, <2>1, SameKeepsCounted DEF Holds
<1>2. ASSUME NEW j \in Job, InsertStep(j)
      PROVE  Counted'
  BY <1>0, <1>2, InsertStepCounted
<1>4. ASSUME NEW j \in Job, StatementFails(j)
      PROVE  Counted'
  BY <1>0, <1>4, StatementFailsCounted
<1>5. ASSUME NEW j \in Job, AnswerLost(j)
      PROVE  Counted'
  <2>1. /\ insert[j].pc = "insert" /\ insert'[j].pc = "enable"
        /\ insert'[j].queue = insert[j].queue
        /\ \A k \in Job \ {j} : insert'[k] = insert[k]
    BY <1>0, <1>5, RecordOf DEF AnswerLost, At, Enter, InsertType
  <2>2. upset'.counts = 0 => upset.counts = 0
    BY <1>0, <1>5, UpsetCounts DEF AnswerLost
  <2> QED  BY <1>0, <1>5, <2>1, <2>2, SameKeepsCounted DEF Holds, AnswerLost
<1>6. ASSUME NEW j \in Job, Crash(j)
      PROVE  Counted'
  BY <1>0, <1>6, LostKeepsCounted DEF Crash
<1>7. ASSUME UNCHANGED <<enabled, insert, upset>>
      PROVE  Counted'
  BY <1>0, <1>7, NoneKeepsCounted DEF Rows
<1>8. ASSUME NEW c \in Cleaner, DeleteRows(c)
      PROVE  Counted'
  <2>1. Rows' \subseteq Rows /\ \A q \in Rows' : enabled'[q] = enabled[q]
    BY <1>8 DEF DeleteRows, Rows
  <2> QED  BY <1>0, <1>8, <2>1, NoneKeepsCounted DEF DeleteRows, CleanerStep
<1>9. ASSUME EnableAll
      PROVE  Counted'
  BY <1>0, <1>9, LostKeepsCounted DEF EnableAll
<1>10. ASSUME \/ \E j \in Job : DeleteJob(j)
              \/ \E m \in Matcher, q \in Queue : ChooseQueue(m, q)
              \/ \E m \in Matcher : ListJobs(m) \/ HandOut(m)
              \/ \E m \in Matcher, j \in Job : Extract(m, j)
              \/ \E c \in Cleaner : SelectOrphans(c) \/ DeleteConditions(c)
              \/ UNCHANGED vars
       PROVE  UNCHANGED <<enabled, insert, upset>>
  BY <1>10 DEF DeleteJob, ChooseQueue, ListJobs, HandOut, Extract, SelectOrphans,
               DeleteConditions, CleanerStep, vars, tables
<1> QED
  BY <1>1, <1>2, <1>4, <1>5, <1>6, <1>7, <1>8, <1>9, <1>10 DEF Next, CleanStep

(***************************************************************************)
(* While no process dies and no count is lost, the Enabled of a queue is 1 *)
(* less the number of those who insert into it: additions and subtractions *)
(* of any number of inserters balance, also when cleaning deletes a queue  *)
(* under them.                                                             *)
(***************************************************************************)
THEOREM TaskQueuesEnabledCounts == Spec => []EnabledCounts
<1>1. Spec => []Counted
  BY InitCounted, StepCounted, PTL DEF Spec
<1>2. Counted => EnabledCounts
  BY DEF Counted
<1> QED  BY <1>1, <1>2, PTL

-----------------------------------------------------------------------------
(***************************************************************************)
(* The queues implement the pool.                                          *)
(***************************************************************************)
\* What has been told of a job fits the place of its insertion; an insertion
\* that is about to confirm has seen the job enter.
Truthful ==
    \A j \in Job :
        /\ At(j, "idle") => told[j] \in {"none", "ok", "error"}
        /\ ~ At(j, "idle") => told[j] \in {"asked", "entered"}
        /\ insert[j].ok => At(j, "enable") /\ told[j] = "entered"

Told == Typed /\ Truthful

PoolOf == {j \in Job : queueOf[j] # NoQueue}
HandsOf == [m \in Matcher |-> IF match[m].pc = "got" THEN match[m].list ELSE {}]

LEMMA InitTold == Init => Told /\ Pool!PoolInit
BY InitTyped DEF Init, Told, Truthful, At, Idle, NotMatching, Pool!PoolInit

\* One inserter moves, and what is told of its job with it.
LEMMA OneKeepsTold ==
  ASSUME Told, Typed', NEW j \in Job,
         \A k \in Job \ {j} : insert'[k] = insert[k] /\ told'[k] = told[k],
         insert'[j].pc = "idle" => told'[j] \in {"none", "ok", "error"},
         insert'[j].pc # "idle" => told'[j] \in {"asked", "entered"},
         insert'[j].ok => insert'[j].pc = "enable" /\ told'[j] = "entered"
  PROVE  Told'
BY DEF Told, Truthful, At

LEMMA IdleTold ==
  ASSUME Told, Typed', NEW j \in Job, insert' = [insert EXCEPT ![j] = Idle],
         NEW word \in {"none", "ok", "error"}, Tell(j, word)
  PROVE  Told'
<1>1. insert \in [Job -> InsertType] /\ told \in [Job -> {"none", "asked", "entered", "ok", "error"}]
  BY RecordOf DEF Told, Typed, TypeOK
<1>2. insert'[j].pc = "idle" /\ ~ insert'[j].ok /\ told'[j] = word
  BY <1>1 DEF Idle, Tell
<1>3. \A k \in Job \ {j} : insert'[k] = insert[k] /\ told'[k] = told[k]
  BY <1>1 DEF Tell
<1> QED  BY <1>2, <1>3, OneKeepsTold

LEMMA RetryTold ==
  ASSUME Told, Typed', NEW j \in Job, ~ At(j, "idle"), Retry(j), UNCHANGED told
  PROVE  Told'
<1>1. insert \in [Job -> InsertType]
  BY RecordOf DEF Told
<1>2. insert'[j].pc \in {"find", "delete"} /\ ~ insert'[j].ok
  BY <1>1 DEF Retry, Idle
<1>3. \A k \in Job \ {j} : insert'[k] = insert[k] /\ told'[k] = told[k]
  BY <1>1 DEF Retry
<1> QED  BY <1>2, <1>3, OneKeepsTold DEF Told, Truthful

LEMMA GotoTold ==
  ASSUME Told, Typed', NEW j \in Job, ~ At(j, "idle"), ~ At(j, "enable"),
         NEW pc, pc # "idle", Goto(j, pc), UNCHANGED told
  PROVE  Told'
<1>1. insert \in [Job -> InsertType] /\ insert[j] \in InsertType
  BY RecordOf DEF Told
<1>2. insert'[j].pc = pc /\ insert'[j].ok = insert[j].ok
  BY <1>1 DEF Goto, InsertType
<1>3. \A k \in Job \ {j} : insert'[k] = insert[k] /\ told'[k] = told[k]
  BY <1>1 DEF Goto
<1> QED  BY <1>2, <1>3, OneKeepsTold DEF Told, Truthful

LEMMA EnterTold ==
  ASSUME Told, Typed', NEW j \in Job, At(j, "insert"), NEW ok \in BOOLEAN, Enter(j, ok)
  PROVE  Told'
<1>1. /\ insert \in [Job -> InsertType] /\ insert[j] \in InsertType
      /\ told \in [Job -> {"none", "asked", "entered", "ok", "error"}]
  BY RecordOf DEF Told, Typed, TypeOK
<1>2. insert'[j].pc = "enable" /\ told'[j] = "entered"
  BY <1>1 DEF Enter, Tell, InsertType
<1>3. \A k \in Job \ {j} : insert'[k] = insert[k] /\ told'[k] = told[k]
  BY <1>1 DEF Enter, Tell
<1> QED  BY <1>2, <1>3, OneKeepsTold

LEMMA ReturnTold ==
  ASSUME Told, Typed', NEW j \in Job, At(j, "enable"), Return(j)
  PROVE  Told'
BY IdleTold, RetryTold DEF Return, At

\* A step that changes nothing of an insertion but its queue and conditions.
LEMMA SameTold ==
  ASSUME Told, Typed', UNCHANGED told,
         \A k \in Job : insert'[k].pc = insert[k].pc /\ insert'[k].ok = insert[k].ok
  PROVE  Told'
BY DEF Told, Truthful, At

LEMMA InsertStepTold ==
  ASSUME Told, Typed', NEW j \in Job, InsertStep(j)
  PROVE  Told'
<1>0. /\ insert \in [Job -> InsertType] /\ insert[j] \in InsertType
  BY RecordOf DEF Told
<1>1. CASE Find(j)
  <2>1. /\ insert'[j].pc # "idle" /\ insert'[j].ok = insert[j].ok /\ insert[j].pc = "find"
        /\ \A k \in Job \ {j} : insert'[k] = insert[k]
        /\ UNCHANGED told
    BY <1>0, <1>1 DEF Find, Goto, At, InsertType
  <2> QED  BY <2>1, OneKeepsTold DEF Told, Truthful, At
<1>2. CASE Disable(j)
  BY <1>2, GotoTold DEF Disable, At
<1>3. CASE Create(j)
  <2>1. /\ insert'[j].pc # "idle" /\ insert'[j].ok = insert[j].ok /\ insert[j].pc = "create"
        /\ \A k \in Job \ {j} : insert'[k] = insert[k]
        /\ UNCHANGED told
    BY <1>0, <1>3 DEF Create, At, InsertType
  <2> QED  BY <2>1, OneKeepsTold DEF Told, Truthful, At
<1>4. CASE AddCondition(j)
  <2>1. CASE Raise(j)
    BY <2>1, IdleTold DEF Raise
  <2>2. CASE ~ Raise(j)
    <3>1. /\ UNCHANGED told
          /\ \A k \in Job : insert'[k].pc = insert[k].pc /\ insert'[k].ok = insert[k].ok
      BY <1>0, <1>4, <2>2 DEF AddCondition, InsertType
    <3> QED  BY <3>1, SameTold
  <2> QED  BY <2>1, <2>2
<1>5. CASE Created(j)
  BY <1>5, GotoTold DEF Created, At
<1>6. CASE InsertJob(j)
  BY <1>6, EnterTold, GotoTold DEF InsertJob, At
<1>7. CASE Enable(j)
  BY <1>7, ReturnTold DEF Enable
<1>8. CASE DeleteFailed(j)
  BY <1>8, IdleTold DEF DeleteFailed, Refused
<1> QED  BY <1>1, <1>2, <1>3, <1>4, <1>5, <1>6, <1>7, <1>8, InsertStep(j) DEF InsertStep

LEMMA StepTold ==
  ASSUME Told, [Next]_vars
  PROVE  Told'
<1>0. Typed /\ Typed'
  BY StepTyped DEF Told
<1>1. ASSUME NEW j \in Job, Ask(j)
      PROVE  Told'
  <2>1. /\ insert \in [Job -> InsertType]
        /\ told \in [Job -> {"none", "asked", "entered", "ok", "error"}]
    BY RecordOf DEF Told, Typed, TypeOK
  <2>2. /\ insert'[j].pc = "find" /\ ~ insert'[j].ok /\ told'[j] = "asked"
        /\ \A k \in Job \ {j} : insert'[k] = insert[k] /\ told'[k] = told[k]
    BY <1>1, <2>1 DEF Ask, Idle, Tell
  <2> QED  BY <1>0, <2>2, OneKeepsTold
<1>2. ASSUME NEW j \in Job, InsertStep(j)
      PROVE  Told'
  BY <1>0, <1>2, InsertStepTold
<1>3. ASSUME NEW j \in Job, StatementFails(j)
      PROVE  Told'
  <2>1. CASE At(j, "find") /\ Retry(j) /\ UNCHANGED told
    BY <1>0, <2>1, RetryTold DEF At
  <2>2. CASE At(j, "disable") /\ Goto(j, "find") /\ UNCHANGED told
    BY <1>0, <2>2, GotoTold DEF At
  <2>3. CASE Raise(j)
    BY <1>0, <2>3, IdleTold DEF Raise
  <2>4. CASE At(j, "insert") /\ Goto(j, "enable") /\ UNCHANGED told
    BY <1>0, <2>4, GotoTold DEF At
  <2>5. CASE At(j, "enable") /\ Return(j)
    BY <1>0, <2>5, ReturnTold
  <2>6. CASE Refused(j)
    BY <1>0, <2>6, IdleTold DEF Refused
  <2> QED  BY <1>3, <2>1, <2>2, <2>3, <2>4, <2>5, <2>6 DEF StatementFails
<1>4. ASSUME NEW j \in Job, AnswerLost(j)
      PROVE  Told'
  BY <1>0, <1>4, EnterTold DEF AnswerLost
<1>5. ASSUME NEW j \in Job, Crash(j)
      PROVE  Told'
  BY <1>0, <1>5, IdleTold DEF Crash, Raise
<1>6. ASSUME UNCHANGED <<insert, told>>
      PROVE  Told'
  BY <1>0, <1>6 DEF Told, Truthful, At
<1>7. ASSUME \/ \E j \in Job : DeleteJob(j)
             \/ \E m \in Matcher, q \in Queue : ChooseQueue(m, q)
             \/ \E m \in Matcher : ListJobs(m) \/ HandOut(m)
             \/ \E m \in Matcher, j \in Job : Extract(m, j)
             \/ \E c \in Cleaner : SelectOrphans(c) \/ CleanStep(c)
             \/ EnableAll
             \/ UNCHANGED vars
      PROVE  UNCHANGED <<insert, told>>
  BY <1>7 DEF DeleteJob, ChooseQueue, ListJobs, HandOut, Extract, SelectOrphans, CleanStep,
              DeleteConditions, DeleteRows, CleanerStep, EnableAll, vars
<1> QED  BY <1>1, <1>2, <1>3, <1>4, <1>5, <1>6, <1>7 DEF Next

\* The steps of an inserter are steps of the pool.
LEMMA EnterIsEnter ==
  ASSUME Told, NEW j \in Job, At(j, "insert"), NEW ok \in BOOLEAN, Enter(j, ok),
         insert[j].queue \in Rows, Others
  PROVE  Pool!Enter(j)
<1>1. insert[j].queue # NoQueue /\ queueOf \in [Job -> Queue \cup {NoQueue}]
  BY DEF Told, Typed, TypeOK
<1>2. PoolOf' = PoolOf \cup {j}
  BY <1>1 DEF PoolOf, Enter
<1>3. told[j] \in {"asked", "entered"}
  BY DEF Told, Truthful, At
<1> QED  BY <1>2, <1>3 DEF Pool!Enter, PoolOf, Enter, Tell, Others

LEMMA RaiseIsAbandon ==
  ASSUME Told, NEW j \in Job, ~ At(j, "idle"), Raise(j), UNCHANGED queueOf, Others
  PROVE  Pool!Abandon(j)
<1>1. told[j] \in {"asked", "entered"}
  BY DEF Told, Truthful
<1> QED  BY <1>1 DEF Pool!Abandon, Raise, Tell, Others

LEMMA ReturnIsConfirm ==
  ASSUME Told, NEW j \in Job, At(j, "enable"), Return(j), UNCHANGED queueOf, Others
  PROVE  Pool!Confirm(j) \/ UNCHANGED Pool!poolvars
<1>1. CASE insert[j].ok /\ Tell(j, "ok")
  <2>1. told[j] = "entered"
    BY <1>1 DEF Told, Truthful
  <2> QED  BY <1>1, <2>1 DEF Pool!Confirm, Tell, Others
<1>2. CASE UNCHANGED told
  BY <1>2 DEF Pool!poolvars, Others
<1> QED  BY <1>1, <1>2 DEF Return

\* Every step of the queues is a step of the pool, or none.
LEMMA StepImplements ==
  ASSUME Told, [Next]_vars
  PROVE  Pool!PoolNext \/ UNCHANGED Pool!poolvars
<1>1. ASSUME NEW j \in Job, Ask(j)
      PROVE  Pool!Ask(j)
  <2>1. told[j] \in {"none", "ok", "error"}
    BY <1>1 DEF Ask, Told, Truthful
  <2> QED  BY <1>1, <2>1 DEF Ask, Pool!Ask, Tell, Others, tables
<1>2. ASSUME NEW j \in Job, InsertStep(j)
      PROVE  \/ Pool!Enter(j) \/ Pool!Confirm(j) \/ Pool!Refuse(j) \/ Pool!Abandon(j)
             \/ UNCHANGED Pool!poolvars
  <2>1. CASE Find(j) \/ Disable(j) \/ Create(j) \/ Created(j)
    BY <2>1 DEF Find, Disable, Create, Created, Others, tables, Pool!poolvars
  <2>2. CASE AddCondition(j)
    <3>1. CASE Raise(j)
      BY <2>2, <3>1, RaiseIsAbandon DEF AddCondition, At
    <3>2. CASE ~ Raise(j)
      BY <2>2, <3>2 DEF AddCondition, Others, Pool!poolvars
    <3> QED  BY <3>1, <3>2
  <2>3. CASE InsertJob(j)
    <3>1. CASE insert[j].queue \in Rows
      BY <2>3, <3>1, EnterIsEnter DEF InsertJob
    <3>2. CASE insert[j].queue \notin Rows
      BY <2>3, <3>2 DEF InsertJob, Others, Pool!poolvars
    <3> QED  BY <3>1, <3>2
  <2>4. CASE Enable(j)
    BY <2>4, ReturnIsConfirm DEF Enable
  <2>5. CASE DeleteFailed(j)
    <3>1. told[j] \in {"asked", "entered"} /\ queueOf \in [Job -> Queue \cup {NoQueue}]
      BY <2>5 DEF DeleteFailed, Told, Truthful, At, Typed, TypeOK
    <3>2. PoolOf' = PoolOf \ {j}
      BY <2>5, <3>1 DEF DeleteFailed, PoolOf
    <3> QED  BY <2>5, <3>1, <3>2 DEF DeleteFailed, Refused, PoolOf, Pool!Refuse, Tell, Others
  <2> QED  BY <1>2, <2>1, <2>2, <2>3, <2>4, <2>5 DEF InsertStep
<1>3. ASSUME NEW j \in Job, DeleteJob(j)
      PROVE  Pool!Remove(j)
  <2>1. queueOf \in [Job -> Queue \cup {NoQueue}]
    BY DEF Told, Typed, TypeOK
  <2>2. j \in PoolOf /\ PoolOf' = PoolOf \ {j}
    BY <1>3, <2>1 DEF DeleteJob, PoolOf
  <2> QED  BY <1>3, <2>2 DEF DeleteJob, PoolOf, Pool!Remove
<1>4. ASSUME NEW j \in Job, StatementFails(j)
      PROVE  \/ Pool!Confirm(j) \/ Pool!Abandon(j) \/ Pool!Refuse(j)
             \/ UNCHANGED Pool!poolvars
  <2>1. CASE UNCHANGED told
    BY <1>4, <2>1 DEF StatementFails, tables, Others, Pool!poolvars
  <2>2. CASE ~ At(j, "idle") /\ Raise(j)
    BY <1>4, <2>2, RaiseIsAbandon DEF StatementFails, tables
  <2>3. CASE At(j, "enable") /\ Return(j)
    BY <1>4, <2>3, ReturnIsConfirm DEF StatementFails, tables
  <2>4. CASE At(j, "delete") /\ Refused(j)
    <3>1. told[j] \in {"asked", "entered"}
      BY <2>4 DEF Told, Truthful, At
    <3> QED  BY <1>4, <2>4, <3>1 DEF StatementFails, Refused, PoolOf, Pool!Refuse, Tell, Others, tables
  <2> QED  BY <1>4, <2>1, <2>2, <2>3, <2>4 DEF StatementFails, At
<1>5. ASSUME NEW j \in Job, AnswerLost(j)
      PROVE  Pool!Enter(j)
  BY <1>5, EnterIsEnter DEF AnswerLost
<1>6. ASSUME NEW j \in Job, Crash(j)
      PROVE  Pool!Abandon(j)
  BY <1>6, RaiseIsAbandon DEF Crash, tables
<1>7. ASSUME NEW m \in Matcher,
             \/ \E q \in Queue : ChooseQueue(m, q)
             \/ ListJobs(m)
      PROVE  UNCHANGED Pool!poolvars
  <2>1. /\ match \in [Matcher -> MatchType]
        /\ UNCHANGED <<queueOf, told>>
    BY <1>7 DEF ChooseQueue, ListJobs, tables, Told, Typed, TypeOK, MatchType
  <2>2. /\ match[m].pc # "got" /\ match'[m].pc # "got"
        /\ \A k \in Matcher \ {m} : match'[k] = match[k]
    BY <1>7, <2>1 DEF ChooseQueue, ListJobs, NotMatching
  <2>3. HandsOf' = HandsOf
    BY <2>2 DEF HandsOf
  <2> QED  BY <2>1, <2>3 DEF HandsOf, Pool!poolvars
<1>8. ASSUME NEW m \in Matcher, NEW j \in Job, Extract(m, j)
      PROVE  Pool!Take(m, j) \/ UNCHANGED Pool!poolvars
  <2>1. /\ match \in [Matcher -> MatchType] /\ match[m].pc = "extract"
        /\ queueOf \in [Job -> Queue \cup {NoQueue}]
        /\ UNCHANGED told
    BY <1>8 DEF Extract, Told, Typed, TypeOK, MatchType
  <2>2. CASE queueOf[j] # NoQueue
    <3>1. j \in PoolOf /\ PoolOf' = PoolOf \ {j}
      BY <1>8, <2>1, <2>2 DEF Extract, PoolOf
    <3>2. HandsOf[m] = {}
      BY <2>1 DEF HandsOf
    <3>3. /\ match'[m].pc = "got" /\ match'[m].list = {j}
          /\ \A k \in Matcher \ {m} : match'[k] = match[k]
      BY <1>8, <2>1, <2>2 DEF Extract, Got
    <3>4. HandsOf' = [HandsOf EXCEPT ![m] = {j}]
      BY <3>3 DEF HandsOf
    <3> QED  BY <2>1, <3>1, <3>2, <3>4 DEF PoolOf, HandsOf, Pool!Take
  <2>3. CASE queueOf[j] = NoQueue
    <3>1. /\ match'[m].pc # "got" /\ UNCHANGED queueOf
          /\ \A k \in Matcher \ {m} : match'[k] = match[k]
      BY <1>8, <2>1, <2>3 DEF Extract, NotMatching
    <3>2. HandsOf' = HandsOf
      BY <2>1, <3>1 DEF HandsOf
    <3> QED  BY <2>1, <3>1, <3>2 DEF HandsOf, Pool!poolvars
  <2> QED  BY <2>2, <2>3
<1>9. ASSUME NEW m \in Matcher, HandOut(m)
      PROVE  Pool!HandOver(m)
  <2>1. match \in [Matcher -> MatchType] /\ UNCHANGED <<queueOf, told>>
    BY <1>9 DEF HandOut, tables, Told, Typed, TypeOK, MatchType
  <2>2. /\ match'[m].pc = "idle"
        /\ \A k \in Matcher \ {m} : match'[k] = match[k]
    BY <1>9, <2>1 DEF HandOut, NotMatching
  <2>3. HandsOf' = [HandsOf EXCEPT ![m] = {}]
    BY <2>2 DEF HandsOf
  <2> QED  BY <2>1, <2>3 DEF HandsOf, Pool!HandOver
<1>10. ASSUME \/ \E c \in Cleaner : SelectOrphans(c) \/ CleanStep(c)
              \/ EnableAll
              \/ UNCHANGED vars
       PROVE  UNCHANGED Pool!poolvars
  BY <1>10 DEF SelectOrphans, CleanStep, DeleteConditions, DeleteRows, CleanerStep, EnableAll,
               vars, tables, Pool!poolvars
<1> QED
  BY <1>1, <1>2, <1>3, <1>4, <1>5, <1>6, <1>7, <1>8, <1>9, <1>10 DEF Next, Pool!PoolNext

(***************************************************************************)
(* The task queues implement the pool of waiting jobs: insertIntoTQ tells  *)
(* the truth about the job it was asked to insert, however its tries fail  *)
(* and whatever the others do, and a job is taken once for each time it    *)
(* enters.                                                                 *)
(***************************************************************************)
THEOREM TaskQueuesImplementJobPool == Spec => ImplementsJobPool
<1>1. Spec => []Told
  BY InitTold, StepTold, PTL DEF Spec
<1>2. Init => Pool!PoolInit
  BY InitTold
<1>3. Told /\ [Next]_vars => [Pool!PoolNext]_(Pool!poolvars)
  BY StepImplements
<1> QED  BY <1>1, <1>2, <1>3, PTL DEF Spec, ImplementsJobPool, Pool!PoolSpec
=============================================================================
