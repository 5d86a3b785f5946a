---------------------- MODULE RequestManagementProofs -----------------------
(***************************************************************************)
(* Proofs about RequestManagement, for any agents, requests and plans.     *)
(***************************************************************************)
EXTENDS RequestManagement, RequestStatusProofs

-----------------------------------------------------------------------------
(***************************************************************************)
(* What a handler, or the FTS3 callback, makes of a request in order.      *)
(***************************************************************************)
\* What Handle leaves alone while it sets the status of one file after the other.
Handled(o, i, s) ==
    /\ Sound(s)
    /\ Len(s) = Len(o)
    /\ DoneUpTo(s, i - 1)
    /\ DOMAIN s[i].files = DOMAIN o[i].files
    /\ DoneOf(o) \subseteq DoneOf(s)

LEMMA SetFileHandled ==
    ASSUME NEW o \in Seq(Operation), NEW i \in DOMAIN o, NEW s, Handled(o, i, s),
           NEW f \in DOMAIN o[i].files, s[i].files[f] \in Unfinished, NEW v \in FileStatuses
    PROVE  Handled(o, i, SetFile(s, i, f, v))
<1>1. /\ s \in Seq(Operation) /\ Sound(s) /\ i \in DOMAIN s /\ f \in DOMAIN s[i].files
      /\ DoneUpTo(s, i - 1) /\ i # 0
  BY DEF Handled, Sound
<1>2. /\ Sound(SetFile(s, i, f, v)) /\ Len(SetFile(s, i, f, v)) = Len(s)
      /\ Taken(SetFile(s, i, f, v), i)
      /\ DOMAIN SetFile(s, i, f, v)[i].files = DOMAIN s[i].files
      /\ DoneOf(s) \subseteq DoneOf(SetFile(s, i, f, v))
  BY <1>1, SetFileSound
<1> QED BY <1>1, <1>2 DEF Handled, Taken

LEMMA HandleFiles ==
    ASSUME NEW o \in Seq(Operation), NEW i \in DOMAIN o, Handled(o, i, o),
           NEW v \in FileStatuses, o[i].files # <<>>
    PROVE  Handled(o, i, Handle(o, i, v))
<1> DEFINE N == Len(o[i].files)
           Touch(s, f) == IF s[i].files[f] \in Unfinished THEN SetFile(s, i, f, v) ELSE s
           St == {s \in Seq(Operation) : Handled(o, i, s)}
           F == [k \in 1 .. N |-> [s \in St |-> Touch(s, k)]]
           idx == [f \in DOMAIN o[i].files |-> f]
           Eq(g) == g = [s \in SUBSET DOMAIN idx |->
                            IF s = {} THEN o ELSE Touch(g[s \ {Max(s)}], idx[Max(s)])]
<1>1. N \in Nat /\ DOMAIN o[i].files = 1 .. N
  BY OperationFields DEF Files
<1>2. o \in St
  OBVIOUS
<1>3. \A k \in 1 .. N : \A s \in St : Touch(s, k) \in St
  <2> SUFFICES ASSUME NEW k \in 1 .. N, NEW s \in St PROVE Touch(s, k) \in St
    OBVIOUS
  <2>1. CASE s[i].files[k] \in Unfinished
    <3>1. Handled(o, i, SetFile(s, i, k, v))
      BY <1>1, <2>1, SetFileHandled
    <3> QED BY <2>1, <3>1 DEF Handled, Sound
  <2>2. CASE s[i].files[k] \notin Unfinished
    BY <2>2
  <2> QED BY <2>1, <2>2
<1>4. \A k \in 1 .. N : \A s \in St : F[k][s] = Touch(s, k)
  <2> HIDE DEF N, Touch, St
  <2> QED OBVIOUS
<1>5. Handle(o, i, v) = (CHOOSE g : Eq(g))[DOMAIN idx]
  BY Zenon DEF Handle, FoldLeft, MapThenFoldSet
<1> HIDE DEF Touch
<1>6. DOMAIN idx = 1 .. N /\ \A k \in 1 .. N : idx[k] = k
  BY <1>1
<1>7. \A s \in SUBSET (1 .. N) : s # {} => idx[Max(s)] = Max(s)
  <2> HIDE DEF idx, N
  <2> QED BY <1>1, <1>6, MaxIn
<1> HIDE DEF idx
<1> HIDE DEF N, F, Touch, St
<1>8. Stays(F, St, N)
  BY <1>3, <1>4 DEF Stays
<1>9. \E g : Eq(g)
  <2>1. PICK g \in [SUBSET (1 .. N) -> St] : Recursion(g, o, F, 1 .. N)
    BY <1>1, <1>2, <1>8, RecursionExists
  <2>2. ASSUME NEW s \in SUBSET (1 .. N)
        PROVE  g[s] = IF s = {} THEN o ELSE Touch(g[s \ {Max(s)}], idx[Max(s)])
    <3>0. s # {} => idx[Max(s)] = Max(s)
      BY <1>7
    <3>1. CASE s = {}
      BY <2>1, <3>1 DEF Recursion
    <3>2. CASE s # {}
      <4>1. Max(s) \in 1 .. N
        BY <1>1, <3>2, MaxIn
      <4>2. g[s \ {Max(s)}] \in St
        OBVIOUS
      <4>3. g[s] = F[Max(s)][g[s \ {Max(s)}]]
        BY <2>1, <3>2 DEF Recursion
      <4> QED BY <1>4, <3>0, <3>2, <4>1, <4>2, <4>3
    <3> QED BY <3>1, <3>2
  <2>3. g = [s \in SUBSET (1 .. N) |->
                IF s = {} THEN o ELSE Touch(g[s \ {Max(s)}], idx[Max(s)])]
    BY <2>2
  <2> QED BY <1>6, <2>3
<1>10. PICK g : Eq(g) /\ Handle(o, i, v) = g[1 .. N]
  BY <1>5, <1>6, <1>9
<1>11. g[{}] = o
  BY <1>10, <1>6
<1>12. ASSUME NEW k \in 1 .. N, g[1 .. k - 1] \in St
       PROVE  g[1 .. k] = F[k][g[1 .. k - 1]]
  <2>1. k \in Nat \ {0} /\ 1 .. k \in SUBSET (1 .. N)
    BY <1>1
  <2>2. g[1 .. k] = Touch(g[1 .. k - 1], k)
    <3>1. 1 .. k # {} /\ Max(1 .. k) = k /\ (1 .. k) \ {k} = 1 .. k - 1
      BY <2>1, LastIndex
    <3>2. g = [s \in SUBSET (1 .. N) |->
                  IF s = {} THEN o ELSE Touch(g[s \ {Max(s)}], idx[Max(s)])]
      BY <1>6, <1>10
    <3>3. idx[Max(1 .. k)] = k
      BY <1>6, <3>1
    <3> HIDE DEF Eq
    <3> QED BY <2>1, <3>1, <3>2, <3>3
  <2> QED BY <1>4, <1>12, <2>2
<1>13. \E h \in [0 .. N -> St] : /\ h[0] = o
                                 /\ \A k \in 1 .. N : h[k] = F[k][h[k - 1]]
                                 /\ g[1 .. N] = h[N]
  <2>1. Unrolls(g, F, St, N)
    BY <1>12 DEF Unrolls
  <2> HIDE DEF Eq
  <2>2. Unrolled(g[1 .. N], o, F, St, N)
    BY <1>1, <1>2, <1>8, <1>11, <2>1, FoldSteps
  <2> QED BY <2>2 DEF Unrolled
<1>14. g[1 .. N] \in St
  BY <1>1, <1>13
<1> QED BY <1>10, <1>14 DEF St

LEMMA HandleSound ==
    ASSUME NEW o, Sound(o), NEW i \in 1 .. Len(o), IsFirst(o, i),
           o[i].status # "Failed", NEW v \in FileStatuses
    PROVE  /\ Sound(Handle(o, i, v))
           /\ Len(Handle(o, i, v)) = Len(o)
           /\ DoneOf(o) \subseteq DoneOf(Handle(o, i, v))
<1>1. o \in Seq(Operation) /\ i \in DOMAIN o /\ i # 0 /\ DoneUpTo(o, i - 1)
  BY DEF Sound, IsFirst
<1>2. Handled(o, i, o)
  BY <1>1 DEF Handled
<1>3. CASE o[i].files # <<>>
  BY <1>1, <1>2, <1>3, HandleFiles DEF Handled
<1>4. CASE o[i].files = <<>> /\ v \in {"Done", "Failed"}
  <2>1. Handle(o, i, v) = SetOp(o, i, v) /\ v \in OpStatuses
    BY <1>4 DEF Handle, OpStatuses
  <2>2. o[i].status \in Unfinished
    <3>1. o[i].status \in OpStatuses /\ o[i].status # "Queued"
      BY <1>1, OperationFields DEF Sound, InOrder
    <3> QED BY <3>1 DEF OpStatuses, Unfinished, IsFirst
  <2> QED BY <1>1, <1>4, <2>1, <2>2, SetOpSound
<1>5. CASE o[i].files = <<>> /\ v \notin {"Done", "Failed"}
  BY <1>5 DEF Handle
<1> QED BY <1>3, <1>4, <1>5

-----------------------------------------------------------------------------
(***************************************************************************)
(* A copy of a request, wherever it is, is a request in order.  What the   *)
(* calls make of one is stated once, here; the proofs below use nothing    *)
(* else about operations and files.                                        *)
(***************************************************************************)
Request == {o \in Seq(Operation) : Sound(o)}

LEMMA Copied ==
    ASSUME NEW o \in Request
    PROVE  /\ o # NoCopy
           /\ Reload(o) = o
           /\ Notify(o) = o
           /\ StatusOf(o) \in FileStatuses
           /\ NextOp(o) \in Nat
           /\ NextOp(o) # 0 <=> StatusOf(o) \in Unfinished
<1>1. o \in Seq(Operation) /\ o # <<>> /\ InOrder(o) /\ FilesAgree(o)
  BY DEF Request, Sound
<1>2. Reload(o) = o
  BY <1>1, ReloadSame
<1>3. /\ Notify(o) = o
      /\ NextOp(o) \in Nat
      /\ DoneUpTo(o, Len(o)) => NextOp(o) = 0 /\ StatusOf(o) = "Done"
      /\ \A i \in 1 .. Len(o) : IsFirst(o, i) =>
           /\ o[i].status \in {"Waiting", "Scheduled", "Failed"}
           /\ StatusOf(o) = o[i].status
           /\ NextOp(o) = IF o[i].status = "Failed" THEN 0 ELSE i
  BY <1>1, OrderedScan
<1>4. DoneUpTo(o, Len(o)) \/ \E i \in 1 .. Len(o) : IsFirst(o, i)
  BY <1>1, FirstExists
<1>5. \A i \in 1 .. Len(o) : i # 0
  OBVIOUS
<1>6. StatusOf(o) \in FileStatuses /\ (NextOp(o) # 0 <=> StatusOf(o) \in Unfinished)
  <2>1. CASE DoneUpTo(o, Len(o))
    BY <1>3, <2>1 DEF FileStatuses, Unfinished
  <2>2. ASSUME NEW i \in 1 .. Len(o), IsFirst(o, i)
        PROVE  StatusOf(o) \in FileStatuses /\ (NextOp(o) # 0 <=> StatusOf(o) \in Unfinished)
    BY <1>3, <1>5, <2>2 DEF FileStatuses, Unfinished
  <2> QED BY <1>4, <2>1, <2>2
<1> QED BY <1>1, <1>2, <1>3, <1>6 DEF NoCopy

LEMMA CopyHandled ==
    ASSUME NEW o \in Request, StatusOf(o) \in Unfinished, NEW v \in FileStatuses
    PROVE  /\ Handle(o, NextOp(o), v) \in Request
           /\ Len(Handle(o, NextOp(o), v)) = Len(o)
           /\ DoneOf(o) \subseteq DoneOf(Handle(o, NextOp(o), v))
<1>1. o \in Seq(Operation) /\ Sound(o) /\ o # <<>> /\ InOrder(o)
  BY DEF Request, Sound
<1>2. NextOp(o) \in 1 .. Len(o) /\ IsFirst(o, NextOp(o)) /\ o[NextOp(o)].status = StatusOf(o)
  BY <1>1, NextIsFirst DEF Unfinished
<1>3. o[NextOp(o)].status # "Failed"
  BY <1>2 DEF Unfinished
<1>4. /\ Sound(Handle(o, NextOp(o), v)) /\ Len(Handle(o, NextOp(o), v)) = Len(o)
      /\ DoneOf(o) \subseteq DoneOf(Handle(o, NextOp(o), v))
  BY <1>1, <1>2, <1>3, HandleSound
<1> QED BY <1>4 DEF Request, Sound

\* An operation that is not finished keeps its request from being done.
LEMMA CopyUnfinished ==
    ASSUME NEW o \in Request, NEW i, StatusOf(o) \in Unfinished, i = NextOp(o),
           NEW n \in Request, Len(n) = Len(o), n[i].status \in Unfinished
    PROVE  StatusOf(n) # "Done"
<1>1. o \in Seq(Operation) /\ o # <<>> /\ InOrder(o) /\ n \in Seq(Operation) /\ n # <<>> /\ InOrder(n)
  BY DEF Request, Sound
<1>2. i \in 1 .. Len(n)
  BY <1>1, NextIsFirst DEF Unfinished
<1>3. DoneUpTo(n, i - 1)
  BY <1>1, <1>2 DEF InOrder
<1>4. IsFirst(n, i)
  BY <1>3 DEF IsFirst, Unfinished
<1> QED BY <1>1, <1>2, <1>4, OrderedScan

LEMMA CopyFailed ==
    ASSUME NEW o \in Request
    PROVE  FailAll(o) \in Request /\ StatusOf(FailAll(o)) = "Failed"
<1>1. o \in Seq(Operation) /\ Sound(o)
  BY DEF Request, Sound
<1>2. Sound(FailAll(o)) /\ \A i \in DOMAIN FailAll(o) : FailAll(o)[i].status = "Failed"
  BY <1>1, FailAllSound
<1> DEFINE n == FailAll(o)
<1> HIDE DEF n
<1>3. n \in Seq(Operation) /\ n # <<>> /\ InOrder(n) /\ \A i \in DOMAIN n : n[i].status = "Failed"
  BY <1>2 DEF Sound, n
<1>4. 1 \in 1 .. Len(n) /\ IsFirst(n, 1)
  BY <1>3 DEF IsFirst, DoneUpTo
<1>5. StatusOf(n) = "Failed"
  BY <1>3, <1>4, OrderedScan
<1> QED BY <1>2, <1>3, <1>5 DEF Request, n

LEMMA CopyReset ==
    ASSUME NEW o \in Request, StatusOf(o) = "Failed"
    PROVE  Reset(o) \in Request /\ DoneOf(o) \subseteq DoneOf(Reset(o))
<1>1. o \in Seq(Operation) /\ Sound(o)
  BY DEF Request, Sound
<1>2. Sound(Reset(o)) /\ DoneOf(o) \subseteq DoneOf(Reset(o))
  BY <1>1, ResetSound
<1> QED BY <1>2 DEF Request, Sound

LEMMA CopySubmitted ==
    ASSUME NEW r \in Req
    PROVE  Fresh(r) \in Request
<1>1. Plan[r] \in Seq(Nat) /\ Plan[r] # <<>>
  BY RequestAssumption
<1>2. Fresh(r) = Reload([i \in DOMAIN Plan[r] |-> New(Plan[r][i])])
  BY Zenon DEF Fresh, New
<1>3. Sound(Fresh(r))
  BY <1>1, <1>2, SubmittedShape
<1> QED BY <1>3 DEF Request, Sound

-----------------------------------------------------------------------------
(***************************************************************************)
(* Where copies are: the first part of the inductive invariant.            *)
(***************************************************************************)
RowStatuses == FileStatuses \cup {"Assigned", "Canceled"}

Rows == {NoRow} \cup [status : RowStatuses, ops : Request, old : BOOLEAN]
Hands == {EmptyHand} \cup [pc : {"read", "assigned"}, req : Req, ops : Request]
Cached == {NoCopy} \cup Request
Tasks == {NoTask} \cup [pc : {"running", "put", "finalize", "ended"}, ops : Request,
                        result : {"none", "ok", "error", "timeout"}]
Puts == [by : {"callback", "stop", "fts", "user", "kick"}, agent : Agent \cup {NoAgent},
         req : Req, ops : Request, stage : {"check", "merge"}]
        \cup [by : {"task"}, agent : Agent, req : Req, ops : Request, stage : {"check", "merge"}]

Copies ==
    /\ db \in [Req -> Rows]
    /\ submitted \subseteq Req
    /\ hand \in [Agent -> Hands]
    /\ cache \in [Agent -> [Req -> Cached]]
    /\ task \in [Agent -> [Req -> Tasks]]
    /\ puts \subseteq Puts
    /\ fts \in [Req -> Nat]
    /\ clean \in [pc : {"idle", "kick", "delete"}, list : SUBSET Req]

LEMMA CopiesTyped ==
    ASSUME Copies
    PROVE  TypeOK
<1>1. Request \subseteq OpsType /\ NoCopy \in OpsType
  BY DEF Request, OpsType, Operation, Files, NoCopy
<1>2. Rows \subseteq [status : {"none", "Waiting", "Scheduled", "Assigned"} \cup FinalStates,
                      ops : OpsType, old : BOOLEAN]
  <2> SUFFICES ASSUME NEW row \in Rows
               PROVE  row \in [status : {"none", "Waiting", "Scheduled", "Assigned"} \cup FinalStates,
                               ops : OpsType, old : BOOLEAN]
    OBVIOUS
  <2>1. CASE row = NoRow
    BY <1>1, <2>1 DEF NoRow
  <2>2. CASE row \in [status : RowStatuses, ops : Request, old : BOOLEAN]
    BY <1>1, <2>2 DEF RowStatuses, FileStatuses, FinalStates
  <2> QED BY <2>1, <2>2 DEF Rows
<1>3. Hands \subseteq [pc : {"empty", "read", "assigned"}, req : Req \cup {NoReq}, ops : OpsType]
  BY <1>1 DEF Hands, EmptyHand
<1>4. Cached \subseteq OpsType
  BY <1>1 DEF Cached
<1>5. Tasks \subseteq [pc : {"none", "running", "put", "finalize", "ended"}, ops : OpsType,
                       result : {"none", "ok", "error", "timeout"}]
  BY <1>1 DEF Tasks, NoTask
<1> QED BY <1>1, <1>2, <1>3, <1>4, <1>5 DEF Copies, TypeOK, Puts

\* One place of a table of tables is written.
LEMMA Written ==
    ASSUME NEW A, NEW R, NEW T, NEW f \in [A -> [R -> T]], NEW a \in A, NEW r \in R, NEW t \in T,
           NEW g, g = [f EXCEPT ![a][r] = t]
    PROVE  /\ g \in [A -> [R -> T]]
           /\ g[a][r] = t
           /\ \A b \in A, s \in R : (b # a \/ s # r) => g[b][s] = f[b][s]
<1>1. f[a] \in [R -> T]
  OBVIOUS
<1>2. [f[a] EXCEPT ![r] = t] \in [R -> T]
  BY <1>1
<1>3. g = [f EXCEPT ![a] = [f[a] EXCEPT ![r] = t]]
  OBVIOUS
<1>4. g \in [A -> [R -> T]]
  BY <1>2, <1>3
<1>5. g[a] = [f[a] EXCEPT ![r] = t] /\ \A b \in A : b # a => g[b] = f[b]
  BY <1>3
<1>6. g[a][r] = t /\ \A s \in R : s # r => g[a][s] = f[a][s]
  BY <1>1, <1>5
<1> QED BY <1>4, <1>5, <1>6

-----------------------------------------------------------------------------
(***************************************************************************)
(* A step is about one request: the others see nothing of it.              *)
(***************************************************************************)
Listed(r) == clean.pc = "delete" /\ r \in clean.list

RowKept(r) == db'[r] = db[r] /\ (r \in submitted' <=> r \in submitted)
HandsKept(r) == \A a \in Agent : (hand[a].req = r \/ hand'[a].req = r) => hand'[a] = hand[a]
TasksKept(r) == \A a \in Agent : task'[a][r] = task[a][r] /\ cache'[a][r] = cache[a][r]
PutsKept(r) == \A p \in Puts : p.req = r => (p \in puts' <=> p \in puts)
FtsKept(r) == fts'[r] = fts[r]
ListKept(r) == Listed(r)' <=> Listed(r)

Untouched(r) ==
    RowKept(r) /\ HandsKept(r) /\ TasksKept(r) /\ PutsKept(r) /\ FtsKept(r) /\ ListKept(r)

Others(r) == \A s \in Req : s # r => Untouched(s)

\* agent a goes on to t with request r, and no other agent does anything with it
TaskMoves(a, r, t) ==
    /\ task'[a][r] = t
    /\ cache'[a][r] = cache[a][r]
    /\ \A b \in Agent : b # a => task'[b][r] = task[b][r] /\ cache'[b][r] = cache[b][r]

LEMMA TaskSeen ==
    ASSUME Copies, NEW a \in Agent, NEW r \in Req, NEW t \in Tasks,
           task' = [task EXCEPT ![a][r] = t],
           UNCHANGED <<db, submitted, hand, cache, fts, clean>>,
           puts' \subseteq Puts, \A p \in puts \cup puts' : p.req # r => (p \in puts <=> p \in puts')
    PROVE  Copies' /\ Others(r) /\ TaskMoves(a, r, t)
<1>1. task \in [Agent -> [Req -> Tasks]]
  BY DEF Copies
<1>2. /\ task' \in [Agent -> [Req -> Tasks]]
      /\ task'[a][r] = t
      /\ \A b \in Agent, s \in Req : (b # a \/ s # r) => task'[b][s] = task[b][s]
  BY <1>1, Written, Zenon
<1>3. Copies'
  BY <1>2 DEF Copies
<1>4. TaskMoves(a, r, t)
  BY <1>2 DEF TaskMoves
<1>5. Others(r)
  BY <1>2 DEF Others, Untouched, RowKept, HandsKept, TasksKept, PutsKept, FtsKept, ListKept, Listed
<1> QED BY <1>3, <1>4, <1>5

\* A step that leaves the tasks alone.
LEMMA TasksLeft ==
    ASSUME Copies, UNCHANGED <<cache, task>>
    PROVE  /\ \A r \in Req : TasksKept(r)
           /\ cache' \in [Agent -> [Req -> Cached]] /\ task' \in [Agent -> [Req -> Tasks]]
BY DEF Copies, TasksKept

LEMMA SubmitSeen ==
    ASSUME Copies, NEW r \in Req, Submit(r)
    PROVE  Copies' /\ Others(r) /\ \E o \in Request : db'[r] = Row(StatusOf(o), o)
<1>1. Fresh(r) \in Request /\ StatusOf(Fresh(r)) \in RowStatuses
  BY CopySubmitted, Copied DEF RowStatuses
<1>2. Row(StatusOf(Fresh(r)), Fresh(r)) \in Rows
  BY <1>1 DEF Row, Rows
<1>3. db' = [db EXCEPT ![r] = Row(StatusOf(Fresh(r)), Fresh(r))]
  BY DEF Submit
<1>4. Copies'
  BY <1>2, <1>3, TasksLeft DEF Copies, Submit, agentvars
<1>5. Others(r)
  BY <1>3, TasksLeft DEF Copies, Submit, agentvars, Others, Untouched, RowKept, HandsKept, PutsKept,
                         FtsKept, ListKept, Listed
<1>6. db'[r] = Row(StatusOf(Fresh(r)), Fresh(r))
  BY <1>3 DEF Copies
<1> QED BY <1>1, <1>4, <1>5, <1>6

\* A copy handed on in a put is a copy of a request that exists.
LEMMA RowFields ==
    ASSUME Copies, NEW r \in Req
    PROVE  /\ db[r] \in Rows
           /\ db[r].old \in BOOLEAN
           /\ Exists(r) => db[r].status \in RowStatuses /\ db[r].ops \in Request
           /\ ~ Exists(r) => db[r] = NoRow
<1>1. db[r] \in Rows
  BY DEF Copies
<1>2. CASE db[r] = NoRow
  BY <1>1, <1>2 DEF NoRow, Exists
<1>3. CASE db[r] \in [status : RowStatuses, ops : Request, old : BOOLEAN]
  <2>1. db[r].status # "none"
    BY <1>3 DEF RowStatuses, FileStatuses
  <2> QED BY <1>1, <1>3, <2>1 DEF Exists
<1> QED BY <1>1, <1>2, <1>3 DEF Rows

LEMMA SetStatusSeen ==
    ASSUME Copies, NEW r \in Req, Exists(r), NEW v \in RowStatuses, SetStatus(r, v)
    PROVE  /\ db' \in [Req -> Rows]
           /\ db'[r] = Row(v, db[r].ops)
           /\ \A s \in Req : s # r => db'[s] = db[s]
<1>1. db[r] \in [status : RowStatuses, ops : Request, old : BOOLEAN]
  BY RowFields DEF Rows, NoRow, Exists
<1> DEFINE row == [db[r] EXCEPT !.status = v, !.old = FALSE]
<1>2. row = Row(v, db[r].ops)
  <2>1. row \in [status : RowStatuses, ops : Request, old : BOOLEAN]
    BY <1>1
  <2>2. row.status = v /\ row.ops = db[r].ops /\ row.old = FALSE
    BY <1>1
  <2> HIDE DEF row
  <2>3. row = [status |-> row.status, ops |-> row.ops, old |-> row.old]
    BY <2>1
  <2> QED BY <2>2, <2>3 DEF Row
<1>3. Row(v, db[r].ops) \in Rows
  BY <1>1 DEF Row, Rows
<1>4. db' = [db EXCEPT ![r] = row]
  BY DEF SetStatus
<1> HIDE DEF row
<1> QED BY <1>2, <1>3, <1>4 DEF Copies

LEMMA TaskFields ==
    ASSUME Copies, NEW a \in Agent, NEW r \in Req
    PROVE  /\ task[a][r] \in Tasks
           /\ task[a][r].pc # "none" =>
                /\ task[a][r].pc \in {"running", "put", "finalize", "ended"}
                /\ task[a][r].ops \in Request
                /\ task[a][r].result \in {"none", "ok", "error", "timeout"}
           /\ task[a][r].pc = "none" => task[a][r] = NoTask
           /\ cache[a][r] \in Cached
           /\ cache[a][r] # NoCopy => cache[a][r] \in Request
<1>1. task[a][r] \in Tasks /\ cache[a][r] \in Cached
  BY DEF Copies
<1> QED BY <1>1 DEF Tasks, NoTask, Cached

LEMMA HandFields ==
    ASSUME Copies, NEW a \in Agent
    PROVE  /\ hand[a] \in Hands
           /\ hand[a] # EmptyHand =>
                hand[a].pc \in {"read", "assigned"} /\ hand[a].req \in Req /\ hand[a].ops \in Request
           /\ hand[a].pc # "empty" => hand[a] # EmptyHand
           /\ hand[a].req \in Req => hand[a] # EmptyHand
BY RequestAssumption DEF Copies, Hands, EmptyHand

LEMMA PutFields ==
    ASSUME Copies, NEW p \in puts
    PROVE  /\ p \in Puts /\ p.req \in Req /\ p.ops \in Request
           /\ p.stage \in {"check", "merge"}
           /\ p.by = "task" => p.agent \in Agent
           /\ p.by \in {"callback", "stop", "fts", "user", "kick", "task"}
           /\ [p EXCEPT !.stage = "merge"] \in Puts
           /\ [p EXCEPT !.stage = "merge"].req = p.req
<1>1. p \in Puts
  BY DEF Copies
<1> QED BY <1>1 DEF Puts

LEMMA NewPut ==
    ASSUME NEW r \in Req, NEW o \in Request, NEW by, NEW a,
           \/ by \in {"callback", "stop", "fts", "user", "kick"} /\ a \in Agent \cup {NoAgent}
           \/ by = "task" /\ a \in Agent
    PROVE  Put(by, a, r, o) \in Puts /\ Put(by, a, r, o).req = r
BY DEF Put, Puts

-----------------------------------------------------------------------------
\* The calls of putRequest.
LEMMA AnswerSeen ==
    ASSUME Copies, NEW p \in puts, NEW ok \in BOOLEAN, Answer(p, ok), UNCHANGED cache
    PROVE  LET t == [task[p.agent][p.req] EXCEPT !.pc = IF ok THEN "finalize" ELSE "ended",
                                                 !.result = IF ok THEN @ ELSE "error"]
           IN  /\ task' \in [Agent -> [Req -> Tasks]] /\ cache' \in [Agent -> [Req -> Cached]]
               /\ \A s \in Req : s # p.req => TasksKept(s)
               /\ ~ (p.by = "task" /\ task[p.agent][p.req].pc = "put") => TasksKept(p.req)
               /\ p.by = "task" /\ task[p.agent][p.req].pc = "put" =>
                    p.agent \in Agent /\ TaskMoves(p.agent, p.req, t)
<1> DEFINE u == [task[p.agent][p.req] EXCEPT !.pc = IF ok THEN "finalize" ELSE "ended",
                                             !.result = IF ok THEN @ ELSE "error"]
<1>0. p.req \in Req /\ (p.by = "task" => p.agent \in Agent)
  BY PutFields
<1>1. CASE ~ (p.by = "task" /\ task[p.agent][p.req].pc = "put")
  <2>1. task' = task
    BY <1>1 DEF Answer
  <2> QED BY <1>0, <1>1, <2>1, TasksLeft
<1>2. CASE p.by = "task" /\ task[p.agent][p.req].pc = "put"
  <2>1. p.agent \in Agent
    BY <1>0, <1>2
  <2>2. u \in Tasks
    <3>1. task[p.agent][p.req] \in [pc : {"running", "put", "finalize", "ended"}, ops : Request,
                                    result : {"none", "ok", "error", "timeout"}]
      BY <1>0, <1>2, <2>1, TaskFields DEF Tasks, NoTask
    <3>2. u \in [pc : {"running", "put", "finalize", "ended"}, ops : Request,
                 result : {"none", "ok", "error", "timeout"}]
      <4> DEFINE v == task[p.agent][p.req]
      <4> HIDE DEF v
      <4> QED BY <3>1 DEF v
    <3> QED BY <3>2 DEF Tasks
  <2>3. task' = [task EXCEPT ![p.agent][p.req] = u]
    <3>1. CASE ok
      <4>1. u = [task[p.agent][p.req] EXCEPT !.pc = "finalize"]
        BY <1>0, <1>2, <2>1, <3>1, TaskFields DEF Tasks
      <4> QED BY <1>2, <3>1, <4>1 DEF Answer
    <3>2. CASE ~ ok
      <4>1. u = [task[p.agent][p.req] EXCEPT !.pc = "ended", !.result = "error"]
        BY <3>2
      <4> QED BY <1>2, <3>2, <4>1 DEF Answer
    <3> QED BY <3>1, <3>2
  <2>4. task \in [Agent -> [Req -> Tasks]] /\ cache \in [Agent -> [Req -> Cached]]
    BY DEF Copies
  <2> HIDE DEF u
  <2>5. /\ task' \in [Agent -> [Req -> Tasks]]
        /\ task'[p.agent][p.req] = u
        /\ \A b \in Agent, s \in Req : (b # p.agent \/ s # p.req) => task'[b][s] = task[b][s]
    BY <1>0, <2>1, <2>2, <2>3, <2>4, Written, Zenon
  <2>6. TaskMoves(p.agent, p.req, u) /\ \A s \in Req : s # p.req => TasksKept(s)
    BY <1>0, <2>5 DEF TaskMoves, TasksKept
  <2> QED BY <1>2, <2>1, <2>4, <2>5, <2>6 DEF u
<1> QED BY <1>1, <1>2

Moved(p) == [p EXCEPT !.stage = "merge"]
Merged(p) == Row(StatusOf(p.ops), p.ops)

LEMMA PutSeen ==
    ASSUME Copies, NEW p \in puts,
           puts' = puts \ {p} \/ puts' = (puts \ {p}) \cup {Moved(p)},
           UNCHANGED db \/ db' = [db EXCEPT ![p.req] = Merged(p)],
           task' \in [Agent -> [Req -> Tasks]], cache' \in [Agent -> [Req -> Cached]],
           \A s \in Req : s # p.req => TasksKept(s),
           UNCHANGED <<submitted, hand, fts, clean>>
    PROVE  Copies' /\ Others(p.req)
<1>1. p.req \in Req /\ Moved(p) \in Puts /\ Moved(p).req = p.req /\ p \in Puts
  BY PutFields DEF Moved
<1>2. Merged(p) \in Rows
  BY PutFields, Copied DEF Merged, Row, Rows, RowStatuses
<1>3. db' \in [Req -> Rows] /\ \A s \in Req : s # p.req => db'[s] = db[s]
  BY <1>1, <1>2 DEF Copies
<1>4. puts' \subseteq Puts /\ \A s \in Req : s # p.req => PutsKept(s)
  BY <1>1 DEF Copies, PutsKept
<1>5. Copies'
  BY <1>3, <1>4 DEF Copies
<1>6. Others(p.req)
  BY <1>3, <1>4 DEF Others, Untouched, RowKept, HandsKept, FtsKept, ListKept, Listed
<1> QED BY <1>5, <1>6

LEMMA MergeSeen ==
    ASSUME Copies, NEW p \in puts, Merge(p)
    PROVE  db' = [db EXCEPT ![p.req] = Merged(p)] /\ db'[p.req] = Merged(p)
<1>1. p.ops \in Request /\ p.req \in Req
  BY PutFields
<1>2. Reload(p.ops) = p.ops
  BY <1>1, Copied
<1>3. db' = [db EXCEPT ![p.req] = Row(StatusOf(Reload(p.ops)), Reload(p.ops))]
  BY DEF Merge
<1> QED BY <1>1, <1>2, <1>3 DEF Merged, Copies

LEMMA PutCheckSeen ==
    ASSUME Copies, NEW p \in puts, PutCheck(p)
    PROVE  Copies' /\ Others(p.req)
<1>1. CASE db[p.req].status = "Canceled"
  <2>1. puts' = puts \ {p} /\ Answer(p, TRUE) /\ UNCHANGED <<db, submitted, hand, cache, fts, clean>>
    BY <1>1 DEF PutCheck
  <2> QED BY <2>1, AnswerSeen, PutSeen
<1>2. CASE db[p.req].status # "Canceled"
  <2>1. puts' = (puts \ {p}) \cup {Moved(p)} /\ UNCHANGED <<db, submitted, task, hand, cache, fts, clean>>
    BY <1>2 DEF PutCheck, Moved
  <2> QED BY <2>1, TasksLeft, PutSeen
<1> QED BY <1>1, <1>2

LEMMA PutMergeSeen ==
    ASSUME Copies, NEW p \in puts, PutMerge(p)
    PROVE  Copies' /\ Others(p.req)
<1>1. Merge(p) /\ Answer(p, TRUE)
  BY DEF PutMerge
<1>2. puts' = puts \ {p} /\ UNCHANGED <<submitted, hand, cache, fts, clean>>
  BY <1>1 DEF Merge
<1> QED BY <1>1, <1>2, MergeSeen, AnswerSeen, PutSeen

LEMMA PutFailsSeen ==
    ASSUME Copies, NEW p \in puts, PutFails(p)
    PROVE  Copies' /\ Others(p.req)
<1>1. Answer(p, FALSE)
  BY DEF PutFails
<1>2. CASE Merge(p)
  <2>1. puts' = puts \ {p} /\ UNCHANGED <<submitted, hand, cache, fts, clean>>
    BY <1>2 DEF Merge
  <2> QED BY <1>1, <1>2, <2>1, MergeSeen, AnswerSeen, PutSeen
<1>3. CASE puts' = puts \ {p} /\ UNCHANGED <<db, submitted, hand, cache, fts, clean>>
  BY <1>1, <1>3, AnswerSeen, PutSeen
<1> QED BY <1>2, <1>3 DEF PutFails

-----------------------------------------------------------------------------
\* The agents.
LEMMA BulkFetchSeen ==
    ASSUME Copies, NEW a \in Agent, NEW r \in Req, BulkFetch(a, r)
    PROVE  Copies' /\ Others(r)
<1>1. db[r].ops \in Request
  BY RowFields DEF Exists, BulkFetch
<1>2. [pc |-> "assigned", req |-> r, ops |-> db[r].ops] \in Hands
  BY <1>1 DEF Hands
<1>3. Exists(r) /\ SetStatus(r, "Assigned") /\ "Assigned" \in RowStatuses
  BY DEF BulkFetch, Exists, RowStatuses
<1>4. db' \in [Req -> Rows] /\ \A s \in Req : s # r => db'[s] = db[s]
  BY <1>3, SetStatusSeen
<1>5. hand' \in [Agent -> Hands] /\ \A s \in Req : s # r => HandsKept(s)
  BY <1>2, RequestAssumption DEF Copies, BulkFetch, HandsKept, EmptyHand
<1>6. UNCHANGED <<submitted, cache, task, puts, fts, clean>>
  BY DEF BulkFetch
<1>7. Copies'
  BY <1>4, <1>5, <1>6, TasksLeft DEF Copies
<1>8. Others(r)
  BY <1>4, <1>5, <1>6, TasksLeft
     DEF Others, Untouched, RowKept, PutsKept, FtsKept, ListKept, Listed
<1> QED BY <1>7, <1>8

LEMMA SelectRequestSeen ==
    ASSUME Copies, NEW a \in Agent, NEW r \in Req, SelectRequest(a, r)
    PROVE  Copies' /\ Others(r)
<1>1. db[r].ops \in Request
  BY RowFields DEF Exists, SelectRequest
<1>2. [pc |-> "read", req |-> r, ops |-> db[r].ops] \in Hands
  BY <1>1 DEF Hands
<1>3. hand' \in [Agent -> Hands] /\ \A s \in Req : s # r => HandsKept(s)
  BY <1>2, RequestAssumption DEF Copies, SelectRequest, HandsKept, EmptyHand
<1>4. UNCHANGED <<db, submitted, cache, task, puts, fts, clean>>
  BY DEF SelectRequest
<1> QED BY <1>3, <1>4, TasksLeft
        DEF Copies, Others, Untouched, RowKept, PutsKept, FtsKept, ListKept, Listed

LEMMA AssignRequestSeen ==
    ASSUME Copies, NEW a \in Agent, AssignRequest(a)
    PROVE  hand[a].req \in Req /\ Copies' /\ Others(hand[a].req)
<1> DEFINE r == hand[a].req
<1>1. r \in Req /\ hand[a] \in [pc : {"read", "assigned"}, req : Req, ops : Request]
  BY HandFields DEF AssignRequest, EmptyHand, Hands
<1>2. "Assigned" \in RowStatuses
  BY DEF RowStatuses
<1>3. db' \in [Req -> Rows] /\ \A s \in Req : s # r => db'[s] = db[s]
  BY <1>1, <1>2, SetStatusSeen DEF Copies, AssignRequest
<1>4. [hand[a] EXCEPT !.pc = "assigned"] \in Hands /\ [hand[a] EXCEPT !.pc = "assigned"].req = r
  BY <1>1 DEF Hands
<1>5. hand' = [hand EXCEPT ![a] = [hand[a] EXCEPT !.pc = "assigned"]]
  BY DEF AssignRequest
<1>6. hand' \in [Agent -> Hands] /\ \A s \in Req : s # r => HandsKept(s)
  BY <1>4, <1>5 DEF Copies, HandsKept
<1>7. UNCHANGED <<submitted, cache, task, puts, fts, clean>>
  BY DEF AssignRequest
<1>8. Copies'
  BY <1>3, <1>6, <1>7, TasksLeft DEF Copies
<1>9. Others(r)
  BY <1>3, <1>6, <1>7, TasksLeft
     DEF Others, Untouched, RowKept, PutsKept, FtsKept, ListKept, Listed
<1> QED BY <1>1, <1>8, <1>9

LEMMA LoseRequestSeen ==
    ASSUME Copies, NEW a \in Agent, LoseRequest(a)
    PROVE  hand[a].req \in Req /\ Copies' /\ Others(hand[a].req)
<1>1. hand[a].req \in Req
  BY HandFields DEF LoseRequest, EmptyHand
<1>2. hand' \in [Agent -> Hands] /\ \A s \in Req : s # hand[a].req => HandsKept(s)
  BY RequestAssumption DEF Copies, LoseRequest, HandsKept, Hands, EmptyHand
<1>3. UNCHANGED <<db, submitted, cache, task, puts, fts, clean>>
  BY DEF LoseRequest
<1> QED BY <1>1, <1>2, <1>3, TasksLeft
        DEF Copies, Others, Untouched, RowKept, PutsKept, FtsKept, ListKept, Listed

\* the task that StartTask starts
Started(o) == [pc |-> "running", ops |-> o, result |-> "none"]

LEMMA StartTaskSeen ==
    ASSUME Copies, NEW a \in Agent, StartTask(a)
    PROVE  LET r == hand[a].req  o == hand[a].ops IN
           /\ r \in Req /\ o \in Request /\ Copies' /\ Others(r)
           /\ hand'[a] = EmptyHand /\ \A b \in Agent : b # a => hand'[b] = hand[b]
           /\ cache[a][r] # NoCopy => TasksKept(r)
           /\ cache[a][r] = NoCopy =>
                /\ task'[a][r] = Started(o) /\ cache'[a][r] = o
                /\ \A b \in Agent : b # a => task'[b][r] = task[b][r] /\ cache'[b][r] = cache[b][r]
<1> DEFINE r == hand[a].req  o == hand[a].ops
<1>1. r \in Req /\ o \in Request /\ Reload(o) = o
  BY HandFields, Copied DEF StartTask, EmptyHand
<1>2. /\ hand' \in [Agent -> Hands] /\ \A s \in Req : s # r => HandsKept(s)
      /\ hand'[a] = EmptyHand /\ \A b \in Agent : b # a => hand'[b] = hand[b]
  BY RequestAssumption DEF Copies, StartTask, HandsKept, Hands, EmptyHand
<1>3. UNCHANGED <<db, submitted, puts, fts, clean>>
  BY DEF StartTask
<1>4. CASE cache[a][r] # NoCopy
  <2>1. UNCHANGED <<cache, task>>
    BY <1>4 DEF StartTask
  <2>2. Copies'
    BY <1>2, <1>3, <2>1, TasksLeft DEF Copies
  <2>3. Others(r)
    BY <1>2, <1>3, <2>1, TasksLeft DEF Others, Untouched, RowKept, PutsKept, FtsKept, ListKept, Listed
  <2> QED BY <1>1, <1>2, <1>4, <2>1, <2>2, <2>3, TasksLeft
<1>5. CASE cache[a][r] = NoCopy
  <2>1. /\ cache' = [cache EXCEPT ![a][r] = Reload(o)]
        /\ task' = [task EXCEPT ![a][r] = [pc |-> "running", ops |-> Reload(o), result |-> "none"]]
    BY <1>5 DEF StartTask
  <2>2. Started(o) \in Tasks /\ o \in Cached
    BY <1>1 DEF Started, Tasks, Cached
  <2>3. task \in [Agent -> [Req -> Tasks]] /\ cache \in [Agent -> [Req -> Cached]]
    BY DEF Copies
  <2> HIDE DEF r, o
  <2>4. cache' = [cache EXCEPT ![a][r] = o] /\ task' = [task EXCEPT ![a][r] = Started(o)]
    BY <1>1, <2>1 DEF Started
  <2>5. /\ task' \in [Agent -> [Req -> Tasks]]
        /\ task'[a][r] = Started(o)
        /\ \A b \in Agent, s \in Req : (b # a \/ s # r) => task'[b][s] = task[b][s]
    BY <1>1, <2>2, <2>3, <2>4, Written, Zenon
  <2>6. /\ cache' \in [Agent -> [Req -> Cached]]
        /\ cache'[a][r] = o
        /\ \A b \in Agent, s \in Req : (b # a \/ s # r) => cache'[b][s] = cache[b][s]
    BY <1>1, <2>2, <2>3, <2>4, Written, Zenon
  <2>7. Copies'
    BY <1>2, <1>3, <2>5, <2>6 DEF Copies
  <2>8. \A s \in Req : s # r => TasksKept(s)
    BY <2>5, <2>6 DEF TasksKept
  <2>9. Others(r)
    BY <1>2, <1>3, <2>8 DEF Others, Untouched, RowKept, PutsKept, FtsKept, ListKept, Listed
  <2> QED BY <1>1, <1>2, <1>5, <2>5, <2>6, <2>7, <2>9 DEF r, o
<1> QED BY <1>4, <1>5

-----------------------------------------------------------------------------
\* The tasks, each in a process of its own.
LEMMA ExecuteSeen ==
    ASSUME Copies, NEW a \in Agent, NEW r \in Req, Execute(a, r)
    PROVE  \E t \in Tasks :
             /\ t.pc \in {"running", "ended"} /\ t.ops \in Request
             /\ t.pc = "ended" => StatusOf(t.ops) # "Done"
             /\ DoneOf(task[a][r].ops) \subseteq DoneOf(t.ops)
             /\ Copies' /\ Others(r) /\ TaskMoves(a, r, t)
<1> DEFINE o == task[a][r].ops  i == NextOp(o)
<1>1. o \in Request /\ StatusOf(o) \in Unfinished /\ Notify(o) = o
  BY TaskFields, Copied DEF Execute, Unfinished
<1>2. PICK v \in Outcomes :
        task' = [task EXCEPT ![a][r] =
            IF Handle(Notify(o), i, v)[i].status \in Unfinished
            THEN [pc |-> "ended", ops |-> Handle(Notify(o), i, v), result |-> "ok"]
            ELSE [pc |-> "running", ops |-> Handle(Notify(o), i, v), result |-> "none"]]
  BY DEF Execute
<1> DEFINE n == Handle(o, i, v)
           t == IF n[i].status \in Unfinished THEN [pc |-> "ended", ops |-> n, result |-> "ok"]
                ELSE [pc |-> "running", ops |-> n, result |-> "none"]
<1>3. n \in Request /\ Len(n) = Len(o) /\ DoneOf(o) \subseteq DoneOf(n)
  <2>1. v \in FileStatuses
    BY RequestAssumption
  <2> QED BY <1>1, <2>1, CopyHandled
<1>4. n[i].status \in Unfinished => StatusOf(n) # "Done"
  <2> HIDE DEF n
  <2> QED BY <1>1, <1>3, CopyUnfinished
<1> HIDE DEF n, o, i
<1>5. /\ t \in Tasks /\ t.pc \in {"running", "ended"} /\ t.ops = n
      /\ t.pc = "ended" => n[i].status \in Unfinished
  BY <1>3 DEF Tasks
<1>6. task' = [task EXCEPT ![a][r] = t]
  BY <1>1, <1>2 DEF n
<1>7. UNCHANGED <<db, submitted, hand, cache, puts, fts, clean>> /\ puts' \subseteq Puts
  BY DEF Execute, Copies
<1> HIDE DEF t
<1>8. Copies' /\ Others(r) /\ TaskMoves(a, r, t)
  BY <1>5, <1>6, <1>7, TaskSeen
<1> QED BY <1>3, <1>4, <1>5, <1>8 DEF o

\* The other steps of a task, and its callback, are about what is in it already.
LEMMA NoProxySeen ==
    ASSUME Copies, NEW a \in Agent, NEW r \in Req, NoProxy(a, r)
    PROVE  \E o \in Request :
             /\ StatusOf(o) = "Failed"
             /\ Copies' /\ Others(r)
             /\ TaskMoves(a, r, [pc |-> "ended", ops |-> o, result |-> "ok"])
<1> DEFINE o == FailAll(task[a][r].ops)  t == [pc |-> "ended", ops |-> o, result |-> "ok"]
<1>1. o \in Request /\ StatusOf(o) = "Failed"
  BY TaskFields, CopyFailed DEF NoProxy
<1>2. task' = [task EXCEPT ![a][r] = t]
  BY DEF NoProxy
<1> HIDE DEF o
<1>3. t \in Tasks
  BY <1>1 DEF Tasks
<1>4. UNCHANGED <<db, submitted, hand, cache, puts, fts, clean>> /\ puts' \subseteq Puts
  BY DEF NoProxy, Copies
<1> HIDE DEF t
<1>5. Copies' /\ Others(r) /\ TaskMoves(a, r, t)
  BY <1>2, <1>3, <1>4, TaskSeen
<1> QED BY <1>1, <1>5 DEF t

\* A task that changes where it is and its result, and not its copy.
Onward(t, pc, result) == [t EXCEPT !.pc = pc, !.result = result]

LEMMA OnwardFields ==
    ASSUME Copies, NEW a \in Agent, NEW r \in Req, task[a][r].pc # "none",
           NEW pc \in {"running", "put", "finalize", "ended"},
           NEW result \in {"none", "ok", "error", "timeout"}
    PROVE  LET t == Onward(task[a][r], pc, result) IN
           t \in Tasks /\ t.pc = pc /\ t.result = result /\ t.ops = task[a][r].ops
<1> DEFINE v == task[a][r]
<1>1. v \in [pc : {"running", "put", "finalize", "ended"}, ops : Request,
             result : {"none", "ok", "error", "timeout"}]
  BY TaskFields DEF Tasks, NoTask
<1> HIDE DEF v
<1>2. LET t == Onward(v, pc, result) IN
      /\ t \in [pc : {"running", "put", "finalize", "ended"}, ops : Request,
                result : {"none", "ok", "error", "timeout"}]
      /\ t.pc = pc /\ t.result = result /\ t.ops = v.ops
  BY <1>1 DEF Onward
<1> QED BY <1>2 DEF v, Tasks

LEMMA OnwardSeen ==
    ASSUME Copies, NEW a \in Agent, NEW r \in Req, task[a][r].pc # "none",
           NEW pc \in {"running", "put", "finalize", "ended"},
           NEW result \in {"none", "ok", "error", "timeout"},
           task' = [task EXCEPT ![a][r].pc = pc, ![a][r].result = result],
           UNCHANGED <<db, submitted, hand, cache, puts, fts, clean>>
    PROVE  Copies' /\ Others(r) /\ TaskMoves(a, r, Onward(task[a][r], pc, result))
<1> DEFINE t == Onward(task[a][r], pc, result)
<1>1. t \in Tasks
  BY OnwardFields
<1>2. task' = [task EXCEPT ![a][r] = t]
  BY DEF Onward, Copies
<1> HIDE DEF t
<1>3. puts' \subseteq Puts
  BY DEF Copies
<1>4. Copies' /\ Others(r) /\ TaskMoves(a, r, t)
  BY <1>1, <1>2, <1>3, TaskSeen
<1> QED BY <1>4 DEF t

LEMMA RaiseSeen ==
    ASSUME Copies, NEW a \in Agent, NEW r \in Req, Raise(a, r)
    PROVE  Copies' /\ Others(r) /\ TaskMoves(a, r, Onward(task[a][r], "ended", "error"))
BY OnwardSeen DEF Raise

LEMMA TimeoutSeen ==
    ASSUME Copies, NEW a \in Agent, NEW r \in Req, Timeout(a, r)
    PROVE  Copies' /\ Others(r) /\ TaskMoves(a, r, Onward(task[a][r], "ended", "timeout"))
BY OnwardSeen DEF Timeout

LEMMA FinalizeSeen ==
    ASSUME Copies, NEW a \in Agent, NEW r \in Req, Finalize(a, r)
    PROVE  /\ Copies' /\ Others(r)
           /\ \/ /\ r \notin HasJob \/ db[r].status = "Done"
                 /\ TaskMoves(a, r, Onward(task[a][r], "ended", "ok"))
              \/ /\ db[r].status # "Done" \/ "finalize" \in Faults
                 /\ TaskMoves(a, r, Onward(task[a][r], "ended", "error"))
BY OnwardSeen DEF Finalize

LEMMA LeaveSeen ==
    ASSUME Copies, NEW a \in Agent, NEW r \in Req, Leave(a, r)
    PROVE  LET t == task[a][r]  q == Put("task", a, r, t.ops) IN
           /\ Copies' /\ Others(r)
           /\ StatusOf(t.ops) = "Done" =>
                q \in Puts /\ puts' = puts \cup {q} /\ TaskMoves(a, r, Onward(t, "put", t.result))
           /\ StatusOf(t.ops) # "Done" =>
                UNCHANGED puts /\ TaskMoves(a, r, Onward(t, "ended", "ok"))
<1> DEFINE t == task[a][r]  q == Put("task", a, r, t.ops)  u == Onward(t, "put", t.result)
<1>1. t.pc # "none" /\ t.ops \in Request /\ t.result \in {"none", "ok", "error", "timeout"}
  BY TaskFields DEF Leave
<1>2. UNCHANGED <<db, submitted, hand, cache, fts, clean>>
  BY DEF Leave
<1>3. CASE StatusOf(t.ops) = "Done"
  <2>1. puts' = puts \cup {q} /\ task' = [task EXCEPT ![a][r].pc = "put"]
    BY <1>3 DEF Leave
  <2>2. q \in Puts /\ q.req = r
    BY <1>1, NewPut
  <2>3. puts' \subseteq Puts /\ \A p \in puts \cup puts' : p.req # r => (p \in puts <=> p \in puts')
    BY <2>1, <2>2 DEF Copies
  <2>4. u \in Tasks
    BY <1>1, OnwardFields
  <2>5. task' = [task EXCEPT ![a][r] = u]
    <3>1. t \in [pc : {"running", "put", "finalize", "ended"}, ops : Request,
                 result : {"none", "ok", "error", "timeout"}]
      BY <1>1, TaskFields DEF Tasks, NoTask
    <3> DEFINE w == [t EXCEPT !.pc = "put"]
    <3>2. task' = [task EXCEPT ![a][r] = w]
      BY <2>1
    <3> HIDE DEF t
    <3>3. w = u
      BY <3>1 DEF Onward
    <3> QED BY <3>2, <3>3
  <2> HIDE DEF u
  <2>6. Copies' /\ Others(r) /\ TaskMoves(a, r, u)
    BY <1>2, <2>3, <2>4, <2>5, TaskSeen
  <2> QED BY <1>3, <2>1, <2>2, <2>6 DEF u
<1>4. CASE StatusOf(t.ops) # "Done"
  <2>1. UNCHANGED puts /\ task' = [task EXCEPT ![a][r].pc = "ended", ![a][r].result = "ok"]
    BY <1>4 DEF Leave
  <2> QED BY <1>1, <1>2, <1>4, <2>1, OnwardSeen
<1> QED BY <1>3, <1>4

LEMMA CallbackSeen ==
    ASSUME Copies, NEW a \in Agent, NEW r \in Req, Callback(a, r)
    PROVE  LET t == task[a][r]  ok == t.result = "ok"
               q == Put("callback", a, r, IF ok THEN t.ops ELSE cache[a][r])
           IN  /\ Copies' /\ Others(r)
               /\ task'[a][r] = NoTask /\ cache'[a][r] = NoCopy
               /\ \A b \in Agent : b # a => task'[b][r] = task[b][r] /\ cache'[b][r] = cache[b][r]
               /\ IF cache[a][r] = NoCopy \/ (ok /\ StatusOf(t.ops) = "Done")
                  THEN puts' = puts
                  ELSE q \in Puts /\ puts' = puts \cup {q}
<1> DEFINE t == task[a][r]  ok == t.result = "ok"
           o == IF ok THEN t.ops ELSE cache[a][r]
           q == Put("callback", a, r, o)
           quiet == cache[a][r] = NoCopy \/ (ok /\ StatusOf(t.ops) = "Done")
<1>1. /\ task' = [task EXCEPT ![a][r] = NoTask] /\ cache' = [cache EXCEPT ![a][r] = NoCopy]
      /\ puts' = IF quiet THEN puts ELSE puts \cup {q}
      /\ UNCHANGED <<db, submitted, hand, fts, clean>>
  BY Zenon DEF Callback
<1>2. t.ops \in Request
  BY TaskFields DEF Callback
<1>3. ~ quiet => q \in Puts /\ q.req = r
  <2>1. ~ quiet => o \in Request
    BY <1>2, TaskFields
  <2> HIDE DEF o, quiet
  <2> QED BY <2>1, NewPut
<1>4. puts' \subseteq Puts /\ \A s \in Req : s # r => PutsKept(s)
  BY <1>1, <1>3 DEF Copies, PutsKept
<1>5. /\ task \in [Agent -> [Req -> Tasks]] /\ cache \in [Agent -> [Req -> Cached]]
      /\ NoTask \in Tasks /\ NoCopy \in Cached
  BY DEF Copies, Tasks, Cached
<1>6. /\ task' \in [Agent -> [Req -> Tasks]]
      /\ task'[a][r] = NoTask
      /\ \A b \in Agent, s \in Req : (b # a \/ s # r) => task'[b][s] = task[b][s]
  BY <1>1, <1>5, Written, Zenon
<1>7. /\ cache' \in [Agent -> [Req -> Cached]]
      /\ cache'[a][r] = NoCopy
      /\ \A b \in Agent, s \in Req : (b # a \/ s # r) => cache'[b][s] = cache[b][s]
  BY <1>1, <1>5, Written, Zenon
<1>8. Copies'
  BY <1>1, <1>4, <1>6, <1>7 DEF Copies
<1>9. \A s \in Req : s # r => TasksKept(s)
  BY <1>6, <1>7 DEF TasksKept
<1>10. Others(r)
  BY <1>1, <1>4, <1>9 DEF Others, Untouched, RowKept, HandsKept, FtsKept, ListKept, Listed
<1> HIDE DEF q
<1>11. IF quiet THEN puts' = puts ELSE q \in Puts /\ puts' = puts \cup {q}
  BY <1>1, <1>3
<1> QED BY <1>6, <1>7, <1>8, <1>10, <1>11 DEF q

\* Everything an agent has is gone, of whatever request.
LEMMA NothingLeftSeen ==
    ASSUME Copies, NEW a \in Agent, NothingLeft(a)
    PROVE  /\ hand' \in [Agent -> Hands] /\ hand'[a] = EmptyHand
           /\ cache' \in [Agent -> [Req -> Cached]] /\ task' \in [Agent -> [Req -> Tasks]]
           /\ \A r \in Req : task'[a][r] = NoTask /\ cache'[a][r] = NoCopy
           /\ \A b \in Agent : b # a =>
                hand'[b] = hand[b] /\ \A r \in Req : task'[b][r] = task[b][r] /\ cache'[b][r] = cache[b][r]
<1>1. hand' \in [Agent -> Hands] /\ hand'[a] = EmptyHand /\ \A b \in Agent : b # a => hand'[b] = hand[b]
  BY DEF NothingLeft, Copies, Hands
<1>2. [r \in Req |-> NoTask] \in [Req -> Tasks] /\ [r \in Req |-> NoCopy] \in [Req -> Cached]
  BY DEF Tasks, Cached
<1>3. task' \in [Agent -> [Req -> Tasks]] /\ cache' \in [Agent -> [Req -> Cached]]
  BY <1>2 DEF NothingLeft, Copies
<1>4. /\ task'[a] = [r \in Req |-> NoTask] /\ cache'[a] = [r \in Req |-> NoCopy]
      /\ \A b \in Agent : b # a => task'[b] = task[b] /\ cache'[b] = cache[b]
  BY DEF NothingLeft, Copies
<1> QED BY <1>1, <1>3, <1>4

LEMMA CrashSeen ==
    ASSUME Copies, NEW a \in Agent, Crash(a)
    PROVE  Copies' /\ NothingLeft(a)
BY NothingLeftSeen DEF Crash, Copies

LEMMA StopSeen ==
    ASSUME Copies, NEW a \in Agent, Stop(a)
    PROVE  /\ Copies' /\ NothingLeft(a)
           /\ \E r \in Req : /\ cache[a][r] # NoCopy
                             /\ puts' = puts \cup {Put("stop", a, r, cache[a][r])}
                             /\ Put("stop", a, r, cache[a][r]) \in Puts
<1>1. PICK r \in Req : cache[a][r] # NoCopy /\ puts' = puts \cup {Put("stop", a, r, cache[a][r])}
  BY DEF Stop
<1>2. Put("stop", a, r, cache[a][r]) \in Puts
  BY <1>1, TaskFields, NewPut
<1>3. Copies'
  BY <1>1, <1>2, NothingLeftSeen DEF Stop, Copies
<1> QED BY <1>1, <1>2, <1>3 DEF Stop

-----------------------------------------------------------------------------
\* The FTS3 callback and the users.
LEMMA FtsCheckSeen ==
    ASSUME Copies, NEW r \in Req, FtsCheck(r)
    PROVE  Copies' /\ Others(r) /\ fts'[r] = NextOp(db[r].ops)
<1>1. db[r].ops \in Request
  BY RowFields DEF FtsCheck, Exists
<1>2. NextOp(db[r].ops) \in Nat
  BY <1>1, Copied
<1>3. /\ fts' \in [Req -> Nat] /\ fts'[r] = NextOp(db[r].ops)
      /\ \A s \in Req : s # r => FtsKept(s)
  BY <1>2 DEF FtsCheck, Copies, FtsKept
<1>4. UNCHANGED <<db, submitted, hand, cache, task, puts, clean>>
  BY DEF FtsCheck, agentvars
<1> QED BY <1>3, <1>4, TasksLeft
        DEF Copies, Others, Untouched, RowKept, HandsKept, PutsKept, ListKept, Listed

LEMMA FtsGetSeen ==
    ASSUME Copies, NEW r \in Req, FtsGet(r)
    PROVE  /\ Copies' /\ Others(r) /\ fts'[r] = 0
           /\ Exists(r) => db'[r] = Row("Assigned", db[r].ops)
           /\ ~ Exists(r) => db'[r] = db[r]
           /\ \/ UNCHANGED puts /\ (Exists(r) => NextOp(db[r].ops) # fts[r])
              \/ \E o \in Request :
                   /\ DoneOf(db[r].ops) \subseteq DoneOf(o)
                   /\ Exists(r)
                   /\ Put("fts", NoAgent, r, o) \in Puts
                   /\ puts' = puts \cup {Put("fts", NoAgent, r, o)}
<1> DEFINE o == db[r].ops
<1>1. UNCHANGED <<submitted, hand, cache, task, clean>>
  BY DEF FtsGet, agentvars
<1>2. fts' \in [Req -> Nat] /\ fts'[r] = 0 /\ \A s \in Req : s # r => FtsKept(s)
  BY DEF FtsGet, Copies, FtsKept
<1>3. /\ db' \in [Req -> Rows] /\ \A s \in Req : s # r => db'[s] = db[s]
      /\ Exists(r) => db'[r] = Row("Assigned", o)
      /\ ~ Exists(r) => db'[r] = db[r]
  <2>1. CASE Exists(r)
    <3>1. SetStatus(r, "Assigned") /\ "Assigned" \in RowStatuses
      BY <2>1 DEF FtsGet, RowStatuses
    <3> QED BY <2>1, <3>1, SetStatusSeen
  <2>2. CASE ~ Exists(r)
    BY <2>2 DEF FtsGet, Copies
  <2> QED BY <2>1, <2>2
<1>4. \/ UNCHANGED puts /\ (Exists(r) => NextOp(o) # fts[r])
      \/ \E n \in Request :
           /\ DoneOf(o) \subseteq DoneOf(n)
           /\ Exists(r)
           /\ Put("fts", NoAgent, r, n) \in Puts /\ Put("fts", NoAgent, r, n).req = r
           /\ puts' = puts \cup {Put("fts", NoAgent, r, n)}
  <2>1. CASE ~ Exists(r)
    BY <2>1 DEF FtsGet
  <2>2. CASE Exists(r) /\ NextOp(o) # fts[r]
    <3>1. o \in Request /\ Reload(o) = o
      BY <2>2, RowFields, Copied
    <3> QED BY <2>2, <3>1 DEF FtsGet
  <2>3. CASE Exists(r) /\ NextOp(o) = fts[r]
    <3>1. o \in Request /\ Reload(o) = o
      BY <2>3, RowFields, Copied
    <3>2. PICK v \in {"Done", "Failed"} :
            puts' = puts \cup {Put("fts", NoAgent, r, Handle(Reload(o), fts[r], v))}
      BY <2>3, <3>1 DEF FtsGet
    <3>3. v \in FileStatuses /\ StatusOf(o) \in Unfinished
      BY <2>3, <3>1, Copied DEF FileStatuses, FtsGet
    <3> DEFINE n == Handle(o, fts[r], v)
    <3>4. n \in Request /\ DoneOf(o) \subseteq DoneOf(n)
      BY <2>3, <3>1, <3>3, CopyHandled
    <3>5. puts' = puts \cup {Put("fts", NoAgent, r, n)}
      BY <3>1, <3>2
    <3> HIDE DEF n
    <3>6. Put("fts", NoAgent, r, n) \in Puts /\ Put("fts", NoAgent, r, n).req = r
      BY <3>4, NewPut
    <3> QED BY <2>3, <3>4, <3>5, <3>6
  <2> QED BY <2>1, <2>2, <2>3
<1>5. puts' \subseteq Puts /\ \A s \in Req : s # r => PutsKept(s)
  BY <1>4 DEF Copies, PutsKept
<1>6. Copies'
  BY <1>1, <1>2, <1>3, <1>5, TasksLeft DEF Copies
<1>7. Others(r)
  BY <1>1, <1>2, <1>3, <1>5, TasksLeft
     DEF Others, Untouched, RowKept, HandsKept, ListKept, Listed
<1> QED BY <1>2, <1>3, <1>4, <1>6, <1>7

LEMMA CancelSeen ==
    ASSUME Copies, NEW r \in Req, Cancel(r)
    PROVE  Copies' /\ Others(r) /\ db'[r] = Row("Canceled", db[r].ops)
<1>1. Exists(r) /\ SetStatus(r, "Canceled") /\ "Canceled" \in RowStatuses
  BY DEF Cancel, RowStatuses
<1>2. /\ db' \in [Req -> Rows] /\ \A s \in Req : s # r => db'[s] = db[s]
      /\ db'[r] = Row("Canceled", db[r].ops)
  BY <1>1, SetStatusSeen
<1>3. UNCHANGED <<submitted, hand, cache, task, puts, fts, clean>>
  BY DEF Cancel, agentvars
<1>4. Copies'
  BY <1>2, <1>3, TasksLeft DEF Copies
<1> QED BY <1>2, <1>3, <1>4, TasksLeft
        DEF Others, Untouched, RowKept, HandsKept, PutsKept, FtsKept, ListKept, Listed

LEMMA ResetFailedSeen ==
    ASSUME Copies, NEW r \in Req, ResetFailed(r)
    PROVE  /\ Copies' /\ Others(r)
           /\ "force" \in Users \/ (StatusOf(db[r].ops) = "Failed" /\ ~ Resetting(r))
           /\ \E o \in Request :
                /\ DoneOf(db[r].ops) \subseteq DoneOf(o)
                /\ Put("user", NoAgent, r, o) \in Puts
                /\ puts' = puts \cup {Put("user", NoAgent, r, o)}
<1> DEFINE o == db[r].ops
           n == IF StatusOf(o) = "Failed" THEN Reset(o) ELSE o
<1>1. o \in Request /\ Reload(o) = o
  BY RowFields, Copied DEF ResetFailed
<1>2. /\ puts' = puts \cup {Put("user", NoAgent, r, n)}
      /\ "force" \in Users \/ (StatusOf(o) = "Failed" /\ ~ Resetting(r))
  BY <1>1 DEF ResetFailed
<1>3. n \in Request /\ DoneOf(o) \subseteq DoneOf(n)
  BY <1>1, CopyReset
<1> HIDE DEF n
<1>4. Put("user", NoAgent, r, n) \in Puts /\ Put("user", NoAgent, r, n).req = r
  BY <1>3, NewPut
<1>5. puts' \subseteq Puts /\ \A s \in Req : s # r => PutsKept(s)
  BY <1>2, <1>4 DEF Copies, PutsKept
<1>6. UNCHANGED <<db, submitted, hand, cache, task, fts, clean>>
  BY DEF ResetFailed, agentvars
<1>7. Copies'
  BY <1>5, <1>6, TasksLeft DEF Copies
<1>8. Others(r)
  BY <1>5, <1>6, TasksLeft DEF Others, Untouched, RowKept, HandsKept, FtsKept, ListKept, Listed
<1> QED BY <1>2, <1>3, <1>4, <1>7, <1>8

-----------------------------------------------------------------------------
\* The cleaning agent.
LEMMA AgeSeen ==
    ASSUME Copies, NEW r \in Req, Age(r)
    PROVE  /\ Copies' /\ Others(r)
           /\ db'[r].status = db[r].status /\ db'[r].ops = db[r].ops /\ db'[r].old = TRUE
<1>1. db[r] \in [status : RowStatuses, ops : Request, old : BOOLEAN]
  BY RowFields DEF Rows, NoRow, Exists, Age
<1> DEFINE row == [db[r] EXCEPT !.old = TRUE]
<1>2. row \in Rows /\ row.status = db[r].status /\ row.ops = db[r].ops /\ row.old = TRUE
  BY <1>1 DEF Rows
<1>3. db' = [db EXCEPT ![r] = row]
  BY DEF Age
<1> HIDE DEF row
<1>4. db' \in [Req -> Rows] /\ db'[r] = row /\ \A s \in Req : s # r => db'[s] = db[s]
  BY <1>2, <1>3 DEF Copies
<1>5. UNCHANGED <<submitted, hand, cache, task, puts, fts, clean>>
  BY DEF Age, agentvars
<1>6. Copies'
  BY <1>4, <1>5, TasksLeft DEF Copies
<1>7. Others(r)
  BY <1>4, <1>5, TasksLeft
     DEF Others, Untouched, RowKept, HandsKept, PutsKept, FtsKept, ListKept, Listed
<1> QED BY <1>2, <1>4, <1>6, <1>7

\* A step that only moves the agent's cycle on.
CycleMoves ==
    UNCHANGED <<db, submitted, hand, cache, task, puts, fts>>

LEMMA CycleSeen ==
    ASSUME Copies, CycleMoves, clean' \in [pc : {"idle", "kick", "delete"}, list : SUBSET Req]
    PROVE  /\ Copies'
           /\ \A r \in Req : ListKept(r) => Untouched(r)
BY TasksLeft DEF Copies, CycleMoves, Untouched, RowKept, HandsKept, PutsKept, FtsKept

LEMMA StartCycleSeen ==
    ASSUME Copies, StartCycle
    PROVE  Copies' /\ \A r \in Req : Untouched(r)
<1>1. CycleMoves /\ clean' \in [pc : {"idle", "kick", "delete"}, list : SUBSET Req]
  BY DEF StartCycle, CycleMoves, agentvars
<1> QED BY <1>1, CycleSeen DEF StartCycle, ListKept, Listed

LEMMA ListFinalSeen ==
    ASSUME Copies, ListFinal
    PROVE  /\ Copies' /\ CycleMoves
           /\ \A r \in Req : \/ Untouched(r)
                             \/ Listed(r)' /\ db[r].status \in FinalStates /\ db[r].old
<1>1. CycleMoves /\ clean' \in [pc : {"idle", "kick", "delete"}, list : SUBSET Req]
  BY DEF ListFinal, CycleMoves, agentvars
<1> QED BY <1>1, CycleSeen DEF ListFinal, ListKept, Listed

LEMMA EndCycleSeen ==
    ASSUME Copies, EndCycle
    PROVE  Copies' /\ \A r \in Req : Untouched(r)
<1>1. CycleMoves /\ clean' \in [pc : {"idle", "kick", "delete"}, list : SUBSET Req]
  BY DEF EndCycle, CycleMoves, agentvars, Copies
<1> QED BY <1>1, CycleSeen DEF EndCycle, ListKept, Listed

LEMMA KickSeen ==
    ASSUME Copies, NEW r \in Req, Kick(r)
    PROVE  /\ Copies' /\ Others(r)
           /\ IF db[r].status = "Assigned" /\ db[r].old
              THEN /\ Put("kick", NoAgent, r, db[r].ops) \in Puts
                   /\ puts' = puts \cup {Put("kick", NoAgent, r, db[r].ops)}
              ELSE UNCHANGED puts
<1> DEFINE late == db[r].status = "Assigned" /\ db[r].old
           q == Put("kick", NoAgent, r, db[r].ops)
<1>1. late => q \in Puts /\ q.req = r
  <2>1. late => db[r].ops \in Request
    BY RowFields DEF Exists
  <2> QED BY <2>1, NewPut
<1>2. puts' = IF late THEN puts \cup {q} ELSE puts
  BY DEF Kick
<1> HIDE DEF q, late
<1>3. puts' \subseteq Puts /\ \A s \in Req : s # r => PutsKept(s)
  BY <1>1, <1>2 DEF Copies, PutsKept
<1>4. /\ UNCHANGED <<db, submitted, hand, cache, task, fts>>
      /\ clean' \in [pc : {"idle", "kick", "delete"}, list : SUBSET Req]
      /\ clean.pc = "kick" /\ clean'.pc = "kick"
  BY DEF Kick, agentvars, Copies
<1>5. Copies'
  BY <1>3, <1>4, TasksLeft DEF Copies
<1>6. Others(r)
  BY <1>3, <1>4, TasksLeft DEF Others, Untouched, RowKept, HandsKept, FtsKept, ListKept, Listed
<1> QED BY <1>1, <1>2, <1>5, <1>6 DEF q, late

LEMMA DeleteSeen ==
    ASSUME Copies, NEW r \in Req, Delete(r)
    PROVE  Copies' /\ Others(r) /\ db'[r] = NoRow /\ Listed(r) /\ ~ Listed(r)'
<1>1. db' \in [Req -> Rows] /\ db'[r] = NoRow /\ \A s \in Req : s # r => db'[s] = db[s]
  BY DEF Delete, Copies, Rows
<1>2. /\ UNCHANGED <<submitted, hand, cache, task, puts, fts>>
      /\ clean' \in [pc : {"idle", "kick", "delete"}, list : SUBSET Req]
      /\ Listed(r) /\ ~ Listed(r)' /\ \A s \in Req : s # r => ListKept(s)
  BY DEF Delete, agentvars, Copies, Listed, ListKept
<1>3. Copies'
  BY <1>1, <1>2, TasksLeft DEF Copies
<1>4. Others(r)
  BY <1>1, <1>2, TasksLeft DEF Others, Untouched, RowKept, HandsKept, PutsKept, FtsKept
<1> QED BY <1>1, <1>2, <1>3, <1>4

LEMMA StutterSeen ==
    ASSUME Copies, UNCHANGED vars
    PROVE  Copies' /\ \A r \in Req : Untouched(r)
BY TasksLeft DEF vars, agentvars, Copies, Untouched, RowKept, HandsKept, PutsKept, FtsKept, ListKept,
                 Listed

-----------------------------------------------------------------------------
LEMMA CopiesInitially ==
    ASSUME Init
    PROVE  Copies
<1>1. /\ NoRow \in Rows /\ EmptyHand \in Hands /\ NoCopy \in Cached /\ NoTask \in Tasks
  BY DEF Rows, Hands, Cached, Tasks
<1>2. [r \in Req |-> NoCopy] \in [Req -> Cached] /\ [r \in Req |-> NoTask] \in [Req -> Tasks]
  BY <1>1
<1> QED BY <1>1, <1>2 DEF Init, Copies

LEMMA CopiesKept ==
    ASSUME Copies, [Next]_vars
    PROVE  Copies'
<1>1. ASSUME NEW a \in Agent, NEW r \in Req, FetchStep(a, r) PROVE Copies'
  BY <1>1, BulkFetchSeen, SelectRequestSeen DEF FetchStep
<1>2. ASSUME NEW a \in Agent, NEW r \in Req, TaskStep(a, r) PROVE Copies'
  BY <1>2, ExecuteSeen, NoProxySeen, RaiseSeen, LeaveSeen, FinalizeSeen, TimeoutSeen DEF TaskStep
<1>3. ASSUME NEW a \in Agent, NEW r \in Req, Callback(a, r) PROVE Copies'
  BY <1>3, CallbackSeen
<1>4. ASSUME NEW a \in Agent, AgentStep(a) \/ Crash(a) \/ Stop(a) PROVE Copies'
  BY <1>4, AssignRequestSeen, LoseRequestSeen, StartTaskSeen, CrashSeen, StopSeen DEF AgentStep
<1>5. CASE PutStep
  BY <1>5, PutCheckSeen, PutMergeSeen, PutFailsSeen DEF PutStep
<1>6. CASE CleanStep
  BY <1>6, StartCycleSeen, ListFinalSeen, EndCycleSeen, KickSeen, DeleteSeen DEF CleanStep
<1>7. ASSUME NEW r \in Req,
             Submit(r) \/ FtsCheck(r) \/ FtsGet(r) \/ Cancel(r) \/ ResetFailed(r) \/ Age(r)
      PROVE  Copies'
  BY <1>7, SubmitSeen, FtsCheckSeen, FtsGetSeen, CancelSeen, ResetFailedSeen, AgeSeen
<1>8. CASE UNCHANGED vars
  BY <1>8, StutterSeen
<1> QED BY <1>1, <1>2, <1>3, <1>4, <1>5, <1>6, <1>7, <1>8 DEF Next

LEMMA CopiesAlways == Spec => []Copies
<1>1. Init => Copies
  BY CopiesInitially
<1>2. Copies /\ [Next]_vars => Copies'
  BY CopiesKept
<1> QED BY <1>1, <1>2, PTL DEF Spec

(***************************************************************************)
(* Every copy of a request, in the database, in an agent, in a task or in  *)
(* a call of putRequest, is well formed; the same holds of what the other  *)
(* variables keep.  (Copies says more: each is also a request in order,    *)
(* which Request._notify has been through.)                                *)
(***************************************************************************)
THEOREM RequestsTyped == Spec => []TypeOK
<1>1. Copies => TypeOK
  BY CopiesTyped
<1> QED BY <1>1, CopiesAlways, PTL

-----------------------------------------------------------------------------
(***************************************************************************)
(* Nothing is known of a request before it is submitted, and an agent      *)
(* keeps a request in its cache as long as it has a task for it.           *)
(***************************************************************************)
Unknown(r) ==
    /\ ~ Exists(r)
    /\ fts[r] = 0
    /\ \A p \in puts : p.req # r
    /\ \A a \in Agent : hand[a].req # r /\ task[a][r].pc = "none" /\ cache[a][r] = NoCopy

Known(r) == r \in submitted \/ Unknown(r)

Together(r) == \A a \in Agent : cache[a][r] # NoCopy <=> task[a][r].pc # "none"

Kept == Copies /\ \A r \in Req : Known(r) /\ Together(r)

LEMMA UntouchedKnown ==
    ASSUME Copies, Copies', NEW r \in Req, Untouched(r), Known(r), Together(r)
    PROVE  Known(r)' /\ Together(r)'
<1>1. Together(r)'
  BY DEF Untouched, TasksKept, Together
<1>2. Unknown(r) => Unknown(r)'
  BY DEF Copies, Untouched, RowKept, HandsKept, TasksKept, PutsKept, FtsKept, Unknown, Exists
<1> QED BY <1>1, <1>2 DEF Known, Untouched, RowKept

LEMMA SubmittedGrows ==
    ASSUME [Next]_vars
    PROVE  submitted \subseteq submitted'
<1>1. ASSUME NEW a \in Agent, NEW r \in Req, FetchStep(a, r) \/ TaskStep(a, r) \/ Callback(a, r)
      PROVE  submitted \subseteq submitted'
  BY <1>1 DEF FetchStep, BulkFetch, SelectRequest, TaskStep, Execute, NoProxy, Raise, Leave, Finalize,
              Timeout, Callback
<1>2. ASSUME NEW a \in Agent, AgentStep(a) \/ Crash(a) \/ Stop(a)
      PROVE  submitted \subseteq submitted'
  BY <1>2 DEF AgentStep, AssignRequest, LoseRequest, StartTask, Crash, Stop
<1>3. CASE PutStep
  BY <1>3 DEF PutStep, PutCheck, PutMerge, PutFails, Merge
<1>4. CASE CleanStep
  BY <1>4 DEF CleanStep, StartCycle, ListFinal, EndCycle, Kick, Delete
<1>5. ASSUME NEW r \in Req,
             Submit(r) \/ FtsCheck(r) \/ FtsGet(r) \/ Cancel(r) \/ ResetFailed(r) \/ Age(r)
      PROVE  submitted \subseteq submitted'
  BY <1>5 DEF Submit, FtsCheck, FtsGet, Cancel, ResetFailed, Age
<1>6. CASE UNCHANGED vars
  BY <1>6 DEF vars
<1> QED BY <1>1, <1>2, <1>3, <1>4, <1>5, <1>6 DEF Next

LEMMA NothingLeftUnknown ==
    ASSUME Copies, NEW a \in Agent, NothingLeft(a), NEW r \in Req, Unknown(r)
    PROVE  \A b \in Agent : hand'[b].req # r /\ task'[b][r].pc = "none" /\ cache'[b][r] = NoCopy
<1>1. EmptyHand.req # r /\ NoTask.pc = "none"
  BY RequestAssumption DEF EmptyHand, NoTask
<1>2. \A b \in Agent : hand[b].req # r /\ task[b][r].pc = "none" /\ cache[b][r] = NoCopy
  BY DEF Unknown
<1> QED BY <1>1, <1>2, NothingLeftSeen

LEMMA KnownStays ==
    ASSUME Copies, [Next]_vars, NEW r \in Req, Known(r)
    PROVE  Known(r)'
<1>0. Copies'
  BY CopiesKept
<1>1. submitted \subseteq submitted'
  BY SubmittedGrows
<1> SUFFICES ASSUME Unknown(r) PROVE Known(r)'
  BY <1>1 DEF Known
<1>2. ASSUME NEW s \in Req, s # r, Others(s) PROVE Known(r)'
  <2>1. Untouched(r)
    BY <1>2 DEF Others
  <2> QED BY <1>0, <2>1 DEF Copies, Untouched, RowKept, HandsKept, TasksKept, PutsKept, FtsKept,
                            Known, Unknown, Exists
<1>3. ASSUME Untouched(r) PROVE Known(r)'
  BY <1>0, <1>3 DEF Copies, Untouched, RowKept, HandsKept, TasksKept, PutsKept, FtsKept,
                    Known, Unknown, Exists
<1>4. ASSUME NEW a \in Agent, NEW s \in Req, FetchStep(a, s) PROVE Known(r)'
  <2>1. s # r /\ Others(s)
    BY <1>4, BulkFetchSeen, SelectRequestSeen
       DEF FetchStep, BulkFetch, SelectRequest, Unknown, Exists
  <2> QED BY <1>2, <2>1
<1>5. ASSUME NEW a \in Agent, NEW s \in Req, TaskStep(a, s) PROVE Known(r)'
  <2>1. s # r /\ Others(s)
    BY <1>5, ExecuteSeen, NoProxySeen, RaiseSeen, LeaveSeen, FinalizeSeen, TimeoutSeen
       DEF TaskStep, Unknown, Execute, NoProxy, Raise, Leave, Finalize, Timeout
  <2> QED BY <1>2, <2>1
<1>6. ASSUME NEW a \in Agent, NEW s \in Req, Callback(a, s) PROVE Known(r)'
  BY <1>2, <1>6, CallbackSeen DEF Callback, Unknown
<1>7. ASSUME NEW a \in Agent, AgentStep(a) PROVE Known(r)'
  BY <1>2, <1>7, AssignRequestSeen, LoseRequestSeen, StartTaskSeen DEF AgentStep, Unknown
<1>8. ASSUME NEW a \in Agent, Crash(a) PROVE Known(r)'
  <2>1. NothingLeft(a) /\ UNCHANGED <<db, submitted, puts, fts, clean>>
    BY <1>8 DEF Crash
  <2>2. \A b \in Agent : hand'[b].req # r /\ task'[b][r].pc = "none" /\ cache'[b][r] = NoCopy
    BY <2>1, NothingLeftUnknown
  <2> QED BY <2>1, <2>2 DEF Known, Unknown, Exists
<1>9. ASSUME NEW a \in Agent, Stop(a) PROVE Known(r)'
  <2>1. NothingLeft(a) /\ UNCHANGED <<db, submitted, fts, clean>>
    BY <1>9 DEF Stop
  <2>2. PICK s \in Req : /\ cache[a][s] # NoCopy
                         /\ puts' = puts \cup {Put("stop", a, s, cache[a][s])}
    BY <1>9, StopSeen
  <2>3. s # r /\ Put("stop", a, s, cache[a][s]).req = s
    BY <2>2 DEF Unknown, Put
  <2>4. \A p \in puts' : p.req # r
    BY <2>2, <2>3 DEF Unknown
  <2>5. \A b \in Agent : hand'[b].req # r /\ task'[b][r].pc = "none" /\ cache'[b][r] = NoCopy
    BY <2>1, NothingLeftUnknown
  <2> QED BY <2>1, <2>4, <2>5 DEF Known, Unknown, Exists
<1>10. CASE PutStep
  <2>1. PICK p \in puts : PutCheck(p) \/ PutMerge(p) \/ PutFails(p)
    BY <1>10 DEF PutStep
  <2>2. p.req \in Req /\ p.req # r
    BY PutFields DEF Unknown
  <2> QED BY <1>2, <2>1, <2>2, PutCheckSeen, PutMergeSeen, PutFailsSeen
<1>11. ASSUME NEW s \in Req, Kick(s) PROVE Known(r)'
  <2>1. s = r => Untouched(r)
    BY <1>11, TasksLeft
       DEF Kick, agentvars, Unknown, Exists, Untouched, RowKept, HandsKept, PutsKept, FtsKept,
           ListKept, Listed, Copies
  <2> QED BY <1>2, <1>3, <1>11, <2>1, KickSeen
<1>12. ASSUME NEW s \in Req, Delete(s) PROVE Known(r)'
  <2>1. s = r => Unknown(r)'
    BY <1>12, DeleteSeen DEF Delete, agentvars, Unknown, Exists, NoRow
  <2> QED BY <1>2, <1>12, <2>1, DeleteSeen DEF Known
<1>13. CASE StartCycle \/ ListFinal \/ EndCycle
  BY <1>13 DEF StartCycle, ListFinal, EndCycle, agentvars, Known, Unknown, Exists
<1>14. ASSUME NEW s \in Req, Submit(s) PROVE Known(r)'
  BY <1>2, <1>14, SubmitSeen DEF Submit, Known
<1>15. ASSUME NEW s \in Req, FtsCheck(s) \/ FtsGet(s) PROVE Known(r)'
  BY <1>2, <1>15, FtsCheckSeen, FtsGetSeen DEF FtsCheck, FtsGet, Unknown, Exists
<1>16. ASSUME NEW s \in Req, Cancel(s) \/ ResetFailed(s) \/ Age(s) PROVE Known(r)'
  BY <1>2, <1>16, CancelSeen, ResetFailedSeen, AgeSeen DEF Cancel, ResetFailed, Age, Unknown
<1>17. CASE UNCHANGED vars
  BY <1>3, <1>17, StutterSeen
<1> QED BY <1>4, <1>5, <1>6, <1>7, <1>8, <1>9, <1>10, <1>11, <1>12, <1>13, <1>14, <1>15, <1>16, <1>17
        DEF Next, CleanStep

\* What becomes of the task of one agent for one request, whatever the step.
LEMMA TaskMoved ==
    ASSUME Copies, NEW a \in Agent, NEW r \in Req, task[a][r].pc # "none", Together(r),
           NEW t, t.pc # "none", TaskMoves(a, r, t)
    PROVE  Together(r)'
BY DEF Together, TaskMoves

LEMMA TogetherStays ==
    ASSUME Copies, [Next]_vars, NEW r \in Req, Together(r)
    PROVE  Together(r)'
<1>1. ASSUME TasksKept(r) PROVE Together(r)'
  BY <1>1 DEF TasksKept, Together
<1>2. ASSUME NEW s \in Req, s # r, Others(s) PROVE Together(r)'
  BY <1>1, <1>2 DEF Others, Untouched
<1>3. ASSUME UNCHANGED <<cache, task>> PROVE Together(r)'
  BY <1>1, <1>3, TasksLeft
<1>4. ASSUME NEW a \in Agent, NEW s \in Req, FetchStep(a, s) PROVE Together(r)'
  BY <1>3, <1>4 DEF FetchStep, BulkFetch, SelectRequest
<1>5. ASSUME NEW a \in Agent, NEW s \in Req, TaskStep(a, s) PROVE Together(r)'
  <2> SUFFICES ASSUME s = r PROVE Together(r)'
    BY <1>2, <1>5, ExecuteSeen, NoProxySeen, RaiseSeen, LeaveSeen, FinalizeSeen, TimeoutSeen DEF TaskStep
  <2>1. task[a][r].pc # "none"
    BY <1>5 DEF TaskStep, Execute, NoProxy, Raise, Leave, Finalize, Timeout
  <2>2. task[a][r].result \in {"none", "ok", "error", "timeout"}
    BY <2>1, TaskFields
  <2>3. \A pc \in {"running", "put", "finalize", "ended"},
           result \in {"none", "ok", "error", "timeout"} :
             Onward(task[a][r], pc, result).pc # "none"
    BY <2>1, OnwardFields
  <2>4. CASE Execute(a, r)
    <3>1. PICK t \in Tasks : t.pc # "none" /\ TaskMoves(a, r, t)
      BY <2>4, ExecuteSeen
    <3> QED BY <2>1, <3>1, TaskMoved
  <2>5. CASE NoProxy(a, r)
    <3>1. PICK t \in Tasks : t.pc # "none" /\ TaskMoves(a, r, t)
      <4>1. PICK o \in Request : TaskMoves(a, r, [pc |-> "ended", ops |-> o, result |-> "ok"])
        BY <2>5, NoProxySeen
      <4> QED BY <4>1 DEF Tasks
    <3> QED BY <2>1, <3>1, TaskMoved
  <2>6. CASE Raise(a, r) \/ Timeout(a, r) \/ Finalize(a, r) \/ Leave(a, r)
    <3>1. \E pc \in {"running", "put", "finalize", "ended"},
             result \in {"none", "ok", "error", "timeout"} :
               TaskMoves(a, r, Onward(task[a][r], pc, result))
      BY <2>2, <2>6, RaiseSeen, TimeoutSeen, FinalizeSeen, LeaveSeen
    <3> QED BY <2>1, <2>3, <3>1, TaskMoved
  <2> QED BY <1>5, <2>4, <2>5, <2>6 DEF TaskStep
<1>6. ASSUME NEW a \in Agent, NEW s \in Req, Callback(a, s) PROVE Together(r)'
  BY <1>2, <1>6, CallbackSeen DEF Together, NoTask
<1>7. ASSUME NEW a \in Agent, AgentStep(a) PROVE Together(r)'
  <2>1. CASE StartTask(a)
    <3>1. hand[a].ops # NoCopy /\ Started(hand[a].ops).pc # "none"
      BY <2>1, StartTaskSeen, Copied DEF Started
    <3>2. CASE r = hand[a].req /\ cache[a][r] = NoCopy
      BY <2>1, <3>1, <3>2, StartTaskSeen DEF Together
    <3>3. CASE ~ (r = hand[a].req /\ cache[a][r] = NoCopy)
      BY <1>1, <1>2, <2>1, <3>3, StartTaskSeen
    <3> QED BY <3>2, <3>3
  <2>2. CASE AssignRequest(a) \/ LoseRequest(a)
    BY <1>3, <2>2 DEF AssignRequest, LoseRequest
  <2> QED BY <1>7, <2>1, <2>2 DEF AgentStep
<1>8. ASSUME NEW a \in Agent, Crash(a) \/ Stop(a) PROVE Together(r)'
  BY <1>8, CrashSeen, StopSeen, NothingLeftSeen DEF Together, NoTask
<1>9. CASE PutStep
  <2>1. PICK p \in puts : PutCheck(p) \/ PutMerge(p) \/ PutFails(p)
    BY <1>9 DEF PutStep
  <2>2. UNCHANGED cache /\ (UNCHANGED task \/ \E ok \in BOOLEAN : Answer(p, ok))
    BY <2>1 DEF PutCheck, PutMerge, PutFails, Merge
  <2> SUFFICES ASSUME NEW ok \in BOOLEAN, Answer(p, ok) PROVE Together(r)'
    BY <1>3, <2>2
  <2>3. CASE r # p.req \/ ~ (p.by = "task" /\ task[p.agent][p.req].pc = "put")
    BY <1>1, <2>2, <2>3, AnswerSeen
  <2>4. CASE r = p.req /\ p.by = "task" /\ task[p.agent][p.req].pc = "put"
    <3> DEFINE t == [task[p.agent][p.req] EXCEPT !.pc = IF ok THEN "finalize" ELSE "ended",
                                                 !.result = IF ok THEN @ ELSE "error"]
    <3>1. p.agent \in Agent /\ TaskMoves(p.agent, r, t)
      BY <2>2, <2>4, AnswerSeen
    <3>2. task[p.agent][r] \in [pc : {"running", "put", "finalize", "ended"}, ops : Request,
                                result : {"none", "ok", "error", "timeout"}]
      BY <2>4, <3>1, TaskFields DEF Tasks, NoTask
    <3>3. t.pc # "none"
      BY <2>4, <3>2
    <3> HIDE DEF t
    <3> QED BY <2>4, <3>1, <3>3, TaskMoved
  <2> QED BY <2>3, <2>4
<1>10. CASE CleanStep
  BY <1>3, <1>10 DEF CleanStep, StartCycle, ListFinal, EndCycle, Kick, Delete, agentvars
<1>11. ASSUME NEW s \in Req,
              Submit(s) \/ FtsCheck(s) \/ FtsGet(s) \/ Cancel(s) \/ ResetFailed(s) \/ Age(s)
       PROVE  Together(r)'
  BY <1>3, <1>11 DEF Submit, FtsCheck, FtsGet, Cancel, ResetFailed, Age, agentvars
<1>12. CASE UNCHANGED vars
  BY <1>3, <1>12 DEF vars, agentvars
<1> QED BY <1>4, <1>5, <1>6, <1>7, <1>8, <1>9, <1>10, <1>11, <1>12 DEF Next

LEMMA KeptAlways == Spec => []Kept
<1>1. Init => Kept
  <2> SUFFICES ASSUME Init PROVE \A r \in Req : Known(r) /\ Together(r)
    BY CopiesInitially DEF Kept
  <2> QED BY RequestAssumption
          DEF Init, Known, Unknown, Together, Exists, NoRow, EmptyHand, NoTask
<1>2. Kept /\ [Next]_vars => Kept'
  BY CopiesKept, KnownStays, TogetherStays DEF Kept
<1> QED BY <1>1, <1>2, PTL DEF Spec

-----------------------------------------------------------------------------
(***************************************************************************)
(* A canceled request.  In bulk, rows are read and assigned in one step.   *)
(***************************************************************************)
NeverRead == \A a \in Agent : hand[a].pc # "read"

LEMMA NeverReadStays ==
    ASSUME Bulk, Copies, [Next]_vars, NeverRead
    PROVE  NeverRead'
<1>1. ASSUME UNCHANGED hand PROVE NeverRead'
  BY <1>1 DEF NeverRead
<1>2. ASSUME NEW a \in Agent, NEW r \in Req, FetchStep(a, r) \/ TaskStep(a, r) \/ Callback(a, r)
      PROVE  NeverRead'
  <2>1. CASE BulkFetch(a, r)
    <3>1. hand' = [hand EXCEPT ![a] = [pc |-> "assigned", req |-> r, ops |-> db[r].ops]]
      BY <2>1 DEF BulkFetch
    <3> QED BY <3>1 DEF NeverRead, Copies
  <2>2. CASE ~ BulkFetch(a, r)
    BY <1>1, <1>2, <2>2
       DEF FetchStep, SelectRequest, TaskStep, Execute, NoProxy, Raise, Leave, Finalize, Timeout, Callback
  <2> QED BY <2>1, <2>2
<1>3. ASSUME NEW a \in Agent, AgentStep(a) PROVE NeverRead'
  <2>1. hand' = [hand EXCEPT ![a] = EmptyHand]
    BY <1>3 DEF AgentStep, AssignRequest, LoseRequest, StartTask, NeverRead
  <2> QED BY <2>1 DEF NeverRead, Copies, EmptyHand
<1>4. ASSUME NEW a \in Agent, Crash(a) \/ Stop(a) PROVE NeverRead'
  BY <1>4, CrashSeen, StopSeen, NothingLeftSeen DEF NeverRead, EmptyHand
<1>5. CASE PutStep
  BY <1>1, <1>5 DEF PutStep, PutCheck, PutMerge, PutFails, Merge
<1>6. CASE CleanStep
  BY <1>1, <1>6 DEF CleanStep, StartCycle, ListFinal, EndCycle, Kick, Delete, agentvars
<1>7. ASSUME NEW r \in Req,
             Submit(r) \/ FtsCheck(r) \/ FtsGet(r) \/ Cancel(r) \/ ResetFailed(r) \/ Age(r)
      PROVE  NeverRead'
  BY <1>1, <1>7 DEF Submit, FtsCheck, FtsGet, Cancel, ResetFailed, Age, agentvars
<1>8. CASE UNCHANGED vars
  BY <1>1, <1>8 DEF vars, agentvars
<1> QED BY <1>2, <1>3, <1>4, <1>5, <1>6, <1>7, <1>8 DEF Next

\* No put of a canceled request gets past the look at its status.
LEMMA CanceledStays ==
    ASSUME Kept, NeverRead, Bulk, [Next]_vars, NEW r \in Req, CanceledForGood(r)
    PROVE  CanceledForGood(r)' \/ db'[r].status = "none"
<1> DEFINE Goal == CanceledForGood(r)' \/ db'[r].status = "none"
<1>0. /\ Copies /\ Copies' /\ Known(r) /\ Exists(r)
      /\ db[r].status = "Canceled" /\ fts[r] = 0
      /\ \A p \in puts : p.req = r => p.stage # "merge"
  BY CopiesKept DEF Kept, CanceledForGood, PastCheck, Exists
<1>1. ASSUME db'[r].status = "Canceled", fts'[r] = 0,
             \A p \in puts' : p.req = r => p \in puts \/ p.stage = "check"
      PROVE  Goal
  BY <1>0, <1>1 DEF CanceledForGood, PastCheck
<1>2. ASSUME Untouched(r) PROVE Goal
  <2>1. \A p \in puts' : p.req = r => p \in puts
    BY <1>0, <1>2 DEF Untouched, PutsKept, Copies
  <2> QED BY <1>0, <1>1, <1>2, <2>1 DEF Untouched, RowKept, FtsKept
<1>3. ASSUME NEW s \in Req, s # r, Others(s) PROVE Goal
  BY <1>2, <1>3 DEF Others
<1>4. \A by, a, o : Put(by, a, r, o).stage = "check"
  BY DEF Put
<1>5. ASSUME UNCHANGED <<db, fts, puts>> PROVE Goal
  BY <1>0, <1>1, <1>5
<1>6. ASSUME UNCHANGED <<db, fts>>, NEW q, q.stage = "check", puts' = puts \cup {q} PROVE Goal
  BY <1>0, <1>1, <1>6
<1>7. ASSUME NEW a \in Agent, NEW s \in Req, FetchStep(a, s) PROVE Goal
  BY <1>0, <1>3, <1>7, BulkFetchSeen DEF FetchStep, BulkFetch, SelectRequest
<1>8. ASSUME NEW a \in Agent, NEW s \in Req, TaskStep(a, s) PROVE Goal
  <2>1. CASE Leave(a, s)
    BY <1>5, <1>6, <2>1 DEF Leave, Put
  <2>2. CASE ~ Leave(a, s)
    BY <1>5, <1>8, <2>2 DEF TaskStep, Execute, NoProxy, Raise, Finalize, Timeout
  <2> QED BY <2>1, <2>2
<1>9. ASSUME NEW a \in Agent, NEW s \in Req, Callback(a, s) PROVE Goal
  BY <1>5, <1>6, <1>9 DEF Callback, Put
<1>10. ASSUME NEW a \in Agent, AgentStep(a) PROVE Goal
  BY <1>5, <1>10 DEF AgentStep, AssignRequest, LoseRequest, StartTask, NeverRead
<1>11. ASSUME NEW a \in Agent, Crash(a) \/ Stop(a) PROVE Goal
  BY <1>5, <1>6, <1>11 DEF Crash, Stop, Put
<1>12. CASE PutStep
  <2>1. PICK p \in puts : PutCheck(p) \/ PutMerge(p) \/ PutFails(p)
    BY <1>12 DEF PutStep
  <2>2. CASE p.req # r
    <3>1. p.req \in Req
      BY <1>0, PutFields
    <3> QED BY <1>0, <1>3, <2>1, <2>2, <3>1, PutCheckSeen, PutMergeSeen, PutFailsSeen
  <2>3. CASE p.req = r
    <3>1. UNCHANGED <<db, fts>> /\ puts' = puts \ {p}
      BY <1>0, <2>1, <2>3 DEF PutCheck, PutMerge, PutFails, Merge
    <3> QED BY <1>0, <1>1, <3>1
  <2> QED BY <2>2, <2>3
<1>13. ASSUME NEW s \in Req, Kick(s) PROVE Goal
  BY <1>5, <1>6, <1>13 DEF Kick, agentvars, Put
<1>14. ASSUME NEW s \in Req, Delete(s) PROVE Goal
  BY <1>0, <1>3, <1>14, DeleteSeen DEF NoRow
<1>15. CASE StartCycle \/ ListFinal \/ EndCycle
  BY <1>5, <1>15 DEF StartCycle, ListFinal, EndCycle
<1>16. ASSUME NEW s \in Req, Submit(s) PROVE Goal
  <2>1. s # r
    BY <1>0, <1>16 DEF Submit, Known, Unknown
  <2> QED BY <1>0, <1>3, <1>16, <2>1, SubmitSeen
<1>17. ASSUME NEW s \in Req, FtsCheck(s) \/ FtsGet(s) PROVE Goal
  BY <1>0, <1>3, <1>17, FtsCheckSeen, FtsGetSeen DEF FtsCheck, FtsGet
<1>18. ASSUME NEW s \in Req, Cancel(s) \/ Age(s) PROVE Goal
  <2>1. s = r => db'[r].status = "Canceled"
    <3>1. ASSUME Cancel(s), s = r PROVE db'[r].status = "Canceled"
      <4>1. db'[r] = Row("Canceled", db[r].ops)
        BY <1>0, <3>1, CancelSeen
      <4> QED BY <4>1 DEF Row
    <3>2. ASSUME Age(s), s = r PROVE db'[r].status = "Canceled"
      BY <1>0, <3>2, AgeSeen
    <3> QED BY <1>18, <3>1, <3>2
  <2>2. UNCHANGED <<fts, puts>>
    BY <1>18 DEF Cancel, Age
  <2> QED BY <1>0, <1>1, <1>3, <1>18, <2>1, <2>2, CancelSeen, AgeSeen
<1>19. ASSUME NEW s \in Req, ResetFailed(s) PROVE Goal
  <2>1. PICK o : puts' = puts \cup {Put("user", NoAgent, s, o)}
    BY <1>0, <1>19, ResetFailedSeen
  <2> QED BY <1>6, <1>19, <2>1 DEF ResetFailed, Put
<1>20. CASE UNCHANGED vars
  BY <1>5, <1>20 DEF vars
<1> QED BY <1>7, <1>8, <1>9, <1>10, <1>11, <1>12, <1>13, <1>14, <1>15, <1>16, <1>17, <1>18, <1>19, <1>20
        DEF Next, CleanStep

(***************************************************************************)
(* With getBulkRequests, which assigns the rows it reads in the same       *)
(* transaction, a canceled request that no put and no FTS3 callback has    *)
(* seen before stays canceled until it is deleted, whatever faults there   *)
(* are.  (getRequest reads first and assigns whatever the row has become.) *)
(***************************************************************************)
THEOREM CanceledForEver == Bulk => (Spec => CanceledRemains)
<1> SUFFICES ASSUME Bulk PROVE Spec => CanceledRemains
  OBVIOUS
<1>1. Init => NeverRead
  BY DEF Init, NeverRead, EmptyHand
<1>2. Copies /\ NeverRead /\ [Next]_vars => NeverRead'
  BY NeverReadStays
<1>3. Kept /\ NeverRead /\ [Next]_vars =>
        [\A r \in Req : CanceledForGood(r) => CanceledForGood(r)' \/ db'[r].status = "none"]_vars
  BY CanceledStays
<1> QED BY <1>1, <1>2, <1>3, CopiesAlways, KeptAlways, PTL DEF Spec, CanceledRemains

-----------------------------------------------------------------------------
(***************************************************************************)
(* The cleaning agent, whose grace periods outlast whatever is under way:  *)
(* what is old is left alone, except for the kick; and what it has listed  *)
(* to be deleted is over, whatever comes between the list and the deletion.*)
(***************************************************************************)
Works(a, r) == hand[a].req = r \/ task[a][r].pc # "none"

Undisturbed(r) ==
    db[r].old =>
        /\ \A a \in Agent : /\ task[a][r].pc = "none"
                            /\ hand[a].req = r => hand[a].pc = "read" /\ db[r].status = "Waiting"
        /\ \A p \in puts : p.req = r => p.by = "kick"
        /\ fts[r] # 0 => db[r].status = "Scheduled"

Finished(r) ==
    Listed(r) =>
        /\ db[r].status \in FinalStates
        /\ db[r].old \/ db[r].status = "Canceled"
        /\ fts[r] = 0 /\ \A a \in Agent : ~ Works(a, r)
        /\ \A p \in puts : p.req = r => p.stage = "check" /\ db[r].status = "Canceled"

Over(r) == Undisturbed(r) /\ Finished(r)

LEMMA UntouchedOver ==
    ASSUME Copies, Copies', NEW r \in Req, Untouched(r), Over(r)
    PROVE  Over(r)'
<1>1. \A p \in puts' : p.req = r => p \in puts
  BY DEF Untouched, PutsKept, Copies
<1>2. /\ db'[r] = db[r] /\ fts'[r] = fts[r] /\ (Listed(r)' <=> Listed(r))
      /\ \A a \in Agent : /\ task'[a][r] = task[a][r]
                          /\ hand'[a].req = r => hand'[a] = hand[a]
  BY DEF Untouched, RowKept, FtsKept, ListKept, TasksKept, HandsKept
<1>3. Undisturbed(r)'
  BY <1>1, <1>2 DEF Over, Undisturbed
<1>4. Finished(r)'
  BY <1>1, <1>2 DEF Over, Finished, Works
<1> QED BY <1>3, <1>4 DEF Over

LEMMA PutsOver ==
    ASSUME Kept, Patient, NEW p \in puts, PutCheck(p) \/ PutMerge(p) \/ PutFails(p), Over(p.req)
    PROVE  Over(p.req)'
<1> DEFINE r == p.req
<1>0. Copies /\ r \in Req
  BY PutFields DEF Kept
<1>1. ASSUME Merge(p) PROVE Over(r)'
  <2>1. db'[r].old = FALSE /\ ~ Listed(r)'
    <3>1. db'[r] = Row(StatusOf(p.ops), p.ops)
      BY <1>0, <1>1, MergeSeen DEF Merged
    <3>2. db'[r].old = FALSE
      BY <3>1 DEF Row
    <3> QED BY <1>0, <1>1, <3>2 DEF Merge, Over, Finished, Listed
  <2> QED BY <2>1 DEF Over, Undisturbed, Finished
<1>2. ASSUME NEW ok \in BOOLEAN, Answer(p, ok), puts' = puts \ {p},
             UNCHANGED <<db, hand, cache, fts, clean>>
      PROVE  Over(r)'
  <2>1. db[r].old \/ Listed(r) => TasksKept(r)
    <3>1. db[r].old \/ Listed(r) => ~ (p.by = "task" /\ task[p.agent][r].pc = "put")
      BY <1>0, PutFields DEF Over, Undisturbed, Finished, Works
    <3> QED BY <1>0, <1>2, <3>1, AnswerSeen
  <2>2. Undisturbed(r)'
    BY <1>2, <2>1 DEF Over, Undisturbed, TasksKept
  <2>3. Finished(r)'
    BY <1>2, <2>1 DEF Over, Finished, Works, Listed, TasksKept
  <2> QED BY <2>2, <2>3 DEF Over
<1>3. ASSUME puts' = (puts \ {p}) \cup {Moved(p)}, db[r].status # "Canceled",
             UNCHANGED <<db, hand, task, fts, clean>>
      PROVE  Over(r)'
  <2>1. Moved(p).by = p.by /\ ~ Listed(r)
    <3>1. Moved(p).by = p.by
      BY <1>0, PutFields DEF Moved, Puts
    <3> QED BY <1>3, <3>1 DEF Over, Finished
  <2>2. Undisturbed(r)'
    BY <1>3, <2>1 DEF Over, Undisturbed
  <2> QED BY <1>3, <2>1, <2>2 DEF Over, Finished, Listed
<1>4. CASE PutCheck(p)
  BY <1>2, <1>3, <1>4 DEF PutCheck, Moved
<1>5. CASE PutMerge(p)
  BY <1>1, <1>5 DEF PutMerge
<1>6. CASE PutFails(p)
  <2>1. Answer(p, FALSE)
    BY <1>6 DEF PutFails
  <2> QED BY <1>1, <1>2, <1>6, <2>1 DEF PutFails
<1> QED BY <1>4, <1>5, <1>6

LEMMA AgentsOver ==
    ASSUME Kept, Patient, NEW a \in Agent, NEW r \in Req, Over(r),
           \/ FetchStep(a, r) \/ TaskStep(a, r) \/ Callback(a, r)
           \/ hand[a].req = r /\ AgentStep(a)
    PROVE  Over(r)'
<1>0. Copies
  BY DEF Kept
<1>1. ASSUME ~ db[r].old, UNCHANGED <<db, clean>>, ~ Listed(r) PROVE Over(r)'
  BY <1>1 DEF Over, Undisturbed, Finished, Listed
<1>2. ASSUME ~ db'[r].old, UNCHANGED clean, ~ Listed(r) PROVE Over(r)'
  BY <1>2 DEF Over, Undisturbed, Finished, Listed
<1>3. CASE BulkFetch(a, r)
  <2>1. Exists(r) /\ SetStatus(r, "Assigned") /\ "Assigned" \in RowStatuses
    BY <1>3 DEF BulkFetch, Exists, RowStatuses
  <2>2. db'[r] = Row("Assigned", db[r].ops)
    BY <1>0, <2>1, SetStatusSeen
  <2>3. ~ db'[r].old
    BY <2>2 DEF Row
  <2>4. ~ Listed(r) /\ UNCHANGED clean
    BY <1>3 DEF BulkFetch, Over, Finished, FinalStates
  <2> QED BY <1>2, <2>3, <2>4
<1>4. CASE SelectRequest(a, r)
  <2>1. ~ Listed(r) /\ UNCHANGED <<db, task, puts, fts, clean>> /\ db[r].status = "Waiting"
    BY <1>4 DEF SelectRequest, Over, Finished, FinalStates
  <2>2. hand'[a].pc = "read" /\ \A b \in Agent : b # a => hand'[b] = hand[b]
    BY <1>0, <1>4 DEF SelectRequest, Copies
  <2>3. Undisturbed(r)'
    BY <2>1, <2>2 DEF Over, Undisturbed
  <2> QED BY <2>1, <2>3 DEF Over, Finished, Listed
<1>5. CASE TaskStep(a, r) \/ Callback(a, r)
  <2>1. task[a][r].pc # "none" /\ UNCHANGED <<db, clean>>
    BY <1>5 DEF TaskStep, Execute, NoProxy, Raise, Leave, Finalize, Timeout, Callback
  <2>2. ~ db[r].old /\ ~ Listed(r)
    BY <1>0, <2>1, RowFields DEF Over, Undisturbed, Finished, Works
  <2> QED BY <1>1, <2>1, <2>2
<1>6. CASE hand[a].req = r /\ (LoseRequest(a) \/ StartTask(a))
  <2>1. hand[a].pc = "assigned" /\ UNCHANGED <<db, clean>>
    BY <1>6 DEF LoseRequest, StartTask
  <2>2. ~ db[r].old /\ ~ Listed(r)
    BY <1>0, <1>6, <2>1, RowFields DEF Over, Undisturbed, Finished, Works
  <2> QED BY <1>1, <2>1, <2>2
<1>7. CASE hand[a].req = r /\ AssignRequest(a)
  <2>1. ~ Listed(r) /\ UNCHANGED clean
    BY <1>7 DEF AssignRequest, Over, Finished, Works
  <2>2. ~ db'[r].old
    <3>1. CASE Exists(r)
      <4>1. SetStatus(r, "Assigned") /\ "Assigned" \in RowStatuses
        BY <1>7, <3>1 DEF AssignRequest, RowStatuses
      <4>2. db'[r] = Row("Assigned", db[r].ops)
        BY <1>0, <3>1, <4>1, SetStatusSeen
      <4> QED BY <4>2 DEF Row
    <3>2. CASE ~ Exists(r)
      BY <1>0, <1>7, <3>2, RowFields DEF AssignRequest, NoRow
    <3> QED BY <3>1, <3>2
  <2> QED BY <1>2, <2>1, <2>2
<1> QED BY <1>3, <1>4, <1>5, <1>6, <1>7 DEF FetchStep, AgentStep

LEMMA StoppedOver ==
    ASSUME Kept, Patient, NEW a \in Agent, Crash(a) \/ Stop(a), NEW r \in Req, Over(r)
    PROVE  Over(r)'
<1>0. Copies /\ Together(r)
  BY DEF Kept
<1>1. NothingLeft(a) /\ UNCHANGED <<db, fts, clean>>
  BY DEF Crash, Stop
<1>2. ASSUME db[r].old \/ Listed(r), NEW p \in puts', p.req = r PROVE p \in puts
  <2>1. cache[a][r] = NoCopy
    BY <1>0, <1>2 DEF Over, Undisturbed, Finished, Works, Together
  <2>2. CASE Crash(a)
    BY <1>2, <2>2 DEF Crash
  <2>3. CASE Stop(a)
    <3>1. PICK s \in Req : cache[a][s] # NoCopy /\ puts' = puts \cup {Put("stop", a, s, cache[a][s])}
      BY <1>0, <2>3, StopSeen
    <3>2. Put("stop", a, s, cache[a][s]).req = s
      BY DEF Put
    <3> QED BY <1>2, <2>1, <3>1, <3>2
  <2> QED BY <2>2, <2>3
<1>3. \A b \in Agent : /\ hand'[b] = EmptyHand \/ hand'[b] = hand[b]
                       /\ task'[b][r] = NoTask \/ task'[b][r] = task[b][r]
  BY <1>0, <1>1, NothingLeftSeen
<1>4. EmptyHand.req # r /\ NoTask.pc = "none"
  BY RequestAssumption DEF EmptyHand, NoTask
<1>5. \A b \in Agent : /\ hand'[b].req = r => hand'[b] = hand[b]
                       /\ task'[b][r].pc # "none" => task'[b][r] = task[b][r]
  BY <1>3, <1>4
<1>6. Undisturbed(r)'
  BY <1>1, <1>2, <1>5 DEF Over, Undisturbed
<1>7. Finished(r)'
  BY <1>1, <1>2, <1>5 DEF Over, Finished, Works, Listed
<1> QED BY <1>6, <1>7 DEF Over

LEMMA OutsidersOver ==
    ASSUME Kept, Patient, NEW r \in Req, Over(r),
           Submit(r) \/ FtsCheck(r) \/ FtsGet(r) \/ Cancel(r) \/ ResetFailed(r) \/ Age(r)
    PROVE  Over(r)'
<1>0. Copies /\ Known(r)
  BY DEF Kept
<1>1. ASSUME ~ db'[r].old, UNCHANGED clean, ~ Listed(r) PROVE Over(r)'
  BY <1>1 DEF Over, Undisturbed, Finished, Listed
<1>2. CASE Submit(r)
  <2>1. PICK o \in Request : db'[r] = Row(StatusOf(o), o)
    BY <1>0, <1>2, SubmitSeen
  <2>2. ~ db'[r].old
    BY <2>1 DEF Row
  <2>3. ~ Listed(r) /\ UNCHANGED clean
    BY <1>0, <1>2 DEF Submit, Known, Unknown, Exists, Over, Finished, FinalStates
  <2> QED BY <1>1, <2>2, <2>3
<1>3. CASE FtsCheck(r)
  BY <1>3 DEF FtsCheck, agentvars, Over, Undisturbed, Finished, FinalStates, Listed
<1>4. CASE FtsGet(r)
  <2>1. ~ Listed(r) /\ UNCHANGED clean
    BY <1>4 DEF FtsGet, Over, Finished
  <2>2. ~ db'[r].old
    <3>1. db'[r] = Row("Assigned", db[r].ops) \/ db'[r] = NoRow
      BY <1>0, <1>4, FtsGetSeen, RowFields
    <3> QED BY <3>1 DEF Row, NoRow
  <2> QED BY <1>1, <2>1, <2>2
<1>5. CASE Cancel(r)
  <2>1. db'[r] = Row("Canceled", db[r].ops)
    BY <1>0, <1>5, CancelSeen
  <2>2. db'[r].status = "Canceled" /\ ~ db'[r].old
    BY <2>1 DEF Row
  <2>3. UNCHANGED <<hand, task, puts, fts, clean>>
    BY <1>5 DEF Cancel, agentvars
  <2>4. Finished(r)'
    BY <2>2, <2>3 DEF Over, Finished, FinalStates, Works, Listed
  <2> QED BY <2>2, <2>4 DEF Over, Undisturbed
<1>6. CASE ResetFailed(r)
  <2>1. PICK o : puts' = puts \cup {Put("user", NoAgent, r, o)}
    BY <1>0, <1>6, ResetFailedSeen
  <2>2. ~ db[r].old /\ UNCHANGED <<db, hand, task, fts, clean>>
    BY <1>0, <1>6, RowFields DEF ResetFailed, agentvars
  <2>3. Put("user", NoAgent, r, o).stage = "check"
    BY DEF Put
  <2>4. Finished(r)'
    BY <2>1, <2>2, <2>3 DEF Over, Finished, Works, Listed
  <2> QED BY <2>2, <2>4 DEF Over, Undisturbed
<1>7. CASE Age(r)
  <2>1. ~ InFlight(r) /\ ~ Listed(r) /\ UNCHANGED <<hand, task, puts, fts, clean>>
    BY <1>7 DEF Age, Listed, agentvars
  <2>2. Undisturbed(r)'
    BY <1>0, <2>1 DEF InFlight, Undisturbed, Copies
  <2> QED BY <2>1, <2>2 DEF Over, Finished, Listed
<1> QED BY <1>2, <1>3, <1>4, <1>5, <1>6, <1>7

LEMMA CleanOver ==
    ASSUME Kept, Patient, CleanStep, NEW r \in Req, Over(r)
    PROVE  Over(r)'
<1>0. Copies /\ Copies'
  BY CopiesKept DEF Kept, Next
<1>1. ASSUME Untouched(r) PROVE Over(r)'
  BY <1>0, <1>1, UntouchedOver
<1>2. CASE StartCycle \/ EndCycle
  BY <1>0, <1>1, <1>2, StartCycleSeen, EndCycleSeen
<1>3. CASE ListFinal
  <2> SUFFICES ASSUME Listed(r)', db[r].status \in FinalStates, db[r].old PROVE Over(r)'
    BY <1>0, <1>1, <1>3, ListFinalSeen
  <2>1. \A p \in puts : p.by # "kick"
    BY <1>3 DEF ListFinal, Kicking
  <2>2. UNCHANGED <<db, hand, task, puts, fts>>
    BY <1>3 DEF ListFinal, agentvars
  <2>3. Undisturbed(r)'
    BY <2>2 DEF Over, Undisturbed
  <2>4. Finished(r)'
    BY <2>1, <2>2 DEF Over, Undisturbed, Finished, Works, FinalStates
  <2> QED BY <2>3, <2>4 DEF Over
<1>4. ASSUME NEW s \in Req, Kick(s) PROVE Over(r)'
  <2> SUFFICES ASSUME s = r PROVE Over(r)'
    BY <1>0, <1>1, <1>4, KickSeen DEF Others
  <2>1. UNCHANGED <<db, hand, task, fts>> /\ ~ Listed(r)'
    BY <1>0, <1>4 DEF Kick, agentvars, Listed, Copies
  <2>2. \A p \in puts' : p \in puts \/ p.by = "kick"
    BY <1>4 DEF Kick, Put
  <2> QED BY <2>1, <2>2 DEF Over, Undisturbed, Finished
<1>5. ASSUME NEW s \in Req, Delete(s) PROVE Over(r)'
  <2> SUFFICES ASSUME s = r PROVE Over(r)'
    BY <1>0, <1>1, <1>5, DeleteSeen DEF Others
  <2>1. ~ db'[r].old /\ ~ Listed(r)'
    BY <1>0, <1>5, DeleteSeen DEF NoRow
  <2> QED BY <2>1 DEF Over, Undisturbed, Finished
<1> QED BY <1>2, <1>3, <1>4, <1>5 DEF CleanStep

LEMMA OverStays ==
    ASSUME Kept, Patient, \A r \in Req : Over(r), [Next]_vars, NEW r \in Req
    PROVE  Over(r)'
<1>0. Copies /\ Copies' /\ Over(r)
  BY CopiesKept DEF Kept
<1>1. ASSUME Untouched(r) PROVE Over(r)'
  BY <1>0, <1>1, UntouchedOver
<1>2. ASSUME NEW s \in Req, s # r, Others(s) PROVE Over(r)'
  BY <1>1, <1>2 DEF Others
<1>3. ASSUME NEW a \in Agent, NEW s \in Req, FetchStep(a, s) \/ TaskStep(a, s) \/ Callback(a, s)
      PROVE  Over(r)'
  <2>1. Others(s)
    BY <1>0, <1>3, BulkFetchSeen, SelectRequestSeen, ExecuteSeen, NoProxySeen, RaiseSeen, LeaveSeen,
       FinalizeSeen, TimeoutSeen, CallbackSeen DEF FetchStep, TaskStep
  <2> QED BY <1>0, <1>2, <1>3, <2>1, AgentsOver
<1>4. ASSUME NEW a \in Agent, AgentStep(a) PROVE Over(r)'
  <2>1. hand[a].req \in Req /\ Others(hand[a].req)
    BY <1>0, <1>4, AssignRequestSeen, LoseRequestSeen, StartTaskSeen DEF AgentStep
  <2> QED BY <1>0, <1>2, <1>4, <2>1, AgentsOver
<1>5. ASSUME NEW a \in Agent, Crash(a) \/ Stop(a) PROVE Over(r)'
  BY <1>0, <1>5, StoppedOver
<1>6. CASE PutStep
  <2>1. PICK p \in puts : PutCheck(p) \/ PutMerge(p) \/ PutFails(p)
    BY <1>6 DEF PutStep
  <2>2. p.req \in Req /\ Others(p.req)
    BY <1>0, <2>1, PutFields, PutCheckSeen, PutMergeSeen, PutFailsSeen
  <2> QED BY <1>0, <1>2, <2>1, <2>2, PutsOver
<1>7. CASE CleanStep
  BY <1>0, <1>7, CleanOver
<1>8. ASSUME NEW s \in Req,
             Submit(s) \/ FtsCheck(s) \/ FtsGet(s) \/ Cancel(s) \/ ResetFailed(s) \/ Age(s)
      PROVE  Over(r)'
  <2>1. Others(s)
    BY <1>0, <1>8, SubmitSeen, FtsCheckSeen, FtsGetSeen, CancelSeen, ResetFailedSeen, AgeSeen
  <2> QED BY <1>0, <1>2, <1>8, <2>1, OutsidersOver
<1>9. CASE UNCHANGED vars
  BY <1>0, <1>1, <1>9, StutterSeen
<1> QED BY <1>3, <1>4, <1>5, <1>6, <1>7, <1>8, <1>9 DEF Next

\* Only Delete takes a row away.
LEMMA RowsStay ==
    ASSUME Copies, [Next]_vars, NEW r \in Req, Exists(r), ~ Delete(r)
    PROVE  db'[r].status # "none"
<1>0. db[r].status # "none"
  BY DEF Exists
<1>1. ASSUME RowKept(r) PROVE db'[r].status # "none"
  BY <1>0, <1>1 DEF RowKept
<1>2. ASSUME UNCHANGED db PROVE db'[r].status # "none"
  BY <1>0, <1>2
<1>3. ASSUME NEW s \in Req, s # r, Others(s) PROVE db'[r].status # "none"
  BY <1>1, <1>3 DEF Others, Untouched
<1>4. ASSUME SetStatus(r, "Assigned") PROVE db'[r].status # "none"
  <2>1. db'[r] = Row("Assigned", db[r].ops)
    BY <1>4, SetStatusSeen DEF RowStatuses
  <2> QED BY <2>1 DEF Row
<1>5. ASSUME NEW a \in Agent, NEW s \in Req, FetchStep(a, s) \/ TaskStep(a, s) \/ Callback(a, s)
      PROVE  db'[r].status # "none"
  <2>1. CASE BulkFetch(a, s)
    BY <1>3, <1>4, <2>1, BulkFetchSeen DEF BulkFetch
  <2>2. CASE ~ BulkFetch(a, s)
    BY <1>2, <1>5, <2>2
       DEF FetchStep, SelectRequest, TaskStep, Execute, NoProxy, Raise, Leave, Finalize, Timeout, Callback
  <2> QED BY <2>1, <2>2
<1>6. ASSUME NEW a \in Agent, AgentStep(a) \/ Crash(a) \/ Stop(a) PROVE db'[r].status # "none"
  <2>1. CASE AssignRequest(a)
    BY <1>2, <1>3, <1>4, <2>1, AssignRequestSeen DEF AssignRequest
  <2>2. CASE ~ AssignRequest(a)
    BY <1>2, <1>6, <2>2 DEF AgentStep, LoseRequest, StartTask, Crash, Stop
  <2> QED BY <2>1, <2>2
<1>7. CASE PutStep
  <2>1. PICK p \in puts : PutCheck(p) \/ PutMerge(p) \/ PutFails(p)
    BY <1>7 DEF PutStep
  <2>2. p.req \in Req /\ Others(p.req) /\ p.ops \in Request
    BY <2>1, PutFields, PutCheckSeen, PutMergeSeen, PutFailsSeen
  <2>3. UNCHANGED db \/ Merge(p)
    BY <2>1 DEF PutCheck, PutMerge, PutFails
  <2>4. ASSUME Merge(p), p.req = r PROVE db'[r].status # "none"
    <3>1. db'[r] = Row(StatusOf(p.ops), p.ops)
      BY <2>4, MergeSeen DEF Merged
    <3>2. StatusOf(p.ops) # "none"
      BY <2>2, Copied DEF FileStatuses
    <3> QED BY <3>1, <3>2 DEF Row
  <2> QED BY <1>2, <1>3, <2>2, <2>3, <2>4
<1>8. CASE StartCycle \/ ListFinal \/ EndCycle \/ \E s \in Req : Kick(s)
  BY <1>2, <1>8 DEF StartCycle, ListFinal, EndCycle, Kick
<1>9. ASSUME NEW s \in Req, Delete(s) PROVE db'[r].status # "none"
  BY <1>3, <1>9, DeleteSeen
<1>10. ASSUME NEW s \in Req, Submit(s) PROVE db'[r].status # "none"
  <2>1. PICK o \in Request : db'[s] = Row(StatusOf(o), o)
    BY <1>10, SubmitSeen
  <2>2. StatusOf(o) # "none"
    BY <2>1, Copied DEF FileStatuses
  <2>3. db'[s].status # "none"
    BY <2>1, <2>2 DEF Row
  <2> QED BY <1>3, <1>10, <2>3, SubmitSeen
<1>11. ASSUME NEW s \in Req, FtsCheck(s) \/ FtsGet(s) PROVE db'[r].status # "none"
  <2>1. CASE FtsCheck(s)
    BY <1>2, <2>1 DEF FtsCheck
  <2>2. CASE FtsGet(s)
    BY <1>3, <1>4, <2>2, FtsGetSeen DEF FtsGet
  <2> QED BY <1>11, <2>1, <2>2
<1>12. ASSUME NEW s \in Req, Cancel(s) PROVE db'[r].status # "none"
  <2>1. db'[s] = Row("Canceled", db[s].ops)
    BY <1>12, CancelSeen
  <2>2. db'[s].status # "none"
    BY <2>1 DEF Row
  <2> QED BY <1>3, <1>12, <2>2, CancelSeen
<1>13. ASSUME NEW s \in Req, ResetFailed(s) \/ Age(s) PROVE db'[r].status # "none"
  BY <1>0, <1>2, <1>3, <1>13, AgeSeen DEF ResetFailed
<1>14. CASE UNCHANGED vars
  BY <1>2, <1>14 DEF vars
<1> QED BY <1>5, <1>6, <1>7, <1>8, <1>9, <1>10, <1>11, <1>12, <1>13, <1>14 DEF Next, CleanStep

(***************************************************************************)
(* The cleaning agent deletes only what is over, although it lists the     *)
(* requests first and does not look again before it deletes: provided that *)
(* the grace periods outlast whatever is under way, and that users reset   *)
(* nothing that old.  Everything may fail, agents may crash, and users may *)
(* force a reset.                                                          *)
(***************************************************************************)
THEOREM DeletedIsFinal == Patient => (Spec => OnlyFinalDeleted)
<1> SUFFICES ASSUME Patient PROVE Spec => OnlyFinalDeleted
  OBVIOUS
<1> DEFINE AllOver == \A r \in Req : Over(r)
<1>1. Init => AllOver
  BY DEF Init, Over, Undisturbed, Finished, Listed, NoRow
<1>2. Kept /\ AllOver /\ [Next]_vars => AllOver'
  BY OverStays
<1>3. Kept /\ AllOver /\ [Next]_vars =>
        [\A r \in Req : Exists(r) /\ db'[r].status = "none" => db[r].status \in FinalStates]_vars
  <2> SUFFICES ASSUME Kept, AllOver, [Next]_vars, NEW r \in Req, Exists(r), db'[r].status = "none"
               PROVE  db[r].status \in FinalStates
    OBVIOUS
  <2>1. Copies /\ Over(r)
    BY DEF Kept
  <2>2. Delete(r)
    BY <2>1, RowsStay
  <2>3. Listed(r)
    BY <2>1, <2>2, DeleteSeen
  <2> QED BY <2>1, <2>3 DEF Over, Finished
<1> HIDE DEF AllOver
<1> QED BY <1>1, <1>2, <1>3, KeptAlways, PTL DEF Spec, OnlyFinalDeleted

-----------------------------------------------------------------------------
(***************************************************************************)
(* Who has a request.  When rows are fetched in bulk, the grace periods    *)
(* outlast whatever is under way, users only reset what has failed, and no *)
(* put goes on behind the back of an agent that has put the same request   *)
(* again (after a timeout, or a stop), a request is with one agent, or in  *)
(* one put, or with the FTS3 callback, or at rest in the database.         *)
(***************************************************************************)
Steady ==
    /\ Bulk
    /\ Patient
    /\ "force" \notin Users
    /\ "timeout" \notin Faults /\ "stop" \notin Faults

Lonely(r) ==
    /\ \A a, b \in Agent : Works(a, r) /\ Works(b, r) => a = b
    /\ \A a \in Agent : hand[a].req = r => task[a][r].pc = "none"
    /\ \A p, q \in puts : p.req = r /\ q.req = r => p = q

\* the only agent with a put under way is the one whose task waits for its answer
PutAlone(r) ==
    \A p \in puts : p.req = r =>
        /\ p.by # "task" => \A a \in Agent : ~ Works(a, r)
        /\ p.by = "task" => /\ StatusOf(p.ops) = "Done"
                            /\ \A a \in Agent : Works(a, r) => a = p.agent /\ task[a][r].pc = "put"
        /\ db[r].status \notin {"Waiting", "Scheduled"}
        /\ Exists(r) /\ StatusOf(db[r].ops) = "Failed" => p.by = "user"

FtsAlone(r) ==
    fts[r] # 0 =>
        /\ \A a \in Agent : ~ Works(a, r)
        /\ \A p \in puts : p.req # r
        /\ db[r].status \in {"Scheduled", "Canceled"}
        /\ StatusOf(db[r].ops) = "Scheduled" /\ NextOp(db[r].ops) = fts[r]

RowTaken(r) ==
    (\E a \in Agent : Works(a, r)) =>
        db[r].status \in {"Assigned", "Canceled", "Done"} /\ StatusOf(db[r].ops) # "Failed"

RowTrue(r) ==
    /\ db[r].status \in FileStatuses => StatusOf(db[r].ops) = db[r].status
    /\ db[r].status = "Assigned" => StatusOf(db[r].ops) # "Failed"

\* a task that has put its request has found it canceled, or it is done in the database
Reported(t) ==
    \/ t.pc = "finalize"
    \/ t.pc = "ended" /\ t.result = "ok" /\ StatusOf(t.ops) = "Done"

Told(r) ==
    \A a \in Agent :
        /\ task[a][r].pc \in {"put", "finalize"} => StatusOf(task[a][r].ops) = "Done"
        /\ Reported(task[a][r]) => db[r].status \in {"Done", "Canceled"}

Alone(r) == Lonely(r) /\ PutAlone(r) /\ FtsAlone(r) /\ RowTaken(r) /\ RowTrue(r) /\ Told(r)

AllKept == Kept /\ NeverRead /\ \A r \in Req : Over(r)

LEMMA UntouchedAlone ==
    ASSUME Copies, Copies', NEW r \in Req, Untouched(r), Alone(r)
    PROVE  Alone(r)'
<1>1. \A p \in puts' : p.req = r => p \in puts
  BY DEF Untouched, PutsKept, Copies
<1>2. /\ db'[r] = db[r] /\ fts'[r] = fts[r]
      /\ \A a \in Agent : task'[a][r] = task[a][r] /\ (Works(a, r)' <=> Works(a, r))
      /\ \A a \in Agent : hand'[a].req = r => hand[a].req = r
  BY DEF Untouched, RowKept, FtsKept, TasksKept, HandsKept, Works
<1>3. Lonely(r)'
  BY <1>1, <1>2 DEF Alone, Lonely
<1>4. PutAlone(r)'
  BY <1>1, <1>2 DEF Alone, PutAlone, Exists
<1>5. FtsAlone(r)'
  BY <1>1, <1>2 DEF Alone, FtsAlone
<1>6. RowTaken(r)' /\ RowTrue(r)' /\ Told(r)'
  BY <1>2 DEF Alone, RowTaken, RowTrue, Told
<1> QED BY <1>3, <1>4, <1>5, <1>6 DEF Alone

\* What Steady leaves of the other invariants.
LEMMA AtHand ==
    ASSUME AllKept, NEW r \in Req
    PROVE  /\ Copies /\ Known(r) /\ Together(r) /\ Over(r)
           /\ \A a \in Agent : hand[a].pc # "read"
           /\ Listed(r) \/ db[r].old => \A a \in Agent : ~ Works(a, r)
           /\ db[r].old => \A p \in puts : p.req = r => p.by = "kick"
           /\ db[r].old /\ fts[r] # 0 => db[r].status = "Scheduled"
           /\ Listed(r) => fts[r] = 0
BY DEF AllKept, Kept, NeverRead, Over, Undisturbed, Finished, Works

LEMMA FetchAlone ==
    ASSUME AllKept, Steady, NEW a \in Agent, NEW r \in Req, BulkFetch(a, r), Alone(r)
    PROVE  Alone(r)'
<1> DEFINE o == db[r].ops
<1>0. Copies
  BY AtHand
<1>1. hand[a] = EmptyHand /\ db[r].status = "Waiting" /\ UNCHANGED <<task, puts, fts>>
  BY DEF BulkFetch
<1>2. StatusOf(o) = "Waiting"
  BY <1>1 DEF Alone, RowTrue, FileStatuses
<1>3. db'[r] = Row("Assigned", o)
  BY <1>0, <1>1, SetStatusSeen DEF BulkFetch, Exists, RowStatuses
<1>4. db'[r].status = "Assigned" /\ db'[r].ops = o
  BY <1>3 DEF Row
<1>5. hand'[a].req = r /\ \A b \in Agent : b # a => hand'[b] = hand[b]
  BY <1>0 DEF BulkFetch, Copies
<1>6. \A b \in Agent : ~ Works(b, r)
  BY <1>1 DEF Alone, RowTaken
<1>7. fts[r] = 0 /\ \A p \in puts : p.req # r
  BY <1>1 DEF Alone, FtsAlone, PutAlone
<1>8. \A b \in Agent : /\ hand[b].req # r /\ task[b][r].pc = "none" /\ task'[b][r] = task[b][r]
                       /\ Works(b, r)' => b = a
  BY <1>1, <1>5, <1>6 DEF Works
<1>9. Lonely(r)' /\ PutAlone(r)' /\ FtsAlone(r)'
  BY <1>1, <1>7, <1>8 DEF Lonely, PutAlone, FtsAlone
<1>10. RowTaken(r)' /\ RowTrue(r)'
  BY <1>2, <1>4 DEF RowTaken, RowTrue, FileStatuses
<1>11. Told(r)'
  BY <1>8 DEF Told, Reported
<1> QED BY <1>9, <1>10, <1>11 DEF Alone

\* A task of one agent changes, the request being in no other hand.
LEMMA TaskAlone ==
    ASSUME Copies, NEW a \in Agent, NEW r \in Req, task[a][r].pc # "none", Alone(r),
           NEW t, TaskMoves(a, r, t), t.pc # "none",
           UNCHANGED <<db, hand, fts>>,
           \A p \in puts' : p.req = r => p \in puts,
           \A p \in puts' : p.req = r /\ p.by = "task" => t.pc = "put",
           t.pc \in {"put", "finalize"} => StatusOf(t.ops) = "Done",
           Reported(t) => db[r].status \in {"Done", "Canceled"}
    PROVE  Alone(r)'
<1>1. \A b \in Agent : Works(b, r)' <=> Works(b, r)
  BY DEF TaskMoves, Works
<1>2. Works(a, r)
  BY DEF Works
<1>3. Lonely(r)'
  BY <1>1 DEF Alone, Lonely, TaskMoves
<1>4. PutAlone(r)'
  BY <1>1, <1>2 DEF Alone, PutAlone, Exists, TaskMoves
<1>5. FtsAlone(r)' /\ RowTaken(r)' /\ RowTrue(r)'
  BY <1>1 DEF Alone, FtsAlone, RowTaken, RowTrue
<1>6. Told(r)'
  BY DEF Alone, Told, TaskMoves
<1> QED BY <1>3, <1>4, <1>5, <1>6 DEF Alone

LEMMA TasksAlone ==
    ASSUME AllKept, Steady, NEW a \in Agent, NEW r \in Req, TaskStep(a, r), Alone(r)
    PROVE  Alone(r)'
<1> DEFINE t == task[a][r]
<1>0. Copies /\ t.pc # "none" /\ UNCHANGED <<db, hand, fts>>
  BY AtHand DEF TaskStep, Execute, NoProxy, Raise, Leave, Finalize, Timeout
<1>1. Works(a, r) /\ t.ops \in Request /\ t.result \in {"none", "ok", "error", "timeout"}
  BY <1>0, TaskFields DEF Works
<1>2. ASSUME t.pc # "put", NEW p \in puts, p.req = r PROVE FALSE
  BY <1>1, <1>2 DEF Alone, PutAlone
<1>3. CASE Execute(a, r)
  <2>1. PICK n \in Tasks : /\ n.pc \in {"running", "ended"} /\ TaskMoves(a, r, n)
                           /\ n.pc = "ended" => StatusOf(n.ops) # "Done"
    BY <1>0, <1>3, ExecuteSeen
  <2>2. UNCHANGED puts /\ t.pc = "running"
    BY <1>3 DEF Execute
  <2>3. ~ Reported(n) /\ n.pc \notin {"none", "put", "finalize"}
    BY <2>1 DEF Reported
  <2> QED BY <1>0, <1>2, <2>1, <2>2, <2>3, TaskAlone
<1>4. CASE NoProxy(a, r)
  <2>1. PICK o \in Request : /\ StatusOf(o) = "Failed"
                             /\ TaskMoves(a, r, [pc |-> "ended", ops |-> o, result |-> "ok"])
    BY <1>0, <1>4, NoProxySeen
  <2>2. UNCHANGED puts /\ t.pc = "running"
    BY <1>4 DEF NoProxy
  <2> DEFINE n == [pc |-> "ended", ops |-> o, result |-> "ok"]
  <2>3. ~ Reported(n) /\ n.pc \notin {"none", "put", "finalize"}
    BY <2>1 DEF Reported
  <2> HIDE DEF n
  <2>4. TaskMoves(a, r, n)
    BY <2>1 DEF n
  <2> QED BY <1>0, <1>2, <2>2, <2>3, <2>4, TaskAlone
<1>5. CASE Raise(a, r)
  <2> DEFINE n == Onward(t, "ended", "error")
  <2>1. TaskMoves(a, r, n) /\ n.pc = "ended" /\ n.result = "error"
    BY <1>0, <1>5, RaiseSeen, OnwardFields
  <2>2. UNCHANGED puts /\ t.pc = "running"
    BY <1>5 DEF Raise
  <2> HIDE DEF n
  <2>3. ~ Reported(n)
    BY <2>1 DEF Reported
  <2> QED BY <1>0, <1>2, <2>1, <2>2, <2>3, TaskAlone
<1>6. CASE Finalize(a, r)
  <2>1. PICK result \in {"ok", "error"} : TaskMoves(a, r, Onward(t, "ended", result))
    BY <1>0, <1>6, FinalizeSeen
  <2> DEFINE n == Onward(t, "ended", result)
  <2>2. TaskMoves(a, r, n) /\ n.pc = "ended"
    BY <1>0, <2>1, OnwardFields
  <2>3. UNCHANGED puts /\ t.pc = "finalize"
    BY <1>6 DEF Finalize
  <2>4. db[r].status \in {"Done", "Canceled"}
    BY <2>3 DEF Alone, Told, Reported
  <2> HIDE DEF n
  <2> QED BY <1>0, <1>2, <2>2, <2>3, <2>4, TaskAlone
<1>7. CASE Leave(a, r) /\ StatusOf(t.ops) # "Done"
  <2> DEFINE n == Onward(t, "ended", "ok")
  <2>1. TaskMoves(a, r, n) /\ n.pc = "ended" /\ n.ops = t.ops
    BY <1>0, <1>7, LeaveSeen, OnwardFields
  <2>2. UNCHANGED puts /\ t.pc = "running"
    BY <1>0, <1>7, LeaveSeen DEF Leave
  <2> HIDE DEF n
  <2>3. ~ Reported(n)
    BY <1>7, <2>1 DEF Reported
  <2> QED BY <1>0, <1>2, <2>1, <2>2, <2>3, TaskAlone
<1>8. CASE Leave(a, r) /\ StatusOf(t.ops) = "Done"
  <2> DEFINE n == Onward(t, "put", t.result)  q == Put("task", a, r, t.ops)
  <2>1. TaskMoves(a, r, n) /\ n.pc = "put" /\ n.ops = t.ops
    BY <1>0, <1>1, <1>8, LeaveSeen, OnwardFields
  <2>2. puts' = puts \cup {q} /\ t.pc = "running"
    BY <1>0, <1>8, LeaveSeen DEF Leave
  <2>3. q.by = "task" /\ q.agent = a /\ q.req = r /\ q.ops = t.ops
    BY DEF Put
  <2> HIDE DEF n, q
  <2>4. \A b \in Agent : (Works(b, r)' <=> Works(b, r)) /\ (Works(b, r) => b = a)
    BY <1>0, <1>1, <2>1 DEF TaskMoves, Works, Alone, Lonely
  <2>5. \A p \in puts' : p.req = r => p = q
    BY <1>2, <2>2
  <2>6. Lonely(r)'
    BY <1>0, <2>1, <2>4, <2>5 DEF Alone, Lonely, TaskMoves
  <2>7. PutAlone(r)'
    <3>1. db[r].status \in {"Assigned", "Canceled", "Done"} /\ StatusOf(db[r].ops) # "Failed"
      BY <1>1 DEF Alone, RowTaken
    <3>2. \A b \in Agent : Works(b, r)' => b = q.agent /\ task'[b][r].pc = "put"
      BY <2>1, <2>3, <2>4 DEF TaskMoves
    <3> QED BY <1>0, <1>8, <2>3, <2>5, <3>1, <3>2 DEF PutAlone
  <2>8. FtsAlone(r)'
    BY <1>0, <1>1 DEF Alone, FtsAlone
  <2>9. RowTaken(r)' /\ RowTrue(r)'
    BY <1>0, <2>4 DEF Alone, RowTaken, RowTrue
  <2>10. Told(r)'
    BY <1>0, <1>8, <2>1 DEF Alone, Told, TaskMoves, Reported
  <2> QED BY <2>6, <2>7, <2>8, <2>9, <2>10 DEF Alone
<1> QED BY <1>3, <1>4, <1>5, <1>6, <1>7, <1>8 DEF TaskStep, Timeout, Steady

LEMMA CallbackAlone ==
    ASSUME AllKept, Steady, NEW a \in Agent, NEW r \in Req, Callback(a, r), Alone(r)
    PROVE  Alone(r)'
<1>0. Copies /\ task[a][r].pc = "ended" /\ UNCHANGED <<db, hand, fts>>
  BY AtHand DEF Callback
<1>1. Works(a, r) /\ \A b \in Agent : Works(b, r) => b = a
  BY <1>0 DEF Works, Alone, Lonely
<1>2. /\ task'[a][r] = NoTask
      /\ \A b \in Agent : b # a => task'[b][r] = task[b][r]
      /\ UNCHANGED puts \/ \E o : puts' = puts \cup {Put("callback", a, r, o)}
  BY <1>0, CallbackSeen
<1>3. \A p \in puts : p.req # r
  BY <1>0, <1>1 DEF Alone, PutAlone
<1>4. \A b \in Agent : ~ Works(b, r)' /\ task'[b][r].pc = "none"
  BY <1>0, <1>1, <1>2 DEF Works, NoTask, Alone, Lonely
<1>5. \A p, q \in puts' : p.req = r /\ q.req = r => p = q /\ p.by = "callback"
  <2>1. \A o : Put("callback", a, r, o).by = "callback"
    BY DEF Put
  <2> QED BY <1>2, <1>3, <2>1
<1>6. db[r].status \in {"Assigned", "Canceled", "Done"} /\ StatusOf(db[r].ops) # "Failed" /\ fts[r] = 0
  BY <1>1 DEF Alone, RowTaken, FtsAlone
<1>7. Lonely(r)' /\ PutAlone(r)' /\ FtsAlone(r)'
  BY <1>0, <1>4, <1>5, <1>6 DEF Lonely, PutAlone, FtsAlone, Works
<1>8. RowTaken(r)' /\ RowTrue(r)' /\ Told(r)'
  BY <1>0, <1>4 DEF Alone, RowTaken, RowTrue, Told, Reported
<1> QED BY <1>7, <1>8 DEF Alone

LEMMA HandAlone ==
    ASSUME AllKept, Steady, NEW a \in Agent, NEW r \in Req, hand[a].req = r, AgentStep(a), Alone(r)
    PROVE  Alone(r)'
<1>0. Copies /\ Together(r) /\ hand[a].pc # "read"
  BY AtHand
<1>1. UNCHANGED <<db, puts, fts>> /\ (LoseRequest(a) \/ StartTask(a))
  BY <1>0 DEF AgentStep, AssignRequest, LoseRequest, StartTask
<1>2. Works(a, r) /\ task[a][r].pc = "none" /\ cache[a][r] = NoCopy
  BY <1>0 DEF Works, Alone, Lonely, Together
<1>3. \A b \in Agent : b # a => ~ Works(b, r)
  BY <1>2 DEF Alone, Lonely
<1>4. \A p \in puts : p.req # r
  BY <1>2 DEF Alone, PutAlone
<1>5. EmptyHand.req # r
  BY RequestAssumption DEF EmptyHand
<1>6. /\ hand'[a] = EmptyHand
      /\ \A b \in Agent : b # a => hand'[b] = hand[b] /\ task'[b][r] = task[b][r]
      /\ task'[a][r] = task[a][r] \/ task'[a][r] = Started(hand[a].ops)
  <2>1. CASE StartTask(a)
    BY <1>0, <1>2, <2>1, StartTaskSeen
  <2>2. CASE LoseRequest(a)
    BY <1>0, <2>2 DEF LoseRequest, Copies
  <2> QED BY <1>1, <2>1, <2>2
<1>7. /\ task'[a][r].pc \notin {"put", "finalize", "ended"}
      /\ \A b \in Agent : hand'[b].req # r
  BY <1>2, <1>3, <1>5, <1>6 DEF Started, Works
<1>8. \A b \in Agent : Works(b, r)' => Works(b, r)
  BY <1>2, <1>3, <1>6, <1>7 DEF Works
<1>9. Lonely(r)'
  BY <1>1, <1>7, <1>8 DEF Alone, Lonely
<1>10. PutAlone(r)' /\ FtsAlone(r)'
  BY <1>1, <1>4, <1>8 DEF Alone, PutAlone, FtsAlone
<1>11. RowTaken(r)' /\ RowTrue(r)'
  BY <1>1, <1>8 DEF Alone, RowTaken, RowTrue
<1>12. Told(r)'
  <2>1. \A b \in Agent : b # a => task'[b][r] = task[b][r]
    BY <1>6
  <2> QED BY <1>1, <1>7, <2>1 DEF Alone, Told, Reported
<1> QED BY <1>9, <1>10, <1>11, <1>12 DEF Alone

LEMMA CrashAlone ==
    ASSUME AllKept, Steady, NEW a \in Agent, Crash(a), NEW r \in Req, Alone(r)
    PROVE  Alone(r)'
<1>0. Copies
  BY AtHand
<1>1. NothingLeft(a) /\ UNCHANGED <<db, puts, fts>>
  BY DEF Crash
<1>2. EmptyHand.req # r /\ NoTask.pc = "none"
  BY RequestAssumption DEF EmptyHand, NoTask
<1>3. /\ ~ Works(a, r)' /\ task'[a][r].pc = "none" /\ hand'[a].req # r
      /\ \A b \in Agent : b # a => /\ hand'[b] = hand[b] /\ task'[b][r] = task[b][r]
                                   /\ (Works(b, r)' <=> Works(b, r))
  BY <1>0, <1>1, <1>2, NothingLeftSeen DEF Works
<1>4. Lonely(r)'
  BY <1>1, <1>3 DEF Alone, Lonely
<1>5. PutAlone(r)'
  BY <1>1, <1>3 DEF Alone, PutAlone, Exists
<1>6. FtsAlone(r)'
  BY <1>1, <1>3 DEF Alone, FtsAlone
<1>7. RowTaken(r)' /\ RowTrue(r)'
  BY <1>1, <1>3 DEF Alone, RowTaken, RowTrue
<1>8. Told(r)'
  BY <1>1, <1>3 DEF Alone, Told, Reported
<1> QED BY <1>4, <1>5, <1>6, <1>7, <1>8 DEF Alone

\* A put answers its caller, if it is still there.
LEMMA AnswerMoves ==
    ASSUME Copies, NEW p \in puts, NEW ok \in BOOLEAN, Answer(p, ok), UNCHANGED cache
    PROVE  \/ TasksKept(p.req) /\ ~ (p.by = "task" /\ task[p.agent][p.req].pc = "put")
           \/ /\ p.by = "task" /\ p.agent \in Agent /\ task[p.agent][p.req].pc = "put"
              /\ \E t : /\ TaskMoves(p.agent, p.req, t)
                        /\ t.ops = task[p.agent][p.req].ops
                        /\ ok => t.pc = "finalize"
                        /\ ~ ok => t.pc = "ended" /\ t.result = "error"
<1> DEFINE v == task[p.agent][p.req]
           t == [v EXCEPT !.pc = IF ok THEN "finalize" ELSE "ended", !.result = IF ok THEN @ ELSE "error"]
<1>1. CASE ~ (p.by = "task" /\ v.pc = "put")
  BY <1>1, AnswerSeen
<1>2. CASE p.by = "task" /\ v.pc = "put"
  <2>1. p.agent \in Agent /\ TaskMoves(p.agent, p.req, t)
    BY <1>2, AnswerSeen
  <2>2. v \in [pc : {"running", "put", "finalize", "ended"}, ops : Request,
               result : {"none", "ok", "error", "timeout"}]
    <3>1. p.req \in Req
      BY PutFields
    <3> QED BY <1>2, <2>1, <3>1, TaskFields DEF Tasks, NoTask
  <2>3. /\ t.ops = v.ops
        /\ ok => t.pc = "finalize"
        /\ ~ ok => t.pc = "ended" /\ t.result = "error"
    <3> HIDE DEF v
    <3> QED BY <2>2
  <2> HIDE DEF t
  <2> QED BY <1>2, <2>1, <2>3
<1> QED BY <1>1, <1>2

\* A put is answered and gone, with the row as it is or merged.
LEMMA AnsweredAlone ==
    ASSUME Copies, NEW p \in puts, NEW ok \in BOOLEAN, Answer(p, ok), Alone(p.req),
           puts' = puts \ {p}, UNCHANGED <<hand, cache, fts>>,
           db' = [db EXCEPT ![p.req] = Merged(p)] \/ UNCHANGED db,
           ok => db' = [db EXCEPT ![p.req] = Merged(p)] \/ db[p.req].status = "Canceled"
    PROVE  Alone(p.req)'
<1> DEFINE r == p.req
<1>0. p \in puts /\ r \in Req /\ p.ops \in Request
  BY PutFields
<1>1. \A q \in puts' : q.req # r
  BY DEF Alone, Lonely
<1>2. fts[r] = 0
  BY DEF Alone, FtsAlone
<1>3. /\ \A b \in Agent : Works(b, r)' <=> Works(b, r)
      /\ \A b \in Agent : task'[b][r].pc = "none" <=> task[b][r].pc = "none"
  BY <1>0, AnswerMoves DEF TasksKept, TaskMoves, Works
<1>4. Lonely(r)' /\ PutAlone(r)' /\ FtsAlone(r)'
  BY <1>1, <1>2, <1>3 DEF Alone, Lonely, PutAlone, FtsAlone
<1>5. CASE UNCHANGED db
  <2>1. RowTaken(r)' /\ RowTrue(r)'
    BY <1>3, <1>5 DEF Alone, RowTaken, RowTrue
  <2>2. Told(r)'
    <3>1. CASE TasksKept(r)
      BY <1>5, <3>1 DEF Alone, Told, TasksKept
    <3>2. ASSUME p.by = "task", p.agent \in Agent, task[p.agent][r].pc = "put",
                 NEW t, TaskMoves(p.agent, r, t), t.ops = task[p.agent][r].ops,
                 ok => t.pc = "finalize", ~ ok => t.pc = "ended" /\ t.result = "error"
          PROVE  Told(r)'
      <4>1. StatusOf(t.ops) = "Done"
        BY <3>2 DEF Alone, Told
      <4>2. Reported(t) => db[r].status = "Canceled" \/ db' = [db EXCEPT ![r] = Merged(p)]
        BY <3>2 DEF Reported
      <4>3. db' = [db EXCEPT ![r] = Merged(p)] => db'[r].status = "Done"
        <5>1. Merged(p).status = "Done"
          BY <3>2 DEF Alone, PutAlone, Merged, Row
        <5> QED BY <1>0, <5>1 DEF Copies
      <4> QED BY <1>5, <3>2, <4>1, <4>2, <4>3 DEF Alone, Told, TaskMoves
    <3> QED BY <1>0, <3>1, <3>2, AnswerMoves
  <2> QED BY <1>4, <2>1, <2>2 DEF Alone
<1>6. CASE db' = [db EXCEPT ![r] = Merged(p)]
  <2>1. db'[r].status = StatusOf(p.ops) /\ db'[r].ops = p.ops
    BY <1>0, <1>6 DEF Copies, Merged, Row
  <2>2. StatusOf(p.ops) \in FileStatuses
    BY <1>0, Copied
  <2>3. \A b \in Agent : Works(b, r) => p.by = "task" /\ StatusOf(p.ops) = "Done"
    BY DEF Alone, PutAlone
  <2>4. RowTaken(r)' /\ RowTrue(r)'
    BY <1>3, <2>1, <2>2, <2>3 DEF RowTaken, RowTrue, FileStatuses
  <2>5. Told(r)'
    <3>1. CASE TasksKept(r)
      <4>1. \A b \in Agent : task[b][r].pc # "none" => db'[r].status = "Done"
        BY <2>1, <2>3 DEF Works
      <4>2. \A b \in Agent : Reported(task[b][r]) => task[b][r].pc # "none"
        BY DEF Reported
      <4> QED BY <3>1, <4>1, <4>2 DEF Alone, Told, TasksKept
    <3>2. ASSUME p.by = "task", p.agent \in Agent, task[p.agent][r].pc = "put",
                 NEW t, TaskMoves(p.agent, r, t), t.ops = task[p.agent][r].ops
          PROVE  Told(r)'
      <4>1. StatusOf(t.ops) = "Done" /\ db'[r].status = "Done"
        BY <2>1, <3>2 DEF Alone, Told, PutAlone
      <4> QED BY <3>2, <4>1 DEF Alone, Told, TaskMoves
    <3> QED BY <1>0, <3>1, <3>2, AnswerMoves
  <2> QED BY <1>4, <2>4, <2>5 DEF Alone
<1> QED BY <1>5, <1>6

LEMMA PutsAlone ==
    ASSUME AllKept, Steady, NEW p \in puts, PutCheck(p) \/ PutMerge(p) \/ PutFails(p), Alone(p.req)
    PROVE  Alone(p.req)'
<1> DEFINE r == p.req
<1>0. Copies /\ r \in Req
  BY PutFields DEF AllKept, Kept
<1>1. CASE PutMerge(p)
  <2>1. Merge(p) /\ Answer(p, TRUE)
    BY <1>1 DEF PutMerge
  <2>2. puts' = puts \ {p} /\ UNCHANGED <<hand, cache, fts>> /\ db' = [db EXCEPT ![p.req] = Merged(p)]
    BY <1>0, <2>1, MergeSeen DEF Merge
  <2> QED BY <1>0, <2>1, <2>2, AnsweredAlone
<1>2. CASE PutFails(p)
  <2>1. Answer(p, FALSE)
    BY <1>2 DEF PutFails
  <2>2. puts' = puts \ {p} /\ UNCHANGED <<hand, cache, fts>>
    BY <1>2 DEF PutFails, Merge
  <2>3. UNCHANGED db \/ db' = [db EXCEPT ![p.req] = Merged(p)]
    BY <1>0, <1>2, MergeSeen DEF PutFails
  <2> QED BY <1>0, <2>1, <2>2, <2>3, AnsweredAlone
<1>3. CASE PutCheck(p) /\ db[r].status = "Canceled"
  BY <1>0, <1>3, AnsweredAlone DEF PutCheck
<1>4. CASE PutCheck(p) /\ db[r].status # "Canceled"
  <2>1. puts' = (puts \ {p}) \cup {Moved(p)} /\ UNCHANGED <<db, task, hand, cache, fts>>
    BY <1>4 DEF PutCheck, Moved
  <2>2. /\ Moved(p).by = p.by /\ Moved(p).agent = p.agent /\ Moved(p).req = r
        /\ Moved(p).ops = p.ops
    <3>1. p \in Puts
      BY <1>0, PutFields
    <3> QED BY <3>1 DEF Moved, Puts
  <2>3. \A q \in puts' : q.req = r => q = Moved(p)
    BY <2>1 DEF Alone, Lonely
  <2>4. p.req = r /\ \A b \in Agent : Works(b, r)' <=> Works(b, r)
    BY <2>1 DEF Works
  <2>5. Lonely(r)'
    BY <2>1, <2>3, <2>4 DEF Alone, Lonely
  <2>6. PutAlone(r)'
    BY <2>1, <2>2, <2>3, <2>4 DEF Alone, PutAlone, Exists
  <2>7. FtsAlone(r)'
    BY <2>1, <2>4 DEF Alone, FtsAlone
  <2>8. RowTaken(r)' /\ RowTrue(r)' /\ Told(r)'
    BY <2>1, <2>4 DEF Alone, RowTaken, RowTrue, Told
  <2> QED BY <2>5, <2>6, <2>7, <2>8 DEF Alone
<1> QED BY <1>1, <1>2, <1>3, <1>4

\* One more put, of a request that nobody has.
LEMMA NewPutAlone ==
    ASSUME NEW r \in Req, Alone(r), NEW q, q.by \notin {"task"}, puts' = puts \cup {q},
           UNCHANGED <<db, hand, task>>, fts'[r] = 0,
           \A a \in Agent : ~ Works(a, r), \A p \in puts : p.req # r,
           db[r].status \notin {"Waiting", "Scheduled"},
           Exists(r) /\ StatusOf(db[r].ops) = "Failed" => q.by = "user"
    PROVE  Alone(r)'
<1>1. \A a \in Agent : ~ Works(a, r)'
  BY DEF Works
<1>2. \A p \in puts' : p.req = r => p = q
  OBVIOUS
<1>3. Lonely(r)'
  BY <1>1, <1>2 DEF Alone, Lonely
<1>4. PutAlone(r)'
  BY <1>1, <1>2 DEF PutAlone, Exists
<1>5. FtsAlone(r)' /\ RowTaken(r)' /\ RowTrue(r)' /\ Told(r)'
  BY <1>1 DEF Alone, FtsAlone, RowTaken, RowTrue, Told
<1> QED BY <1>3, <1>4, <1>5 DEF Alone

LEMMA OutsidersAlone ==
    ASSUME AllKept, Steady, NEW r \in Req, Alone(r),
           Submit(r) \/ FtsCheck(r) \/ FtsGet(r) \/ Cancel(r) \/ ResetFailed(r) \/ Age(r)
    PROVE  Alone(r)'
<1>0. Copies /\ Known(r)
  BY AtHand
<1>1. CASE Submit(r)
  <2>1. PICK o \in Request : db'[r] = Row(StatusOf(o), o)
    BY <1>0, <1>1, SubmitSeen
  <2>2. db'[r].status = StatusOf(o) /\ db'[r].ops = o /\ StatusOf(o) \in FileStatuses
    BY <2>1, Copied DEF Row
  <2>3. /\ UNCHANGED <<hand, task, puts, fts>> /\ fts[r] = 0 /\ \A p \in puts : p.req # r
        /\ \A a \in Agent : hand[a].req # r /\ task[a][r].pc = "none"
    BY <1>0, <1>1 DEF Submit, agentvars, Known, Unknown
  <2>4. Lonely(r)' /\ PutAlone(r)' /\ FtsAlone(r)' /\ RowTaken(r)' /\ Told(r)'
    BY <2>3 DEF Lonely, PutAlone, FtsAlone, RowTaken, Told, Reported, Works
  <2>5. RowTrue(r)'
    BY <2>2 DEF RowTrue, FileStatuses
  <2> QED BY <2>4, <2>5 DEF Alone
<1>2. CASE FtsCheck(r)
  <2>1. db[r].status = "Scheduled" /\ UNCHANGED <<db, hand, task, puts>>
    BY <1>2 DEF FtsCheck, agentvars
  <2>2. fts'[r] = NextOp(db[r].ops) /\ StatusOf(db[r].ops) = "Scheduled"
    BY <1>0, <1>2, <2>1, FtsCheckSeen DEF Alone, RowTrue, FileStatuses
  <2>3. \A a \in Agent : ~ Works(a, r) /\ ~ Works(a, r)'
    BY <2>1 DEF Alone, RowTaken, Works
  <2>4. \A p \in puts : p.req # r
    BY <2>1 DEF Alone, PutAlone
  <2>5. FtsAlone(r)'
    BY <2>1, <2>2, <2>3, <2>4 DEF FtsAlone
  <2> QED BY <2>1, <2>5 DEF Alone, Lonely, PutAlone, RowTaken, RowTrue, Told, Works, Exists
<1>3. CASE FtsGet(r)
  <2> DEFINE o == db[r].ops
  <2>1. fts[r] # 0 /\ UNCHANGED <<hand, task>>
    BY <1>3 DEF FtsGet, agentvars
  <2>2. /\ \A a \in Agent : ~ Works(a, r) /\ ~ Works(a, r)'
        /\ \A p \in puts : p.req # r
        /\ StatusOf(o) = "Scheduled" /\ Exists(r)
    BY <2>1 DEF Alone, FtsAlone, Works, Exists
  <2>3. db'[r] = Row("Assigned", o) /\ fts'[r] = 0
    BY <1>0, <1>3, <2>2, FtsGetSeen
  <2>4. db'[r].status = "Assigned" /\ db'[r].ops = o
    BY <2>3 DEF Row
  <2>5. \A p \in puts' : p.req = r => p.by = "fts"
    <3>1. \A x : Put("fts", NoAgent, r, x).by = "fts"
      BY DEF Put
    <3> QED BY <1>0, <1>3, <2>2, <3>1, FtsGetSeen
  <2>6. \A p, q \in puts' : p.req = r /\ q.req = r => p = q
    BY <1>0, <1>3, <2>2, FtsGetSeen
  <2>7. Lonely(r)'
    BY <2>1, <2>2, <2>6 DEF Alone, Lonely
  <2>8. PutAlone(r)'
    BY <2>2, <2>4, <2>5 DEF PutAlone
  <2>9. FtsAlone(r)' /\ RowTaken(r)' /\ RowTrue(r)'
    BY <2>2, <2>3, <2>4 DEF FtsAlone, RowTaken, RowTrue, FileStatuses
  <2>10. Told(r)'
    BY <2>1, <2>2 DEF Alone, Told, Reported, Works
  <2> QED BY <2>7, <2>8, <2>9, <2>10 DEF Alone
<1>4. CASE Cancel(r)
  <2>1. db'[r] = Row("Canceled", db[r].ops)
    BY <1>0, <1>4, CancelSeen
  <2>2. db'[r].status = "Canceled" /\ db'[r].ops = db[r].ops
    BY <2>1 DEF Row
  <2>3. UNCHANGED <<hand, task, puts, fts>> /\ Exists(r)
    BY <1>4 DEF Cancel, agentvars
  <2>4. Lonely(r)'
    BY <2>3 DEF Alone, Lonely, Works
  <2>5. PutAlone(r)'
    BY <2>2, <2>3 DEF Alone, PutAlone, Works
  <2>6. FtsAlone(r)'
    BY <2>2, <2>3 DEF Alone, FtsAlone, Works
  <2>7. RowTaken(r)' /\ RowTrue(r)' /\ Told(r)'
    BY <2>2, <2>3 DEF Alone, RowTaken, RowTrue, Told, Works, FileStatuses
  <2> QED BY <2>4, <2>5, <2>6, <2>7 DEF Alone
<1>5. CASE ResetFailed(r)
  <2>1. PICK o : puts' = puts \cup {Put("user", NoAgent, r, o)}
    BY <1>0, <1>5, ResetFailedSeen
  <2>2. StatusOf(db[r].ops) = "Failed" /\ ~ Resetting(r) /\ Exists(r) /\ UNCHANGED <<db, hand, task, fts>>
    BY <1>0, <1>5, ResetFailedSeen DEF ResetFailed, Steady, agentvars
  <2>3. Put("user", NoAgent, r, o).by = "user"
    BY DEF Put
  <2>4. fts[r] = 0 /\ (\A a \in Agent : ~ Works(a, r)) /\ \A p \in puts : p.req # r
    BY <2>2 DEF Alone, FtsAlone, RowTaken, PutAlone, Resetting
  <2>5. db[r].status \notin {"Waiting", "Scheduled"}
    BY <2>2 DEF Alone, RowTrue, FileStatuses
  <2> QED BY <2>1, <2>2, <2>3, <2>4, <2>5, NewPutAlone
<1>6. CASE Age(r)
  <2>1. db'[r].status = db[r].status /\ db'[r].ops = db[r].ops
    BY <1>0, <1>6, AgeSeen
  <2>2. UNCHANGED <<hand, task, puts, fts>>
    BY <1>6 DEF Age, agentvars
  <2> QED BY <2>1, <2>2 DEF Alone, Lonely, PutAlone, FtsAlone, RowTaken, RowTrue, Told, Works, Exists
<1> QED BY <1>1, <1>2, <1>3, <1>4, <1>5, <1>6

LEMMA CleanAlone ==
    ASSUME AllKept, Steady, CleanStep, NEW r \in Req, Alone(r)
    PROVE  Alone(r)'
<1>0. Copies /\ Copies'
  BY AtHand, CopiesKept DEF Next
<1>1. ASSUME Untouched(r) PROVE Alone(r)'
  BY <1>0, <1>1, UntouchedAlone
<1>2. ASSUME UNCHANGED <<db, hand, task, puts, fts>> PROVE Alone(r)'
  BY <1>2 DEF Alone, Lonely, PutAlone, FtsAlone, RowTaken, RowTrue, Told, Works, Exists
<1>3. CASE StartCycle \/ ListFinal \/ EndCycle
  BY <1>2, <1>3 DEF StartCycle, ListFinal, EndCycle, agentvars
<1>4. ASSUME NEW s \in Req, Kick(s) PROVE Alone(r)'
  <2> SUFFICES ASSUME s = r PROVE Alone(r)'
    BY <1>0, <1>1, <1>4, KickSeen DEF Others
  <2> DEFINE q == Put("kick", NoAgent, r, db[r].ops)
  <2>1. UNCHANGED <<db, hand, task, fts>> /\ ~ Kicking
    BY <1>4 DEF Kick, agentvars
  <2>2. CASE UNCHANGED puts
    BY <1>2, <2>1, <2>2
  <2>3. CASE puts' = puts \cup {q} /\ db[r].status = "Assigned" /\ db[r].old
    <3>1. (\A a \in Agent : ~ Works(a, r)) /\ (\A p \in puts : p.req # r) /\ fts[r] = 0
      BY <2>1, <2>3, AtHand DEF Kicking
    <3>2. StatusOf(db[r].ops) # "Failed"
      BY <2>3 DEF Alone, RowTrue
    <3>3. q.by = "kick"
      BY DEF Put
    <3> HIDE DEF q
    <3> QED BY <2>1, <2>3, <3>1, <3>2, <3>3, NewPutAlone
  <2> QED BY <1>0, <1>4, <2>2, <2>3, KickSeen
<1>5. ASSUME NEW s \in Req, Delete(s) PROVE Alone(r)'
  <2> SUFFICES ASSUME s = r PROVE Alone(r)'
    BY <1>0, <1>1, <1>5, DeleteSeen DEF Others
  <2>1. Listed(r) /\ db'[r] = NoRow /\ UNCHANGED <<hand, task, puts, fts>>
    BY <1>0, <1>5, DeleteSeen DEF Delete, agentvars
  <2>2. db'[r].status = "none"
    BY <2>1 DEF NoRow
  <2>3. fts[r] = 0 /\ \A a \in Agent : ~ Works(a, r) /\ ~ Works(a, r)'
    BY <2>1, AtHand DEF Works
  <2>4. Lonely(r)'
    BY <2>1, <2>3 DEF Alone, Lonely
  <2>5. PutAlone(r)'
    BY <2>1, <2>2, <2>3 DEF Alone, PutAlone, Exists
  <2>6. FtsAlone(r)' /\ RowTaken(r)' /\ RowTrue(r)'
    BY <2>1, <2>2, <2>3 DEF FtsAlone, RowTaken, RowTrue, FileStatuses
  <2>7. Told(r)'
    BY <2>1, <2>3 DEF Alone, Told, Reported, Works
  <2> QED BY <2>4, <2>5, <2>6, <2>7 DEF Alone
<1> QED BY <1>3, <1>4, <1>5 DEF CleanStep

LEMMA AloneStays ==
    ASSUME AllKept, Steady, \A r \in Req : Alone(r), [Next]_vars, NEW r \in Req
    PROVE  Alone(r)'
<1>0. Copies /\ Copies' /\ Alone(r) /\ \A a \in Agent : hand[a].pc # "read"
  BY AtHand, CopiesKept
<1>1. ASSUME Untouched(r) PROVE Alone(r)'
  BY <1>0, <1>1, UntouchedAlone
<1>2. ASSUME NEW s \in Req, s # r, Others(s) PROVE Alone(r)'
  BY <1>1, <1>2 DEF Others
<1>3. ASSUME NEW a \in Agent, NEW s \in Req, FetchStep(a, s) \/ TaskStep(a, s) \/ Callback(a, s)
      PROVE  Alone(r)'
  <2>1. Others(s)
    BY <1>0, <1>3, BulkFetchSeen, SelectRequestSeen, ExecuteSeen, NoProxySeen, RaiseSeen, LeaveSeen,
       FinalizeSeen, TimeoutSeen, CallbackSeen DEF FetchStep, TaskStep
  <2>2. ~ SelectRequest(a, s)
    BY DEF SelectRequest, Steady
  <2> QED BY <1>0, <1>2, <1>3, <2>1, <2>2, FetchAlone, TasksAlone, CallbackAlone DEF FetchStep
<1>4. ASSUME NEW a \in Agent, AgentStep(a) PROVE Alone(r)'
  <2>1. hand[a].req \in Req /\ Others(hand[a].req)
    BY <1>0, <1>4, AssignRequestSeen, LoseRequestSeen, StartTaskSeen DEF AgentStep
  <2> QED BY <1>0, <1>2, <1>4, <2>1, HandAlone
<1>5. ASSUME NEW a \in Agent, Crash(a) \/ Stop(a) PROVE Alone(r)'
  BY <1>0, <1>5, CrashAlone DEF Stop, Steady
<1>6. CASE PutStep
  <2>1. PICK p \in puts : PutCheck(p) \/ PutMerge(p) \/ PutFails(p)
    BY <1>6 DEF PutStep
  <2>2. p.req \in Req /\ Others(p.req)
    BY <1>0, <2>1, PutFields, PutCheckSeen, PutMergeSeen, PutFailsSeen
  <2> QED BY <1>0, <1>2, <2>1, <2>2, PutsAlone
<1>7. CASE CleanStep
  BY <1>0, <1>7, CleanAlone
<1>8. ASSUME NEW s \in Req,
             Submit(s) \/ FtsCheck(s) \/ FtsGet(s) \/ Cancel(s) \/ ResetFailed(s) \/ Age(s)
      PROVE  Alone(r)'
  <2>1. Others(s)
    BY <1>0, <1>8, SubmitSeen, FtsCheckSeen, FtsGetSeen, CancelSeen, ResetFailedSeen, AgeSeen
  <2> QED BY <1>0, <1>2, <1>8, <2>1, OutsidersAlone
<1>9. CASE UNCHANGED vars
  BY <1>0, <1>1, <1>9, StutterSeen
<1> QED BY <1>3, <1>4, <1>5, <1>6, <1>7, <1>8, <1>9 DEF Next

AllOver == \A r \in Req : Over(r)
AllAlone == \A r \in Req : Alone(r)

LEMMA InitiallyAlone ==
    ASSUME Init
    PROVE  NeverRead /\ AllOver /\ AllAlone
<1>1. NeverRead
  BY DEF Init, NeverRead, EmptyHand
<1>2. AllOver
  BY DEF Init, AllOver, Over, Undisturbed, Finished, Listed, NoRow
<1>3. ASSUME NEW r \in Req PROVE Alone(r)
  <2>1. /\ db[r].status = "none" /\ fts[r] = 0 /\ puts = {}
        /\ \A a \in Agent : hand[a].req # r /\ task[a][r].pc = "none"
    BY RequestAssumption DEF Init, NoRow, EmptyHand, NoTask
  <2> QED BY <2>1 DEF Alone, Lonely, PutAlone, FtsAlone, RowTaken, RowTrue, Told, Reported, Works, FileStatuses
<1> QED BY <1>1, <1>2, <1>3 DEF AllAlone

LEMMA AloneAlways == Steady => (Spec => [](AllKept /\ AllAlone))
<1> SUFFICES ASSUME Steady PROVE Spec => [](AllKept /\ AllAlone)
  OBVIOUS
<1>1. Init => NeverRead /\ AllOver /\ AllAlone
  BY InitiallyAlone
<1>2. Kept /\ NeverRead /\ AllOver /\ [Next]_vars => NeverRead' /\ AllOver'
  BY NeverReadStays, OverStays DEF Kept, AllOver, Steady
<1>3. AllKept <=> Kept /\ NeverRead /\ AllOver
  BY DEF AllKept, AllOver
<1>4. AllKept /\ AllAlone /\ [Next]_vars => AllAlone'
  BY AloneStays DEF AllAlone
<1> QED BY <1>1, <1>2, <1>3, <1>4, KeptAlways, PTL DEF Spec

(***************************************************************************)
(* A request is executed by one agent at a time, although agents crash,    *)
(* calls and answers are lost, requests are canceled, reset and kicked     *)
(* meanwhile, and the FTS3 callback assigns what it finds: the row lock of *)
(* getBulkRequests and the grace period are enough, as long as no task     *)
(* times out with its put under way.                                       *)
(***************************************************************************)
THEOREM RequestOneProcessor == Steady => (Spec => []OneProcessor)
<1>1. AllAlone => OneProcessor
  BY DEF AllAlone, Alone, Lonely, OneProcessor, Busy, Works
<1> QED BY <1>1, AloneAlways, PTL

-----------------------------------------------------------------------------
(***************************************************************************)
(* Whoever has an assigned request puts it back, if nobody dies and no     *)
(* call is lost.                                                           *)
(***************************************************************************)
NothingLost == {"crash", "lost", "putFails"} \cap Faults = {}

Held(r) ==
    db[r].status = "Assigned" => (\E a \in Agent : Works(a, r)) \/ \E p \in puts : p.req = r

AllHeld == \A r \in Req : Held(r)

LEMMA AgentsHeld ==
    ASSUME AllKept, Steady, NothingLost, NEW a \in Agent, NEW r \in Req, Alone(r), Held(r),
           FetchStep(a, r) \/ TaskStep(a, r) \/ Callback(a, r) \/ (AgentStep(a) /\ hand[a].req = r)
    PROVE  Held(r)'
<1>0. Copies /\ Copies' /\ Together(r) /\ hand[a].pc # "read"
  BY AtHand, CopiesKept DEF FetchStep, AgentStep, Next
<1>1. CASE FetchStep(a, r)
  <2>1. hand'[a].req = r
    BY <1>0, <1>1 DEF FetchStep, BulkFetch, SelectRequest, Copies
  <2> QED BY <2>1 DEF Held, Works
<1>2. CASE TaskStep(a, r)
  <2>1. task[a][r].pc # "none" /\ Together(r)'
    <3>1. [Next]_vars
      BY <1>2 DEF Next
    <3> QED BY <1>0, <1>2, <3>1, TogetherStays
            DEF TaskStep, Execute, NoProxy, Raise, Leave, Finalize, Timeout
  <2>2. UNCHANGED cache
    BY <1>2 DEF TaskStep, Execute, NoProxy, Raise, Leave, Finalize, Timeout
  <2>3. task'[a][r].pc # "none"
    BY <1>0, <2>1, <2>2 DEF Together
  <2> QED BY <2>3 DEF Held, Works
<1>3. CASE Callback(a, r)
  <2>1. task[a][r].pc = "ended" /\ cache[a][r] # NoCopy /\ UNCHANGED db
    BY <1>0, <1>3 DEF Callback, Together
  <2>2. CASE task[a][r].result = "ok" /\ StatusOf(task[a][r].ops) = "Done"
    <3>1. db[r].status \in {"Done", "Canceled"}
      BY <2>1, <2>2 DEF Alone, Told, Reported
    <3> QED BY <2>1, <3>1 DEF Held
  <2>3. CASE ~ (task[a][r].result = "ok" /\ StatusOf(task[a][r].ops) = "Done")
    <3>1. PICK o : puts' = puts \cup {Put("callback", a, r, o)}
      BY <1>0, <1>3, <2>1, <2>3, CallbackSeen
    <3>2. Put("callback", a, r, o).req = r
      BY DEF Put
    <3> QED BY <3>1, <3>2 DEF Held
  <2> QED BY <2>2, <2>3
<1>4. CASE AgentStep(a) /\ hand[a].req = r
  <2>1. StartTask(a)
    BY <1>0, <1>4 DEF AgentStep, AssignRequest, LoseRequest, NothingLost
  <2>2. cache[a][r] = NoCopy
    BY <1>0, <1>4 DEF Alone, Lonely, Together
  <2>3. task'[a][r] = Started(hand[a].ops)
    BY <1>0, <1>4, <2>1, <2>2, StartTaskSeen
  <2>4. task'[a][r].pc = "running"
    BY <2>3 DEF Started
  <2> QED BY <2>4 DEF Held, Works
<1> QED BY <1>1, <1>2, <1>3, <1>4

LEMMA HeldStays ==
    ASSUME AllKept, Steady, NothingLost, AllAlone, AllHeld, [Next]_vars
    PROVE  AllHeld'
<1> SUFFICES ASSUME NEW r \in Req PROVE Held(r)'
  BY DEF AllHeld
<1>0. Copies /\ Copies' /\ Alone(r) /\ Held(r) /\ \A a \in Agent : hand[a].pc # "read"
  BY AtHand, CopiesKept DEF AllAlone, AllHeld
<1>1. ASSUME Untouched(r) PROVE Held(r)'
  <2>1. \A a \in Agent : Works(a, r) => Works(a, r)'
    BY <1>1 DEF Untouched, TasksKept, HandsKept, Works
  <2>2. \A p \in puts : p.req = r => p \in puts'
    BY <1>0, <1>1 DEF Untouched, PutsKept, Copies
  <2> QED BY <1>0, <1>1, <2>1, <2>2 DEF Untouched, RowKept, Held
<1>2. ASSUME NEW s \in Req, s # r, Others(s) PROVE Held(r)'
  BY <1>1, <1>2 DEF Others
<1>3. ASSUME db'[r].status = db[r].status, UNCHANGED <<hand, task>>, puts \subseteq puts'
      PROVE  Held(r)'
  BY <1>0, <1>3 DEF Held, Works
<1>4. ASSUME NEW a \in Agent, NEW s \in Req, FetchStep(a, s) \/ TaskStep(a, s) \/ Callback(a, s)
      PROVE  Held(r)'
  <2>1. Others(s)
    BY <1>0, <1>4, BulkFetchSeen, SelectRequestSeen, ExecuteSeen, NoProxySeen, RaiseSeen, LeaveSeen,
       FinalizeSeen, TimeoutSeen, CallbackSeen DEF FetchStep, TaskStep
  <2> QED BY <1>0, <1>2, <1>4, <2>1, AgentsHeld
<1>5. ASSUME NEW a \in Agent, AgentStep(a) PROVE Held(r)'
  <2>1. hand[a].req \in Req /\ Others(hand[a].req)
    BY <1>0, <1>5, AssignRequestSeen, LoseRequestSeen, StartTaskSeen DEF AgentStep
  <2> QED BY <1>0, <1>2, <1>5, <2>1, AgentsHeld
<1>6. ASSUME NEW a \in Agent, Crash(a) \/ Stop(a) PROVE Held(r)'
  BY <1>6 DEF Crash, Stop, Steady, NothingLost
<1>7. CASE PutStep
  <2>1. PICK p \in puts : PutCheck(p) \/ PutMerge(p)
    BY <1>7 DEF PutStep, PutFails, NothingLost
  <2>2. p.req \in Req /\ Others(p.req) /\ p.ops \in Request
    BY <1>0, <2>1, PutFields, PutCheckSeen, PutMergeSeen
  <2> SUFFICES ASSUME p.req = r PROVE Held(r)'
    BY <1>2, <2>2
  <2>3. CASE PutMerge(p)
    <3>1. db'[r] = Merged(p)
      BY <1>0, <2>3, MergeSeen DEF PutMerge
    <3>2. db'[r].status = StatusOf(p.ops)
      BY <3>1 DEF Merged, Row
    <3>3. db'[r].status # "Assigned"
      BY <2>2, <3>2, Copied DEF FileStatuses
    <3> QED BY <3>3 DEF Held
  <2>4. CASE PutCheck(p) /\ db[r].status = "Canceled"
    BY <2>4 DEF PutCheck, Held
  <2>5. CASE PutCheck(p) /\ db[r].status # "Canceled"
    <3>1. Moved(p) \in puts' /\ Moved(p).req = r
      BY <1>0, <2>5, PutFields DEF PutCheck, Moved
    <3> QED BY <3>1 DEF Held
  <2> QED BY <2>1, <2>3, <2>4, <2>5
<1>8. CASE StartCycle \/ ListFinal \/ EndCycle
  BY <1>3, <1>8 DEF StartCycle, ListFinal, EndCycle, agentvars
<1>9. ASSUME NEW s \in Req, Kick(s) PROVE Held(r)'
  BY <1>3, <1>9 DEF Kick, agentvars
<1>10. ASSUME NEW s \in Req, Delete(s) PROVE Held(r)'
  BY <1>0, <1>2, <1>10, DeleteSeen DEF Held, NoRow
<1>11. ASSUME NEW s \in Req, Submit(s) PROVE Held(r)'
  <2> SUFFICES ASSUME s = r PROVE Held(r)'
    BY <1>0, <1>2, <1>11, SubmitSeen
  <2>1. PICK o \in Request : db'[r] = Row(StatusOf(o), o)
    BY <1>0, <1>11, SubmitSeen
  <2>2. db'[r].status \in FileStatuses
    BY <2>1, Copied DEF Row
  <2> QED BY <2>2 DEF Held, FileStatuses
<1>12. ASSUME NEW s \in Req, FtsGet(s) PROVE Held(r)'
  <2> SUFFICES ASSUME s = r PROVE Held(r)'
    BY <1>0, <1>2, <1>12, FtsGetSeen
  <2>1. Exists(r) /\ NextOp(db[r].ops) = fts[r]
    BY <1>0, <1>12 DEF FtsGet, Alone, FtsAlone, Exists
  <2>2. PICK o : puts' = puts \cup {Put("fts", NoAgent, r, o)}
    BY <1>0, <1>12, <2>1, FtsGetSeen
  <2>3. Put("fts", NoAgent, r, o).req = r
    BY DEF Put
  <2> QED BY <2>2, <2>3 DEF Held
<1>13. ASSUME NEW s \in Req, Cancel(s) PROVE Held(r)'
  <2> SUFFICES ASSUME s = r PROVE Held(r)'
    BY <1>0, <1>2, <1>13, CancelSeen
  <2>1. db'[r] = Row("Canceled", db[r].ops)
    BY <1>0, <1>13, CancelSeen
  <2> QED BY <2>1 DEF Held, Row
<1>14. ASSUME NEW s \in Req, FtsCheck(s) \/ ResetFailed(s) PROVE Held(r)'
  BY <1>3, <1>14 DEF FtsCheck, ResetFailed, agentvars
<1>15. ASSUME NEW s \in Req, Age(s) PROVE Held(r)'
  <2>1. s = r => db'[r].status = db[r].status
    BY <1>0, <1>15, AgeSeen
  <2>2. UNCHANGED <<hand, task, puts>>
    BY <1>15 DEF Age, agentvars
  <2> QED BY <1>0, <1>2, <1>3, <1>15, <2>1, <2>2, AgeSeen
<1>16. CASE UNCHANGED vars
  BY <1>0, <1>1, <1>16, StutterSeen
<1> QED BY <1>4, <1>5, <1>6, <1>7, <1>8, <1>9, <1>10, <1>11, <1>12, <1>13, <1>14, <1>15, <1>16
        DEF Next, CleanStep

(***************************************************************************)
(* Without crashes and lost calls no request is left assigned with nobody  *)
(* to put it back: what a task does not report, the callback does, and the *)
(* FTS3 callback finds the operation for which it assigned the request.    *)
(***************************************************************************)
THEOREM RequestHeld == Steady /\ NothingLost => (Spec => []AssignedIsHeld)
<1> SUFFICES ASSUME Steady, NothingLost PROVE Spec => []AssignedIsHeld
  OBVIOUS
<1>1. Init => AllHeld
  BY DEF Init, AllHeld, Held, NoRow
<1>2. AllKept /\ AllAlone /\ AllHeld /\ [Next]_vars => AllHeld'
  BY HeldStays
<1>3. AllKept /\ AllHeld => AssignedIsHeld
  <2> SUFFICES ASSUME AllKept, AllHeld, NEW r \in Req, db[r].status = "Assigned",
                      \A p \in puts : p.req # r
               PROVE  \E a \in Agent : hand[a].req = r \/ cache[a][r] # NoCopy
    BY DEF AssignedIsHeld
  <2>1. PICK a \in Agent : Works(a, r)
    BY DEF AllHeld, Held
  <2>2. Together(r)
    BY AtHand
  <2> QED BY <2>1, <2>2 DEF Works, Together
<1> QED BY <1>1, <1>2, <1>3, AloneAlways, PTL DEF Spec

-----------------------------------------------------------------------------
(***************************************************************************)
(* No copy of a request that may still be put is behind the database: it   *)
(* has done what the database has recorded as done.  The exception is the  *)
(* copy in the cache of an agent whose task has already put the request:   *)
(* that one is put back only if the request was canceled in the meantime,  *)
(* and then the look at the status drops it.                               *)
(***************************************************************************)
Careful == {"putFails", "noProxy", "finalize"} \cap Faults = {}

UpToDate(r, o) == DoneOf(db[r].ops) \subseteq DoneOf(o)

PutsUpToDate(r) ==
    \A p \in puts : p.req = r =>
        /\ UpToDate(r, p.ops) \/ (p.stage = "check" /\ db[r].status = "Canceled")
        /\ p.by = "task" /\ task[p.agent][r].pc = "put" => p.ops = task[p.agent][r].ops

HandsUpToDate(r) == \A a \in Agent : hand[a].req = r => UpToDate(r, hand[a].ops)

TasksUpToDate(r) ==
    \A a \in Agent : task[a][r].pc # "none" =>
        /\ UpToDate(r, task[a][r].ops)
        /\ \/ UpToDate(r, cache[a][r])
           \/ Reported(task[a][r])
           \/ task[a][r].pc = "ended" /\ task[a][r].result # "ok" /\ db[r].status = "Canceled"

Current(r) == PutsUpToDate(r) /\ HandsUpToDate(r) /\ TasksUpToDate(r)

AllCurrent == \A r \in Req : Current(r)

LEMMA UntouchedCurrent ==
    ASSUME Copies, Copies', NEW r \in Req, Untouched(r), Current(r)
    PROVE  Current(r)'
<1>1. \A p \in puts' : p.req = r => p \in puts
  BY DEF Untouched, PutsKept, Copies
<1>2. /\ db'[r] = db[r]
      /\ \A a \in Agent : task'[a][r] = task[a][r] /\ cache'[a][r] = cache[a][r]
      /\ \A a \in Agent : hand'[a].req = r => hand'[a] = hand[a] /\ hand[a].req = r
  BY DEF Untouched, RowKept, TasksKept, HandsKept
<1>3. \A p \in puts : p.by = "task" => p.agent \in Agent
  BY PutFields
<1>4. PutsUpToDate(r)'
  BY <1>1, <1>2, <1>3 DEF Current, PutsUpToDate, UpToDate
<1>5. HandsUpToDate(r)'
  BY <1>2 DEF Current, HandsUpToDate, UpToDate
<1>6. TasksUpToDate(r)'
  BY <1>2 DEF Current, TasksUpToDate, UpToDate, Reported
<1> QED BY <1>4, <1>5, <1>6 DEF Current

\* The row of a request changes its status, but not to or from "Canceled" unless it gets it.
LEMMA RowCurrent ==
    ASSUME Copies, NEW r \in Req, Current(r), UNCHANGED <<hand, cache, task, puts>>,
           db'[r].ops = db[r].ops, db[r].status = "Canceled" => db'[r].status = "Canceled"
    PROVE  Current(r)'
<1>1. PutsUpToDate(r)'
  BY DEF Current, PutsUpToDate, UpToDate
<1>2. HandsUpToDate(r)'
  BY DEF Current, HandsUpToDate, UpToDate
<1>3. TasksUpToDate(r)'
  BY DEF Current, TasksUpToDate, UpToDate, Reported
<1> QED BY <1>1, <1>2, <1>3 DEF Current

\* One more put, of a copy that is not behind, and not by a task.
LEMMA NewPutCurrent ==
    ASSUME NEW r \in Req, Current(r), UNCHANGED <<hand, cache, task>>, db'[r].ops = db[r].ops,
           db[r].status = "Canceled" => db'[r].status = "Canceled",
           NEW q, q.by # "task", puts' = puts \cup {q}, UpToDate(r, q.ops)
    PROVE  Current(r)'
<1>1. PutsUpToDate(r)'
  BY DEF Current, PutsUpToDate, UpToDate
<1>2. HandsUpToDate(r)'
  BY DEF Current, HandsUpToDate, UpToDate
<1>3. TasksUpToDate(r)'
  BY DEF Current, TasksUpToDate, UpToDate, Reported
<1> QED BY <1>1, <1>2, <1>3 DEF Current

\* A task of one agent changes, and does not begin to put.
LEMMA TaskCurrent ==
    ASSUME Copies, NEW a \in Agent, NEW r \in Req, Current(r),
           NEW t, TaskMoves(a, r, t), t.pc # "put",
           UNCHANGED <<db, hand>>, \A p \in puts' : p.req = r => p \in puts,
           UpToDate(r, t.ops),
           \/ UpToDate(r, cache[a][r])
           \/ Reported(t)
           \/ t.pc = "ended" /\ t.result # "ok" /\ db[r].status = "Canceled"
    PROVE  Current(r)'
<1>0. \A p \in puts : p.by = "task" => p.agent \in Agent
  BY PutFields
<1>1. PutsUpToDate(r)'
  BY <1>0 DEF Current, PutsUpToDate, UpToDate, TaskMoves
<1>2. HandsUpToDate(r)'
  BY DEF Current, HandsUpToDate, UpToDate
<1>3. TasksUpToDate(r)'
  BY DEF Current, TasksUpToDate, UpToDate, TaskMoves
<1> QED BY <1>1, <1>2, <1>3 DEF Current

LEMMA TasksCurrent ==
    ASSUME AllKept, Steady, Careful, NEW a \in Agent, NEW r \in Req, TaskStep(a, r),
           Alone(r), Current(r)
    PROVE  Current(r)'
<1> DEFINE t == task[a][r]
<1>0. Copies /\ t.pc # "none" /\ UNCHANGED <<db, hand>>
  BY AtHand DEF TaskStep, Execute, NoProxy, Raise, Leave, Finalize, Timeout
<1>1. t.ops \in Request /\ t.result \in {"none", "ok", "error", "timeout"} /\ UpToDate(r, t.ops)
  BY <1>0, TaskFields DEF Current, TasksUpToDate
<1>2. t.pc = "running" => UpToDate(r, cache[a][r])
  BY <1>0 DEF Current, TasksUpToDate, Reported
<1>3. CASE Execute(a, r)
  <2>1. PICK n \in Tasks : /\ n.pc \in {"running", "ended"} /\ TaskMoves(a, r, n)
                           /\ DoneOf(t.ops) \subseteq DoneOf(n.ops)
    BY <1>0, <1>3, ExecuteSeen
  <2>2. UNCHANGED puts /\ t.pc = "running"
    BY <1>3 DEF Execute
  <2>3. UpToDate(r, n.ops)
    BY <1>1, <2>1 DEF UpToDate
  <2> QED BY <1>0, <1>2, <2>1, <2>2, <2>3, TaskCurrent
<1>4. CASE Raise(a, r)
  <2> DEFINE n == Onward(t, "ended", "error")
  <2>1. TaskMoves(a, r, n) /\ n.pc = "ended" /\ n.ops = t.ops
    BY <1>0, <1>4, RaiseSeen, OnwardFields
  <2>2. UNCHANGED puts /\ t.pc = "running"
    BY <1>4 DEF Raise
  <2> HIDE DEF n
  <2> QED BY <1>0, <1>1, <1>2, <2>1, <2>2, TaskCurrent
<1>5. CASE Finalize(a, r)
  <2>1. UNCHANGED puts /\ t.pc = "finalize"
    BY <1>5 DEF Finalize
  <2>2. StatusOf(t.ops) = "Done" /\ db[r].status \in {"Done", "Canceled"}
    BY <2>1 DEF Alone, Told, Reported
  <2>3. PICK result \in {"ok", "error"} :
          /\ TaskMoves(a, r, Onward(t, "ended", result))
          /\ result = "error" => db[r].status # "Done"
    BY <1>0, <1>5, FinalizeSeen DEF Careful
  <2> DEFINE n == Onward(t, "ended", result)
  <2>4. TaskMoves(a, r, n) /\ n.pc = "ended" /\ n.ops = t.ops /\ n.result = result
    BY <1>0, <2>3, OnwardFields
  <2> HIDE DEF n
  <2>5. Reported(n) \/ (n.result # "ok" /\ db[r].status = "Canceled")
    BY <2>2, <2>3, <2>4 DEF Reported
  <2> QED BY <1>0, <1>1, <2>1, <2>4, <2>5, TaskCurrent
<1>6. CASE Leave(a, r) /\ StatusOf(t.ops) # "Done"
  <2> DEFINE n == Onward(t, "ended", "ok")
  <2>1. TaskMoves(a, r, n) /\ n.pc = "ended" /\ n.ops = t.ops
    BY <1>0, <1>6, LeaveSeen, OnwardFields
  <2>2. UNCHANGED puts /\ t.pc = "running"
    BY <1>0, <1>6, LeaveSeen DEF Leave
  <2> HIDE DEF n
  <2> QED BY <1>0, <1>1, <1>2, <2>1, <2>2, TaskCurrent
<1>7. CASE Leave(a, r) /\ StatusOf(t.ops) = "Done"
  <2> DEFINE n == Onward(t, "put", t.result)  q == Put("task", a, r, t.ops)
  <2>1. TaskMoves(a, r, n) /\ n.pc = "put" /\ n.ops = t.ops
    BY <1>0, <1>1, <1>7, LeaveSeen, OnwardFields
  <2>2. puts' = puts \cup {q} /\ t.pc = "running"
    BY <1>0, <1>7, LeaveSeen DEF Leave
  <2>3. q.by = "task" /\ q.agent = a /\ q.req = r /\ q.ops = t.ops
    BY DEF Put
  <2>4. \A p \in puts : p.req # r
    BY <1>0, <2>2 DEF Alone, PutAlone, Works
  <2> HIDE DEF n, q
  <2>5. PutsUpToDate(r)'
    <3>1. \A p \in puts' : p.req = r => p = q
      BY <2>2, <2>4
    <3> QED BY <1>0, <1>1, <2>1, <2>3, <3>1 DEF PutsUpToDate, UpToDate, TaskMoves
  <2>6. HandsUpToDate(r)'
    BY <1>0 DEF Current, HandsUpToDate, UpToDate
  <2>7. TasksUpToDate(r)'
    BY <1>0, <1>1, <1>2, <2>1, <2>2 DEF Current, TasksUpToDate, UpToDate, TaskMoves
  <2> QED BY <2>5, <2>6, <2>7 DEF Current
<1> QED BY <1>3, <1>4, <1>5, <1>6, <1>7 DEF TaskStep, Timeout, NoProxy, Steady, Careful

LEMMA FetchCurrent ==
    ASSUME AllKept, Steady, NEW a \in Agent, NEW r \in Req, BulkFetch(a, r), Current(r)
    PROVE  Current(r)'
<1>0. Copies
  BY AtHand
<1>1. db[r].status = "Waiting" /\ UNCHANGED <<cache, task, puts>>
  BY DEF BulkFetch
<1>2. db'[r] = Row("Assigned", db[r].ops)
  BY <1>0, <1>1, SetStatusSeen DEF BulkFetch, Exists, RowStatuses
<1>3. db'[r].ops = db[r].ops
  BY <1>2 DEF Row
<1>4. hand'[a].ops = db[r].ops /\ \A b \in Agent : b # a => hand'[b] = hand[b]
  BY <1>0 DEF BulkFetch, Copies
<1>5. PutsUpToDate(r)'
  BY <1>1, <1>3 DEF Current, PutsUpToDate, UpToDate
<1>6. HandsUpToDate(r)'
  BY <1>3, <1>4 DEF Current, HandsUpToDate, UpToDate
<1>7. TasksUpToDate(r)'
  BY <1>1, <1>3 DEF Current, TasksUpToDate, UpToDate, Reported
<1> QED BY <1>5, <1>6, <1>7 DEF Current

LEMMA CallbackCurrent ==
    ASSUME AllKept, Steady, NEW a \in Agent, NEW r \in Req, Callback(a, r), Alone(r), Current(r)
    PROVE  Current(r)'
<1> DEFINE t == task[a][r]
           o == IF t.result = "ok" THEN t.ops ELSE cache[a][r]
           q == Put("callback", a, r, o)
<1>0. Copies /\ t.pc = "ended" /\ UNCHANGED <<db, hand>>
  BY AtHand DEF Callback
<1>1. /\ task'[a][r] = NoTask
      /\ \A b \in Agent : b # a => task'[b][r] = task[b][r] /\ cache'[b][r] = cache[b][r]
      /\ UNCHANGED puts \/ (puts' = puts \cup {q} /\ ~ Reported(t))
  BY <1>0, CallbackSeen DEF Reported
<1>2. \A p \in puts : p.req # r
  BY <1>0 DEF Alone, PutAlone, Works
<1>3. ~ Reported(t) => UpToDate(r, o) \/ db[r].status = "Canceled"
  BY <1>0 DEF Current, TasksUpToDate
<1>4. q.by = "callback" /\ q.req = r /\ q.ops = o /\ q.stage = "check"
  BY DEF Put
<1>5. task'[a][r].pc = "none"
  BY <1>1 DEF NoTask
<1> HIDE DEF q, o
<1>6. PutsUpToDate(r)'
  <2>1. \A p \in puts' : p.req = r => p = q /\ ~ Reported(t)
    BY <1>1, <1>2
  <2> QED BY <1>0, <1>3, <1>4, <2>1 DEF PutsUpToDate, UpToDate
<1>7. HandsUpToDate(r)'
  BY <1>0 DEF Current, HandsUpToDate, UpToDate
<1>8. TasksUpToDate(r)'
  BY <1>0, <1>1, <1>5 DEF Current, TasksUpToDate, UpToDate, Reported
<1> QED BY <1>6, <1>7, <1>8 DEF Current

LEMMA HandCurrent ==
    ASSUME AllKept, Steady, NEW a \in Agent, NEW r \in Req, hand[a].req = r, AgentStep(a),
           Alone(r), Current(r)
    PROVE  Current(r)'
<1>0. Copies /\ Together(r) /\ hand[a].pc # "read"
  BY AtHand
<1>1. UNCHANGED <<db, puts>> /\ (LoseRequest(a) \/ StartTask(a))
  BY <1>0 DEF AgentStep, AssignRequest, LoseRequest, StartTask
<1>2. task[a][r].pc = "none" /\ cache[a][r] = NoCopy /\ UpToDate(r, hand[a].ops)
  BY <1>0 DEF Alone, Lonely, Together, Current, HandsUpToDate
<1>3. \A p \in puts : p.req = r => p.by # "task"
  BY <1>2 DEF Alone, PutAlone, Works
<1>4. EmptyHand.req # r
  BY RequestAssumption DEF EmptyHand
<1>5. /\ hand'[a] = EmptyHand
      /\ \A b \in Agent : b # a => /\ hand'[b] = hand[b] /\ task'[b][r] = task[b][r]
                                   /\ cache'[b][r] = cache[b][r]
      /\ \/ task'[a][r] = task[a][r]
         \/ task'[a][r] = Started(hand[a].ops) /\ cache'[a][r] = hand[a].ops
  <2>1. CASE StartTask(a)
    BY <1>0, <1>2, <2>1, StartTaskSeen
  <2>2. CASE LoseRequest(a)
    BY <1>0, <2>2 DEF LoseRequest, Copies
  <2> QED BY <1>1, <2>1, <2>2
<1>6. task'[a][r].pc # "none" => task'[a][r].ops = hand[a].ops /\ cache'[a][r] = hand[a].ops
  BY <1>2, <1>5 DEF Started
<1>7. PutsUpToDate(r)'
  BY <1>1, <1>3 DEF Current, PutsUpToDate, UpToDate
<1>8. HandsUpToDate(r)'
  BY <1>1, <1>4, <1>5 DEF Current, HandsUpToDate, UpToDate
<1>9. TasksUpToDate(r)'
  <2>1. ASSUME NEW b \in Agent, b # a
        PROVE  task'[b][r] = task[b][r] /\ cache'[b][r] = cache[b][r]
    BY <1>5, <2>1
  <2> QED BY <1>1, <1>2, <1>6, <2>1 DEF Current, TasksUpToDate, UpToDate, Reported
<1> QED BY <1>7, <1>8, <1>9 DEF Current

LEMMA CrashCurrent ==
    ASSUME AllKept, NEW a \in Agent, Crash(a), NEW r \in Req, Current(r)
    PROVE  Current(r)'
<1>0. Copies /\ \A p \in puts : p.by = "task" => p.agent \in Agent
  BY AtHand, PutFields
<1>1. NothingLeft(a) /\ UNCHANGED <<db, puts>>
  BY DEF Crash
<1>2. EmptyHand.req # r /\ NoTask.pc = "none"
  BY RequestAssumption DEF EmptyHand, NoTask
<1>3. /\ task'[a][r].pc = "none" /\ hand'[a].req # r
      /\ \A b \in Agent : b # a => /\ hand'[b] = hand[b] /\ task'[b][r] = task[b][r]
                                   /\ cache'[b][r] = cache[b][r]
  BY <1>0, <1>1, <1>2, NothingLeftSeen
<1>4. PutsUpToDate(r)'
  BY <1>0, <1>1, <1>3 DEF Current, PutsUpToDate, UpToDate
<1>5. HandsUpToDate(r)'
  BY <1>1, <1>3 DEF Current, HandsUpToDate, UpToDate
<1>6. TasksUpToDate(r)'
  BY <1>1, <1>3 DEF Current, TasksUpToDate, UpToDate, Reported
<1> QED BY <1>4, <1>5, <1>6 DEF Current

\* A put is merged into the row: the task that waits for it has its copy.
LEMMA PutsCurrent ==
    ASSUME AllKept, Steady, Careful, NEW p \in puts, PutCheck(p) \/ PutMerge(p) \/ PutFails(p),
           Alone(p.req), Current(p.req)
    PROVE  Current(p.req)' /\ DoneOf(db[p.req].ops) \subseteq DoneOf(db'[p.req].ops)
<1> DEFINE r == p.req
<1>0. Copies /\ r \in Req /\ p \in Puts /\ (p.by = "task" => p.agent \in Agent)
  BY PutFields DEF AllKept, Kept
<1>1. ASSUME p.by = "task", p.agent \in Agent, task[p.agent][r].pc = "put"
      PROVE  StatusOf(task[p.agent][r].ops) = "Done" /\ p.ops = task[p.agent][r].ops
  BY <1>1 DEF Current, PutsUpToDate, Alone, Told
<1>2. CASE PutMerge(p)
  <2>1. Merge(p) /\ Answer(p, TRUE)
    BY <1>2 DEF PutMerge
  <2>2. puts' = puts \ {p} /\ UNCHANGED <<hand, cache>> /\ db'[r] = Merged(p) /\ p.stage = "merge"
    BY <1>0, <2>1, MergeSeen DEF Merge
  <2>3. db'[r].ops = p.ops
    BY <2>2 DEF Merged, Row
  <2>4. DoneOf(db[r].ops) \subseteq DoneOf(p.ops)
    BY <2>2 DEF Current, PutsUpToDate, UpToDate
  <2>5. \A q \in puts' : q.req # r
    BY <2>2 DEF Alone, Lonely
  <2>6. PutsUpToDate(r)'
    BY <2>5 DEF PutsUpToDate
  <2>7. HandsUpToDate(r)'
    <3>1. \A b \in Agent : hand[b].req # r
      BY <1>0 DEF Alone, Lonely, PutAlone, Works
    <3> QED BY <2>2, <3>1 DEF HandsUpToDate
  <2>8. TasksUpToDate(r)'
    <3>1. CASE TasksKept(r) /\ ~ (p.by = "task" /\ task[p.agent][r].pc = "put")
      <4>1. \A b \in Agent : task[b][r].pc = "none"
        BY <1>0, <3>1 DEF Alone, PutAlone, Works
      <4> QED BY <3>1, <4>1 DEF TasksUpToDate, TasksKept
    <3>2. ASSUME p.by = "task", p.agent \in Agent, task[p.agent][r].pc = "put",
                 NEW t, TaskMoves(p.agent, r, t), t.ops = task[p.agent][r].ops, t.pc = "finalize"
          PROVE  TasksUpToDate(r)'
      <4>1. t.ops = p.ops
        BY <1>1, <3>2
      <4>2. \A b \in Agent : b # p.agent => task[b][r].pc = "none"
        BY <1>0, <3>2 DEF Alone, PutAlone, Works
      <4> QED BY <2>3, <3>2, <4>1, <4>2 DEF TasksUpToDate, TaskMoves, UpToDate, Reported
    <3> QED BY <1>0, <2>1, <2>2, <3>1, <3>2, AnswerMoves
  <2> QED BY <2>3, <2>4, <2>6, <2>7, <2>8 DEF Current
<1>3. CASE PutCheck(p) /\ db[r].status = "Canceled"
  <2>1. puts' = puts \ {p} /\ UNCHANGED <<db, hand, cache>> /\ Answer(p, TRUE)
    BY <1>3 DEF PutCheck
  <2>2. CASE TasksKept(r)
    <3>1. PutsUpToDate(r)'
      BY <1>0, <2>1, <2>2, PutFields DEF Current, PutsUpToDate, UpToDate, TasksKept
    <3>2. HandsUpToDate(r)'
      BY <2>1 DEF Current, HandsUpToDate, UpToDate
    <3>3. TasksUpToDate(r)'
      BY <2>1, <2>2 DEF Current, TasksUpToDate, UpToDate, TasksKept, Reported
    <3> QED BY <2>1, <3>1, <3>2, <3>3 DEF Current
  <2>3. ASSUME p.by = "task", p.agent \in Agent, task[p.agent][r].pc = "put",
               NEW t, TaskMoves(p.agent, r, t), t.ops = task[p.agent][r].ops, t.pc = "finalize"
        PROVE  Current(r)' /\ DoneOf(db[r].ops) \subseteq DoneOf(db'[r].ops)
    <3>1. UpToDate(r, t.ops)
      BY <2>3 DEF Current, TasksUpToDate
    <3>2. Reported(t)
      BY <2>3 DEF Reported
    <3> QED BY <1>0, <2>1, <2>3, <3>1, <3>2, TaskCurrent
  <2> QED BY <1>0, <2>1, <2>2, <2>3, AnswerMoves
<1>4. CASE PutCheck(p) /\ db[r].status # "Canceled"
  <2>1. puts' = (puts \ {p}) \cup {Moved(p)} /\ UNCHANGED <<db, task, hand, cache>>
    BY <1>4 DEF PutCheck, Moved
  <2>2. Moved(p).by = p.by /\ Moved(p).agent = p.agent /\ Moved(p).req = r /\ Moved(p).ops = p.ops
    BY <1>0 DEF Moved, Puts
  <2>3. UpToDate(r, p.ops)
    BY <1>4 DEF Current, PutsUpToDate
  <2>4. PutsUpToDate(r)'
    BY <2>1, <2>2, <2>3 DEF Current, PutsUpToDate, UpToDate
  <2>5. HandsUpToDate(r)'
    BY <2>1 DEF Current, HandsUpToDate, UpToDate
  <2>6. TasksUpToDate(r)'
    BY <2>1 DEF Current, TasksUpToDate, UpToDate, Reported
  <2> QED BY <2>1, <2>4, <2>5, <2>6 DEF Current
<1> QED BY <1>2, <1>3, <1>4 DEF PutFails, Careful

NothingUndoneIn(r) == db'[r].status # "none" => DoneOf(db[r].ops) \subseteq DoneOf(db'[r].ops)

LEMMA OutsidersCurrent ==
    ASSUME AllKept, Steady, NEW r \in Req, Alone(r), Current(r),
           Submit(r) \/ FtsCheck(r) \/ FtsGet(r) \/ Cancel(r) \/ ResetFailed(r) \/ Age(r)
    PROVE  Current(r)' /\ NothingUndoneIn(r)
<1>0. Copies /\ Known(r)
  BY AtHand
<1>1. CASE Submit(r)
  <2>1. /\ UNCHANGED <<hand, task, puts>> /\ \A p \in puts : p.req # r
        /\ \A a \in Agent : hand[a].req # r /\ task[a][r].pc = "none"
        /\ ~ Exists(r)
    BY <1>0, <1>1 DEF Submit, agentvars, Known, Unknown
  <2>2. db[r] = NoRow
    BY <1>0, <2>1, RowFields
  <2>3. DoneOf(db[r].ops) = {}
    BY <2>2 DEF NoRow, NoCopy, DoneOf
  <2> QED BY <2>1, <2>3 DEF Current, PutsUpToDate, HandsUpToDate, TasksUpToDate, NothingUndoneIn
<1>2. CASE FtsCheck(r)
  <2>1. UNCHANGED <<db, hand, cache, task, puts>>
    BY <1>2 DEF FtsCheck, agentvars
  <2> QED BY <1>0, <2>1, RowCurrent DEF NothingUndoneIn
<1>3. CASE FtsGet(r)
  <2>1. fts[r] # 0 /\ UNCHANGED <<hand, cache, task>>
    BY <1>3 DEF FtsGet, agentvars
  <2>2. /\ Exists(r) /\ NextOp(db[r].ops) = fts[r] /\ \A p \in puts : p.req # r
        /\ \A a \in Agent : hand[a].req # r /\ task[a][r].pc = "none"
    BY <2>1 DEF Alone, FtsAlone, Works, Exists
  <2>3. db'[r] = Row("Assigned", db[r].ops)
    BY <1>0, <1>3, <2>2, FtsGetSeen
  <2>4. db'[r].ops = db[r].ops
    BY <2>3 DEF Row
  <2>5. PICK o \in Request : /\ UpToDate(r, o)
                             /\ puts' = puts \cup {Put("fts", NoAgent, r, o)}
    BY <1>0, <1>3, <2>2, FtsGetSeen DEF UpToDate
  <2> DEFINE q == Put("fts", NoAgent, r, o)
  <2>6. q.by = "fts" /\ q.ops = o
    BY DEF Put
  <2> HIDE DEF q
  <2>7. \A p \in puts' : p.req = r => p = q
    BY <2>2, <2>5 DEF q
  <2>8. PutsUpToDate(r)'
    BY <2>4, <2>5, <2>6, <2>7 DEF PutsUpToDate, UpToDate
  <2>9. HandsUpToDate(r)' /\ TasksUpToDate(r)'
    BY <2>1, <2>2 DEF HandsUpToDate, TasksUpToDate
  <2> QED BY <2>4, <2>8, <2>9 DEF Current, NothingUndoneIn
<1>4. CASE Cancel(r)
  <2>1. db'[r] = Row("Canceled", db[r].ops)
    BY <1>0, <1>4, CancelSeen
  <2>2. db'[r].status = "Canceled" /\ db'[r].ops = db[r].ops
    BY <2>1 DEF Row
  <2>3. UNCHANGED <<hand, cache, task, puts>>
    BY <1>4 DEF Cancel, agentvars
  <2> QED BY <1>0, <2>2, <2>3, RowCurrent DEF NothingUndoneIn
<1>5. CASE ResetFailed(r)
  <2>1. PICK o \in Request : /\ UpToDate(r, o)
                             /\ puts' = puts \cup {Put("user", NoAgent, r, o)}
    BY <1>0, <1>5, ResetFailedSeen DEF UpToDate
  <2> DEFINE q == Put("user", NoAgent, r, o)
  <2>2. q.by # "task" /\ q.ops = o
    BY DEF Put
  <2>3. UNCHANGED <<db, hand, cache, task>>
    BY <1>5 DEF ResetFailed, agentvars
  <2> HIDE DEF q
  <2>4. puts' = puts \cup {q}
    BY <2>1 DEF q
  <2> QED BY <2>1, <2>2, <2>3, <2>4, NewPutCurrent DEF NothingUndoneIn
<1>6. CASE Age(r)
  <2>1. db'[r].status = db[r].status /\ db'[r].ops = db[r].ops
    BY <1>0, <1>6, AgeSeen
  <2>2. UNCHANGED <<hand, cache, task, puts>>
    BY <1>6 DEF Age, agentvars
  <2> QED BY <1>0, <2>1, <2>2, RowCurrent DEF NothingUndoneIn
<1> QED BY <1>1, <1>2, <1>3, <1>4, <1>5, <1>6

LEMMA CleanCurrent ==
    ASSUME AllKept, Steady, CleanStep, NEW r \in Req, Current(r)
    PROVE  Current(r)' /\ NothingUndoneIn(r)
<1>0. Copies /\ Copies'
  BY AtHand, CopiesKept DEF Next
<1>1. ASSUME Untouched(r) PROVE Current(r)' /\ NothingUndoneIn(r)
  BY <1>0, <1>1, UntouchedCurrent DEF Untouched, RowKept, NothingUndoneIn
<1>2. ASSUME UNCHANGED <<db, hand, cache, task, puts>> PROVE Current(r)' /\ NothingUndoneIn(r)
  BY <1>0, <1>2, RowCurrent DEF NothingUndoneIn
<1>3. CASE StartCycle \/ ListFinal \/ EndCycle
  BY <1>2, <1>3 DEF StartCycle, ListFinal, EndCycle, agentvars
<1>4. ASSUME NEW s \in Req, Kick(s) PROVE Current(r)' /\ NothingUndoneIn(r)
  <2> SUFFICES ASSUME s = r PROVE Current(r)' /\ NothingUndoneIn(r)
    BY <1>0, <1>1, <1>4, KickSeen DEF Others
  <2> DEFINE q == Put("kick", NoAgent, r, db[r].ops)
  <2>1. UNCHANGED <<db, hand, cache, task>>
    BY <1>4 DEF Kick, agentvars
  <2>2. CASE UNCHANGED puts
    BY <1>2, <2>1, <2>2
  <2>3. CASE puts' = puts \cup {q}
    <3>1. q.by # "task" /\ UpToDate(r, q.ops)
      BY DEF Put, UpToDate
    <3> HIDE DEF q
    <3> QED BY <2>1, <2>3, <3>1, NewPutCurrent DEF NothingUndoneIn
  <2> QED BY <1>0, <1>4, <2>2, <2>3, KickSeen
<1>5. ASSUME NEW s \in Req, Delete(s) PROVE Current(r)' /\ NothingUndoneIn(r)
  <2> SUFFICES ASSUME s = r PROVE Current(r)' /\ NothingUndoneIn(r)
    BY <1>0, <1>1, <1>5, DeleteSeen DEF Others
  <2>1. db'[r] = NoRow /\ Listed(r) /\ UNCHANGED <<hand, cache, task, puts>>
    BY <1>0, <1>5, DeleteSeen DEF Delete, agentvars
  <2>2. db'[r].status = "none" /\ DoneOf(db'[r].ops) = {}
    BY <2>1 DEF NoRow, NoCopy, DoneOf
  <2>3. \A a \in Agent : hand[a].req # r /\ task[a][r].pc = "none"
    BY <2>1, AtHand DEF Works
  <2>4. PutsUpToDate(r)'
    BY <2>1, <2>2 DEF Current, PutsUpToDate, UpToDate
  <2>5. HandsUpToDate(r)' /\ TasksUpToDate(r)'
    BY <2>1, <2>3 DEF HandsUpToDate, TasksUpToDate
  <2> QED BY <2>2, <2>4, <2>5 DEF Current, NothingUndoneIn
<1> QED BY <1>3, <1>4, <1>5 DEF CleanStep

LEMMA CurrentStays ==
    ASSUME AllKept, Steady, Careful, AllAlone, AllCurrent, [Next]_vars, NEW r \in Req
    PROVE  Current(r)' /\ NothingUndoneIn(r)
<1> DEFINE Goal == Current(r)' /\ NothingUndoneIn(r)
<1>0. Copies /\ Copies' /\ Alone(r) /\ Current(r) /\ \A a \in Agent : hand[a].pc # "read"
  BY AtHand, CopiesKept DEF AllAlone, AllCurrent
<1>1. ASSUME Untouched(r) PROVE Goal
  BY <1>0, <1>1, UntouchedCurrent DEF Untouched, RowKept, NothingUndoneIn
<1>2. ASSUME NEW s \in Req, s # r, Others(s) PROVE Goal
  BY <1>1, <1>2 DEF Others
<1>3. UNCHANGED db => NothingUndoneIn(r)
  BY DEF NothingUndoneIn
<1>4. ASSUME NEW a \in Agent, NEW s \in Req, FetchStep(a, s) \/ TaskStep(a, s) \/ Callback(a, s)
      PROVE  Goal
  <2>1. Others(s)
    BY <1>0, <1>4, BulkFetchSeen, SelectRequestSeen, ExecuteSeen, NoProxySeen, RaiseSeen, LeaveSeen,
       FinalizeSeen, TimeoutSeen, CallbackSeen DEF FetchStep, TaskStep
  <2> SUFFICES ASSUME s = r PROVE Goal
    BY <1>2, <2>1
  <2>2. CASE BulkFetch(a, r)
    <3>1. db'[r] = Row("Assigned", db[r].ops)
      BY <1>0, <2>2, SetStatusSeen DEF BulkFetch, Exists, RowStatuses
    <3>2. db'[r].ops = db[r].ops
      BY <3>1 DEF Row
    <3> QED BY <1>0, <2>2, <3>2, FetchCurrent DEF NothingUndoneIn
  <2>3. CASE TaskStep(a, r)
    <3>1. UNCHANGED db
      BY <2>3 DEF TaskStep, Execute, NoProxy, Raise, Leave, Finalize, Timeout
    <3> QED BY <1>0, <1>3, <2>3, <3>1, TasksCurrent
  <2>4. CASE Callback(a, r)
    BY <1>0, <1>3, <2>4, CallbackCurrent DEF Callback
  <2> QED BY <1>4, <2>2, <2>3, <2>4 DEF FetchStep, SelectRequest, Steady
<1>5. ASSUME NEW a \in Agent, AgentStep(a) PROVE Goal
  <2>1. hand[a].req \in Req /\ Others(hand[a].req)
    BY <1>0, <1>5, AssignRequestSeen, LoseRequestSeen, StartTaskSeen DEF AgentStep
  <2>2. UNCHANGED db
    BY <1>0, <1>5 DEF AgentStep, AssignRequest, LoseRequest, StartTask
  <2> QED BY <1>0, <1>2, <1>3, <1>5, <2>1, <2>2, HandCurrent
<1>6. ASSUME NEW a \in Agent, Crash(a) \/ Stop(a) PROVE Goal
  BY <1>0, <1>3, <1>6, CrashCurrent DEF Crash, Stop, Steady
<1>7. CASE PutStep
  <2>1. PICK p \in puts : PutCheck(p) \/ PutMerge(p) \/ PutFails(p)
    BY <1>7 DEF PutStep
  <2>2. p.req \in Req /\ Others(p.req)
    BY <1>0, <2>1, PutFields, PutCheckSeen, PutMergeSeen, PutFailsSeen
  <2> QED BY <1>0, <1>2, <2>1, <2>2, PutsCurrent DEF NothingUndoneIn
<1>8. CASE CleanStep
  BY <1>0, <1>8, CleanCurrent
<1>9. ASSUME NEW s \in Req,
             Submit(s) \/ FtsCheck(s) \/ FtsGet(s) \/ Cancel(s) \/ ResetFailed(s) \/ Age(s)
      PROVE  Goal
  <2>1. Others(s)
    BY <1>0, <1>9, SubmitSeen, FtsCheckSeen, FtsGetSeen, CancelSeen, ResetFailedSeen, AgeSeen
  <2> QED BY <1>0, <1>2, <1>9, <2>1, OutsidersCurrent
<1>10. CASE UNCHANGED vars
  BY <1>0, <1>1, <1>10, StutterSeen
<1> QED BY <1>4, <1>5, <1>6, <1>7, <1>8, <1>9, <1>10 DEF Next

(***************************************************************************)
(* No put of an older copy undoes what the database has recorded as done,  *)
(* although tasks raise exceptions, agents crash and answers to fetches    *)
(* are lost.  The answers to puts must arrive: an agent that takes a put   *)
(* for failed puts the copy it had at the start.  And finalizeRequest must *)
(* not fail, nor a proxy be missing, when part of the request is done.     *)
(***************************************************************************)
THEOREM RequestNothingUndone == Steady /\ Careful => (Spec => NothingUndone)
<1> SUFFICES ASSUME Steady, Careful PROVE Spec => NothingUndone
  OBVIOUS
<1>1. Init => AllCurrent
  <2> SUFFICES ASSUME Init, NEW r \in Req PROVE Current(r)
    BY DEF AllCurrent
  <2>1. puts = {} /\ \A a \in Agent : hand[a].req # r /\ task[a][r].pc = "none"
    BY RequestAssumption DEF Init, EmptyHand, NoTask
  <2> QED BY <2>1 DEF Current, PutsUpToDate, HandsUpToDate, TasksUpToDate
<1>2. AllKept /\ AllAlone /\ AllCurrent /\ [Next]_vars => AllCurrent'
  BY CurrentStays DEF AllCurrent
<1>3. AllKept /\ AllAlone /\ AllCurrent /\ [Next]_vars =>
        [\A r \in Req : db'[r].status # "none" => DoneIn(db[r]) \subseteq DoneIn(db'[r])]_vars
  <2>1. \A row : DoneIn(row) = DoneOf(row.ops)
    BY DEF DoneIn, DoneOf
  <2> QED BY <2>1, CurrentStays DEF NothingUndoneIn
<1> QED BY <1>1, <1>2, <1>3, AloneAlways, PTL DEF Spec, NothingUndone

=============================================================================
