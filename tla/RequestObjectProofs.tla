------------------------ MODULE RequestObjectProofs -------------------------
(***************************************************************************)
(* Proofs about RequestObject, for any plans, operations inserted at any   *)
(* time and any number of files.                                           *)
(***************************************************************************)
EXTENDS RequestObject, RequestStatusProofs

-----------------------------------------------------------------------------
(***************************************************************************)
(* The inductive invariant.  InOrder and FilesAgree are about the request  *)
(* alone; the operation that a handler works on is the next one, or was    *)
(* when the handler took it: all before it are done, and none behind it is *)
(* scheduled, so that an operation may be inserted there.                  *)
(***************************************************************************)
Typed ==
    /\ ops \in Seq(Operation)
    /\ ops # <<>>
    /\ current \in 0 .. Len(ops)

IInv == Typed /\ InOrder(ops) /\ FilesAgree(ops) /\ Taken(ops, current)

-----------------------------------------------------------------------------
(***************************************************************************)
(* Lemmas about the calls on a request in order.                           *)
(***************************************************************************)
LEMMA DoneFinite ==
    ASSUME NEW o \in Seq(Operation)
    PROVE  IsFiniteSet(DoneOf(o)) /\ Cardinality(DoneOf(o)) \in Nat
<1>1. DoneOf(o) \in SUBSET (1 .. Len(o)) /\ 1 \in Int /\ Len(o) \in Int
  BY DEF DoneOf
<1>2. IsFiniteSet(DoneOf(o))
  BY <1>1, FS_Interval, FS_Subset
<1> QED BY <1>2, FS_CardinalityType

LEMMA DoneGrows ==
    ASSUME NEW o \in Seq(Operation), NEW n \in Seq(Operation), DoneOf(o) \subseteq DoneOf(n)
    PROVE  Cardinality(DoneOf(n)) >= Cardinality(DoneOf(o))
<1>1. DoneOf(o) \in SUBSET DoneOf(n)
  OBVIOUS
<1>2. Cardinality(DoneOf(o)) <= Cardinality(DoneOf(n))
  BY <1>1, DoneFinite, FS_Subset
<1> QED BY <1>2, DoneFinite

\* An operation is inserted before or after the one that is worked on.
LEMMA Inserted ==
    ASSUME NEW o \in Seq(Operation), Sound(o), NEW p \in 1 .. Len(o) + 1,
           \A j \in p .. Len(o) : o[j].status # "Scheduled",
           NEW q \in Operation, q.status = "Queued", Agrees(q)
    PROVE  LET n == Notify(InsertAt(o, p, q)) IN
           /\ Sound(n) /\ Len(n) = Len(o) + 1
           /\ \A k \in 0 .. p - 1 : DoneUpTo(o, k) => DoneUpTo(n, k)
           /\ NoneScheduledBehind(n, p - 1)
           /\ Cardinality(DoneOf(n)) >= Cardinality(DoneOf(o))
<1> DEFINE y == InsertAt(o, p, q)  n == Notify(y)  N == Len(o)
<1>1. N \in Nat /\ DOMAIN o = 1 .. N /\ p \in 1 .. N + 1
  OBVIOUS
<1>2. /\ y \in Seq(Operation) /\ Len(y) = N + 1 /\ DOMAIN y = 1 .. N + 1
      /\ \A j \in 1 .. p - 1 : y[j] = o[j]
      /\ y[p] = q
      /\ \A j \in p + 1 .. N + 1 : y[j] = o[j - 1]
  <2>1. /\ InsertAt(o, p, q) \in Seq(Operation)
        /\ Len(InsertAt(o, p, q)) = Len(o) + 1
        /\ \A j \in 1 .. p - 1 : InsertAt(o, p, q)[j] = o[j]
        /\ InsertAt(o, p, q)[p] = q
        /\ \A j \in p + 1 .. Len(o) + 1 : InsertAt(o, p, q)[j] = o[j - 1]
    BY InsertShape, Zenon
  <2>2. DOMAIN y = 1 .. Len(y)
    BY <2>1
  <2> HIDE DEF y
  <2> QED BY <1>1, <2>1, <2>2 DEF y
<1> HIDE DEF y
<1>3. /\ n \in Seq(Operation) /\ Len(n) = N + 1 /\ DOMAIN n = 1 .. N + 1
      /\ \A j \in 1 .. N + 1 : n[j].status = "Done" <=> y[j].status = "Done"
      /\ \A k \in 0 .. N + 1 : DoneUpTo(n, k) <=> DoneUpTo(y, k)
  BY <1>2, NotifyShape
<1>4. \A j \in 1 .. N + 1 : n[j].status = "Scheduled" <=> y[j].status = "Scheduled"
  BY <1>2, NotifyStatus
<1> HIDE DEF n
<1>5. \A j \in 1 .. N + 1 : \/ j \in 1 .. p - 1 /\ j \in 1 .. N
                            \/ j = p
                            \/ j \in p + 1 .. N + 1 /\ j - 1 \in p .. N /\ j - 1 \in 1 .. N
  BY <1>1
<1>6. \A j \in p .. N + 1 : y[j].status # "Scheduled"
  <2>1. \A j \in p .. N + 1 : j = p \/ (j \in p + 1 .. N + 1 /\ j - 1 \in p .. N)
    BY <1>1
  <2> QED BY <1>2, <2>1
<1>7. Ready(y)
  <2>1. ASSUME NEW j \in 1 .. N + 1, y[j].status = "Scheduled" PROVE DoneUpTo(y, j - 1)
    <3>1. j \in 1 .. p - 1 /\ j \in 1 .. N
      BY <1>1, <1>6, <2>1
    <3>2. DoneUpTo(o, j - 1)
      BY <1>1, <1>2, <2>1, <3>1 DEF Sound, InOrder, Unfinished
    <3>3. \A k \in 1 .. j - 1 : k \in 1 .. p - 1
      BY <1>1, <3>1
    <3> QED BY <1>2, <3>2, <3>3 DEF DoneUpTo
  <2>2. ASSUME NEW j \in 1 .. N + 1, y[j].status = "Waiting", NEW k \in 1 .. j - 1
        PROVE  y[k].status # "Failed"
    <3>1. CASE j \in 1 .. p - 1
      <4>1. DoneUpTo(o, j - 1) /\ k \in 1 .. p - 1
        BY <1>1, <1>2, <1>5, <2>2, <3>1 DEF Sound, InOrder, Unfinished
      <4> QED BY <1>2, <4>1 DEF DoneUpTo
    <3>2. CASE j \in p + 1 .. N + 1
      <4>1. j - 1 \in 1 .. N /\ o[j - 1].status = "Waiting"
        BY <1>1, <1>2, <2>2, <3>2
      <4>2. DoneUpTo(o, (j - 1) - 1)
        BY <1>1, <4>1 DEF Sound, InOrder, Unfinished
      <4>3. CASE k \in 1 .. p - 1
        <5>1. k \in 1 .. (j - 1) - 1
          BY <1>1, <3>2, <4>3
        <5> QED BY <1>2, <4>2, <4>3, <5>1 DEF DoneUpTo
      <4>4. CASE k = p
        BY <1>2, <4>4
      <4>5. CASE k \in p + 1 .. N + 1
        <5>1. k - 1 \in 1 .. (j - 1) - 1
          BY <1>1, <3>2, <4>5
        <5> QED BY <1>2, <4>2, <4>5, <5>1 DEF DoneUpTo
      <4> QED BY <1>1, <4>3, <4>4, <4>5
    <3> QED BY <1>2, <1>5, <2>2, <3>1, <3>2
  <2> QED BY <1>2, <2>1, <2>2 DEF Ready
<1>8. InOrder(n)
  BY <1>2, <1>7, NotifyOrders DEF n
<1>9. FilesAgree(n)
  <2>1. FilesAgree(y)
    BY <1>1, <1>2, <1>5 DEF FilesAgree, Sound
  <2> QED BY <1>2, <2>1, NotifyAgrees DEF n
<1>10. \A k \in 0 .. p - 1 : DoneUpTo(o, k) => DoneUpTo(n, k)
  <2>1. \A k \in 0 .. p - 1 : k \in 0 .. N + 1 /\ \A j \in 1 .. k : j \in 1 .. p - 1
    BY <1>1
  <2> QED BY <1>2, <1>3, <2>1 DEF DoneUpTo
<1>11. NoneScheduledBehind(n, p - 1)
  <2>1. \A j \in (p - 1) + 1 .. N + 1 : j \in p .. N + 1 /\ j \in 1 .. N + 1
    BY <1>1
  <2> QED BY <1>3, <1>4, <1>6, <2>1 DEF NoneScheduledBehind
<1>12. Cardinality(DoneOf(n)) >= Cardinality(DoneOf(o))
  <2> DEFINE f == [i \in DoneOf(o) |-> IF i < p THEN i ELSE i + 1]
  <2>1. \A i \in 1 .. N : /\ i < p => i \in 1 .. p - 1 /\ i \in 1 .. N + 1
                          /\ ~ (i < p) => i + 1 \in p + 1 .. N + 1 /\ i + 1 \in 1 .. N + 1
                                          /\ (i + 1) - 1 = i
    BY <1>1
  <2>2. ASSUME NEW i \in DoneOf(o) PROVE f[i] \in DoneOf(n)
    <3>1. i \in 1 .. N /\ o[i].status = "Done"
      BY <1>1 DEF DoneOf
    <3>2. CASE i < p
      BY <1>2, <1>3, <2>1, <3>1, <3>2 DEF DoneOf
    <3>3. CASE ~ (i < p)
      <4>1. y[i + 1] = o[(i + 1) - 1] /\ (i + 1) - 1 = i /\ i + 1 \in 1 .. N + 1
        BY <1>2, <2>1, <3>1, <3>3
      <4> QED BY <1>3, <3>1, <3>3, <4>1 DEF DoneOf
    <3> QED BY <3>2, <3>3
  <2>3. \A i, j \in DoneOf(o) : f[i] = f[j] => i = j
    <3>1. DoneOf(o) \subseteq Nat
      BY <1>1 DEF DoneOf
    <3> QED BY <1>1, <3>1
  <2>4. f \in Injection(DoneOf(o), DoneOf(n))
    <3>1. f \in [DoneOf(o) -> DoneOf(n)]
      BY <2>2
    <3> HIDE DEF f
    <3> QED BY <2>3, <3>1 DEF Injection, IsInjective
  <2>5. Cardinality(DoneOf(o)) <= Cardinality(DoneOf(n))
    BY <1>3, <2>4, DoneFinite, FS_Injection
  <2> QED BY <1>3, <2>5, DoneFinite
<1>13. n # <<>>
  BY <1>1, <1>3
<1> QED BY <1>3, <1>8, <1>9, <1>10, <1>11, <1>12, <1>13 DEF Sound, n, y

-----------------------------------------------------------------------------
(***************************************************************************)
(* IInv is inductive, and no step but NoProxy lowers the number of         *)
(* operations that are done.                                               *)
(***************************************************************************)
LEMMA InitIInv == Init => IInv
<1> SUFFICES ASSUME Init PROVE IInv
  OBVIOUS
<1>1. PICK plan \in Plans : ops = Reload([i \in DOMAIN plan |-> FreshOp(plan[i])])
  BY DEF Init
<1>2. plan \in Seq(Nat) /\ plan # <<>>
  BY PlansAssumption
<1>3. Sound(ops)
  <2>1. ops = Reload([i \in DOMAIN plan |-> New(plan[i])])
    BY <1>1 DEF FreshOp, New
  <2> QED BY <1>2, <2>1, SubmittedShape
<1>4. current = 0 /\ Len(ops) \in Nat
  BY <1>3 DEF Init, Sound
<1> QED BY <1>3, <1>4 DEF IInv, Typed, Sound, Taken

\* What a step has to establish.
Kept(n, c) ==
    /\ Sound(n)
    /\ c \in 0 .. Len(n)
    /\ Taken(n, c)

More(n) ==
    \/ Cardinality(DoneOf(n)) >= Cardinality(DoneOf(ops))
    \/ \A i \in DOMAIN n : n[i].status = "Failed"

LEMMA IInvSound ==
    ASSUME IInv
    PROVE  Kept(ops, current) /\ Sound(ops) /\ Len(ops) \in Nat
BY DEF IInv, Typed, Sound, Kept

LEMMA TakeStep ==
    ASSUME IInv, Take
    PROVE  Kept(ops', current') /\ More(ops')
<1> DEFINE i == NextOp(ops)
<1>1. Sound(ops) /\ ops \in Seq(Operation) /\ InOrder(ops) /\ ops # <<>>
  BY IInvSound DEF Sound
<1>2. ops' = ops /\ current' = i
  BY <1>1, OrderedScan DEF Take
<1>3. i \in 1 .. Len(ops) /\ IsFirst(ops, i)
  BY <1>1, NextIsFirst DEF Take
<1> HIDE DEF i
<1>4. ops[i].status # "Done" /\ DoneUpTo(ops, i - 1)
  BY <1>3 DEF IsFirst
<1>5. NoneScheduledBehind(ops, i)
  BY <1>1, <1>3, <1>4, Behind DEF NoneScheduledBehind, Unfinished
<1>6. Cardinality(DoneOf(ops)) >= Cardinality(DoneOf(ops))
  BY <1>1, DoneFinite
<1> QED BY <1>1, <1>2, <1>3, <1>4, <1>5, <1>6 DEF Kept, Taken, More

LEMMA SetFileStatusStep ==
    ASSUME IInv, NEW f \in DOMAIN ops[current].files, NEW v \in FileStatuses, SetFileStatus(f, v)
    PROVE  Kept(ops', current') /\ More(ops')
<1>1. /\ current # 0 /\ ops[current].files[f] \in Unfinished
      /\ ops' = SetFile(ops, current, f, v) /\ current' = current
  BY DEF SetFileStatus
<1>2. /\ Sound(ops) /\ ops \in Seq(Operation) /\ Len(ops) \in Nat
      /\ current \in DOMAIN ops /\ DoneUpTo(ops, current - 1)
  BY <1>1, IInvSound DEF Sound, IInv, Typed, Taken
<1>3. /\ Sound(ops') /\ Len(ops') = Len(ops)
      /\ Taken(ops', current)
      /\ DoneOf(ops) \subseteq DoneOf(ops')
  BY <1>1, <1>2, SetFileSound
<1>4. Cardinality(DoneOf(ops')) >= Cardinality(DoneOf(ops))
  BY <1>2, <1>3, DoneGrows DEF Sound
<1> QED BY <1>1, <1>2, <1>3, <1>4 DEF Kept, More

LEMMA SetOperationStatusStep ==
    ASSUME IInv, ops[current].files = <<>>, NEW v \in {"Done", "Failed"}, SetOperationStatus(v)
    PROVE  Kept(ops', current') /\ More(ops')
<1>1. /\ current # 0 /\ ops[current].status \in Unfinished
      /\ ops' = SetOp(ops, current, v) /\ current' = current
  BY DEF SetOperationStatus
<1>2. Sound(ops) /\ ops \in Seq(Operation) /\ Len(ops) \in Nat /\ current \in DOMAIN ops
  BY <1>1, IInvSound DEF Sound, IInv, Typed
<1>3. /\ Sound(ops') /\ Len(ops') = Len(ops)
      /\ Taken(ops', current)
      /\ DoneOf(ops) \subseteq DoneOf(ops')
  BY <1>1, <1>2, SetOpSound
<1>4. Cardinality(DoneOf(ops')) >= Cardinality(DoneOf(ops))
  BY <1>2, <1>3, DoneGrows DEF Sound
<1> QED BY <1>1, <1>2, <1>3, <1>4 DEF Kept, More

LEMMA RegisterBeforeStep ==
    ASSUME IInv, RegisterBefore(FreshOp(1))
    PROVE  Kept(ops', current') /\ More(ops')
<1> DEFINE q == NewOp(FreshOp(1))  n == Notify(InsertAt(ops, current, q))
<1>1. /\ current # 0 /\ ops[current].status # "Scheduled"
      /\ ops' = n /\ current' = 0
  BY DEF RegisterBefore, InsertBefore
<1>2. Sound(ops) /\ ops \in Seq(Operation) /\ Len(ops) \in Nat /\ current \in 1 .. Len(ops) + 1
  BY <1>1, IInvSound DEF Sound, IInv, Typed
<1>3. \A j \in current .. Len(ops) : ops[j].status # "Scheduled"
  <2>1. \A j \in current .. Len(ops) : j = current \/ j \in current + 1 .. Len(ops)
    BY <1>2
  <2> QED BY <1>1, <2>1 DEF IInv, Taken, NoneScheduledBehind
<1>4. q \in Operation /\ q.status = "Queued" /\ Agrees(q)
  BY FreshShape, NewOpType DEF Agrees, FreshOp, New
<1> HIDE DEF q
<1>5. Sound(n) /\ Len(n) = Len(ops) + 1 /\ Cardinality(DoneOf(n)) >= Cardinality(DoneOf(ops))
  BY <1>2, <1>3, <1>4, Inserted
<1> HIDE DEF n
<1> QED BY <1>1, <1>2, <1>5 DEF Kept, Taken, More

LEMMA RegisterAfterStep ==
    ASSUME IInv, RegisterAfter(FreshOp(1))
    PROVE  Kept(ops', current') /\ More(ops')
<1> DEFINE q == NewOp(FreshOp(1))  p == current + 1  n == Notify(InsertAt(ops, p, q))
<1>1. current # 0 /\ ops' = n /\ current' = current
  BY DEF RegisterAfter, InsertAfter
<1>2. /\ Sound(ops) /\ ops \in Seq(Operation) /\ Len(ops) \in Nat
      /\ current \in 1 .. Len(ops) /\ p \in 1 .. Len(ops) + 1 /\ p - 1 = current
      /\ current - 1 \in 0 .. p - 1 /\ DoneUpTo(ops, current - 1)
  BY <1>1, IInvSound DEF Sound, IInv, Typed, Taken
<1>3. \A j \in p .. Len(ops) : ops[j].status # "Scheduled"
  BY <1>1 DEF IInv, Taken, NoneScheduledBehind
<1>4. q \in Operation /\ q.status = "Queued" /\ Agrees(q)
  BY FreshShape, NewOpType DEF Agrees, FreshOp, New
<1> HIDE DEF p, q
<1>5. /\ Sound(n) /\ Len(n) = Len(ops) + 1
      /\ \A k \in 0 .. p - 1 : DoneUpTo(ops, k) => DoneUpTo(n, k)
      /\ NoneScheduledBehind(n, p - 1)
      /\ Cardinality(DoneOf(n)) >= Cardinality(DoneOf(ops))
  BY <1>2, <1>3, <1>4, Inserted
<1> HIDE DEF n
<1>6. Taken(n, current)
  BY <1>2, <1>5 DEF Taken
<1>7. current' \in 0 .. Len(n)
  BY <1>1, <1>2, <1>5
<1> QED BY <1>1, <1>5, <1>6, <1>7 DEF Kept, More

LEMMA NoProxyStep ==
    ASSUME IInv, NoProxy
    PROVE  Kept(ops', current') /\ More(ops')
<1>1. ops' = FailAll(ops) /\ current' = 0
  BY DEF NoProxy
<1>2. Sound(ops) /\ ops \in Seq(Operation)
  BY IInvSound DEF Sound
<1>3. Sound(ops') /\ \A i \in DOMAIN ops' : ops'[i].status = "Failed"
  BY <1>1, <1>2, FailAllSound
<1>4. Len(ops') \in Nat
  BY <1>3 DEF Sound
<1> QED BY <1>1, <1>3, <1>4 DEF Kept, Taken, More

LEMMA IInvStep ==
    ASSUME IInv, [Next]_vars
    PROVE  Kept(ops', current') /\ (More(ops') \/ UNCHANGED ops)
<1>1. CASE Take
  BY <1>1, TakeStep
<1>2. CASE Release
  BY <1>2, IInvSound DEF Release, Kept, Taken
<1>3. CASE NoProxy
  BY <1>3, NoProxyStep
<1>4. CASE ResetFailed
  <2>1. Sound(Reset(ops)) /\ DoneOf(ops) \subseteq DoneOf(Reset(ops))
    BY <1>4, IInvSound, ResetSound DEF ResetFailed, Sound
  <2>2. ops' = Reset(ops) /\ current' = 0 /\ Len(ops') \in Nat
    BY <1>4, <2>1 DEF ResetFailed, Sound
  <2>3. Cardinality(DoneOf(ops')) >= Cardinality(DoneOf(ops))
    BY <2>1, <2>2, IInvSound, DoneGrows DEF Sound
  <2> QED BY <2>1, <2>2, <2>3 DEF Kept, Taken, More
<1>5. CASE Transport
  <2>1. ops' = ops /\ current' = current
    BY <1>5, ReloadSame DEF Transport, IInv, Typed
  <2> QED BY <2>1, IInvSound
<1>6. CASE /\ current # 0
           /\ \E f \in DOMAIN ops[current].files, v \in FileStatuses : SetFileStatus(f, v)
  BY <1>6, SetFileStatusStep
<1>7. CASE /\ current # 0 /\ ops[current].files = <<>>
           /\ \E v \in {"Done", "Failed"} : SetOperationStatus(v)
  BY <1>7, SetOperationStatusStep
<1>8. CASE RegisterBefore(FreshOp(1))
  BY <1>8, RegisterBeforeStep
<1>9. CASE RegisterAfter(FreshOp(1))
  BY <1>9, RegisterAfterStep
<1>10. CASE UNCHANGED vars
  BY <1>10, IInvSound DEF vars
<1> QED
  BY <1>1, <1>2, <1>3, <1>4, <1>5, <1>6, <1>7, <1>8, <1>9, <1>10 DEF Next

(***************************************************************************)
(* The inductive invariant holds: the operations of a request are in order *)
(* and their statuses agree with those of their files.                     *)
(***************************************************************************)
THEOREM RequestInductive == Spec => []IInv
<1>1. IInv /\ [Next]_vars => IInv'
  <2> SUFFICES ASSUME IInv, [Next]_vars PROVE IInv'
    OBVIOUS
  <2>1. Kept(ops', current')
    BY IInvStep
  <2> QED BY <2>1 DEF Kept, IInv, Typed, Sound
<1> QED BY <1>1, InitIInv, PTL DEF Spec

(***************************************************************************)
(* Operations are executed in turns, whatever handlers and the callback    *)
(* set or insert: only the first that is not done waits or is scheduled,   *)
(* and it is the one that getWaiting hands out.                            *)
(***************************************************************************)
THEOREM RequestInTurns == Spec => []InTurns
<1>1. IInv => InTurns
  <2> SUFFICES ASSUME IInv, NEW i \in DOMAIN ops, ops[i].status \in Unfinished
               PROVE  DoneBefore(i) /\ NextOp(ops) = i
    BY DEF InTurns
  <2>1. ops \in Seq(Operation) /\ InOrder(ops) /\ i \in 1 .. Len(ops)
    BY DEF IInv, Typed
  <2>2. IsFirst(ops, i) /\ ops[i].status # "Failed"
    BY DEF IInv, InOrder, IsFirst, Unfinished
  <2> QED BY <2>1, <2>2, OrderedScan DEF DoneBefore, IsFirst, DoneUpTo
<1> QED BY <1>1, RequestInductive, PTL

(***************************************************************************)
(* The status that the getter of Request returns is the one that the first *)
(* operation that is not done gives it.                                    *)
(***************************************************************************)
THEOREM RequestStatusAgrees == Spec => []StatusAgrees
<1>1. IInv => StatusAgrees
  <2> SUFFICES ASSUME IInv PROVE StatusAgrees
    OBVIOUS
  <2>1. ops \in Seq(Operation) /\ InOrder(ops) /\ ops # <<>> /\ Len(ops) \in Nat
    BY DEF IInv, Typed
  <2>2. CASE DoneUpTo(ops, Len(ops))
    <3>1. Pending = {}
      BY <2>1, <2>2 DEF Pending, DoneUpTo
    <3> QED BY <2>1, <2>2, <3>1, OrderedScan DEF StatusAgrees
  <2>3. CASE \E i \in 1 .. Len(ops) : IsFirst(ops, i)
    <3>1. PICK i \in 1 .. Len(ops) : IsFirst(ops, i)
      BY <2>3
    <3>2. i \in Pending /\ \A j \in Pending : i <= j
      <4>1. ASSUME NEW j \in Pending, ~ (i <= j) PROVE FALSE
        <5>1. j \in 1 .. i - 1 /\ ops[j].status # "Done"
          BY <2>1, <4>1 DEF Pending
        <5> QED BY <3>1, <5>1 DEF IsFirst, DoneUpTo
      <4> QED BY <2>1, <3>1, <4>1 DEF Pending, IsFirst
    <3>3. Pending \subseteq Nat
      BY <2>1 DEF Pending
    <3>4. FirstPending = i
      <4>1. \A k \in Pending : (\A j \in Pending : k <= j) => k = i
        BY <3>2, <3>3
      <4> QED BY <3>2, <4>1 DEF FirstPending
    <3> QED BY <2>1, <3>1, <3>2, <3>4, OrderedScan DEF StatusAgrees
  <2> QED BY <2>1, <2>2, <2>3, FirstExists
<1> QED BY <1>1, RequestInductive, PTL

(***************************************************************************)
(* Reading a request back from its JSON form, operation by operation,      *)
(* gives the same request.                                                 *)
(***************************************************************************)
THEOREM RequestReloadFaithful == Spec => []ReloadFaithful
<1>1. IInv => ReloadFaithful
  BY ReloadSame DEF IInv, Typed, ReloadFaithful
<1> QED BY <1>1, RequestInductive, PTL

(***************************************************************************)
(* No call undoes what is done, except that RequestTask without a proxy    *)
(* fails everything.                                                       *)
(***************************************************************************)
THEOREM RequestDoneStaysDone == Spec => DoneStaysDone
<1>1. IInv /\ [Next]_vars => [DoneCount' >= DoneCount \/ AllFailed']_vars
  <2> SUFFICES ASSUME IInv, [Next]_vars PROVE DoneCount' >= DoneCount \/ AllFailed' \/ UNCHANGED vars
    OBVIOUS
  <2>1. DoneCount = Cardinality(DoneOf(ops)) /\ DoneCount' = Cardinality(DoneOf(ops'))
    BY DEF DoneCount, DoneOf
  <2>2. ops \in Seq(Operation)
    BY DEF IInv, Typed
  <2>3. ops' = ops => DoneCount' >= DoneCount
    BY <2>1, <2>2, DoneFinite
  <2> QED BY <2>1, <2>3, IInvStep DEF More, AllFailed
<1> QED BY <1>1, RequestInductive, PTL DEF DoneStaysDone, Spec

=============================================================================
