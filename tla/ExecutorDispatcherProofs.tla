---------------------- MODULE ExecutorDispatcherProofs ----------------------
(***************************************************************************)
(* Theorems about the waiting queues and the executor mind, for any tasks, *)
(* types, executors, threads, chains and faults: the queues, the types,    *)
(* the place of a task, and the two maps that say which executor holds it. *)
(***************************************************************************)
EXTENDS ExecutorDispatcher, SequenceTheorems, FiniteSetTheorems, WellFoundedInduction, TLAPS

-----------------------------------------------------------------------------
(***************************************************************************)
(* The waiting queues.                                                     *)
(***************************************************************************)

(***************************************************************************)
(* Removing a position of a sequence.                                      *)
(***************************************************************************)
LEMMA RemoveAtFacts ==
  ASSUME NEW S, NEW s \in Seq(S), NEW i \in 1 .. Len(s)
  PROVE  /\ RemoveAt(s, i) \in Seq(S)
         /\ Len(RemoveAt(s, i)) = Len(s) - 1
         /\ \A j \in 1 .. Len(s) - 1 :
              RemoveAt(s, i)[j] = IF j < i THEN s[j] ELSE s[j + 1]
<1> DEFINE a == SubSeq(s, 1, i - 1)
           b == SubSeq(s, i + 1, Len(s))
<1>0. Len(s) \in Nat /\ \A k \in 1 .. Len(s) : s[k] \in S
  BY LenProperties, ElementOfSeq
<1>1. /\ a \in Seq(S)
      /\ Len(a) = i - 1
      /\ \A k \in 1 .. i - 1 : a[k] = s[k]
  <2>1. \A k \in 1 .. i - 1 : s[k] \in S
    BY <1>0
  <2>2. /\ a \in Seq(S)
        /\ Len(a) = IF 1 <= i - 1 THEN i - 1 - 1 + 1 ELSE 0
        /\ \A k \in 1 .. i - 1 - 1 + 1 : a[k] = s[1 + k - 1]
    BY <2>1, SubSeqProperties DEF a
  <2>3. QED
    BY <2>2, <1>0
<1>2. /\ b \in Seq(S)
      /\ Len(b) = Len(s) - i
      /\ \A k \in 1 .. Len(s) - i : b[k] = s[k + i]
  <2>1. \A k \in i + 1 .. Len(s) : s[k] \in S
    BY <1>0
  <2>3. QED
    BY <2>1, <1>0, SubSeqProperties DEF b
<1>3. /\ a \o b \in Seq(S)
      /\ Len(a \o b) = Len(a) + Len(b)
      /\ \A k \in 1 .. Len(a) + Len(b) :
           (a \o b)[k] = IF k <= Len(a) THEN a[k] ELSE b[k - Len(a)]
  BY <1>1, <1>2, ConcatProperties
<1>4. RemoveAt(s, i) = a \o b
  BY DEF RemoveAt
<1>5. QED
  <2> HIDE DEF a, b
  <2>1. Len(a \o b) = Len(s) - 1
    BY <1>0, <1>1, <1>2, <1>3
  <2>2. ASSUME NEW j \in 1 .. Len(s) - 1
        PROVE  (a \o b)[j] = IF j < i THEN s[j] ELSE s[j + 1]
    <3>1. (a \o b)[j] = IF j <= i - 1 THEN a[j] ELSE b[j - (i - 1)]
      BY <1>0, <1>1, <1>2, <1>3
    <3>2. CASE j < i
      BY <3>1, <3>2, <1>0, <1>1
    <3>3. CASE ~(j < i)
      <4>1. j - (i - 1) \in 1 .. Len(s) - i /\ (j - (i - 1)) + i = j + 1
        BY <3>3, <1>0
      <4>2. QED
        BY <3>1, <3>3, <4>1, <1>0, <1>2
    <3>4. QED
      BY <3>2, <3>3
  <2>3. QED
    BY <2>1, <2>2, <1>3, <1>4

(***************************************************************************)
(* Removing an element that occurs once is removing its position.          *)
(***************************************************************************)
LEMMA RemoveFirstUnique ==
  ASSUME NEW S, NEW s \in Seq(S), NEW i \in 1 .. Len(s),
         \A j \in 1 .. Len(s) : s[j] = s[i] => j = i
  PROVE  RemoveFirst(s, s[i]) = RemoveAt(s, i)
<1> DEFINE I == {j \in 1 .. Len(s) : s[j] = s[i]}
<1>1. I = {i}
  OBVIOUS
<1>2. (CHOOSE x \in I : \A y \in I : x =< y) = i
  <2>1. i \in Int
    BY LenProperties
  <2>2. \A x : (x \in I /\ \A y \in I : x =< y) <=> x = i
    BY <1>1, <2>1
  <2>3. QED
    BY <1>1, <2>2
<1>3. SelectInSeq(s, LAMBDA v : v = s[i]) = i
  BY <1>1, <1>2 DEF SelectInSeq, Min
<1>4. QED
  BY <1>3 DEF RemoveFirst

(***************************************************************************)
(* An element that does not occur is not removed.                          *)
(***************************************************************************)
LEMMA RemoveFirstAbsent ==
  ASSUME NEW s, NEW e, \A j \in 1 .. Len(s) : s[j] # e
  PROVE  RemoveFirst(s, e) = s
BY DEF RemoveFirst

-----------------------------------------------------------------------------
QInv == QTypeOK /\ QueueIndexConsistent

(***************************************************************************)
(* pushTask keeps the index and the queues in step.                        *)
(***************************************************************************)
LEMMA PushKeepsQInv ==
  ASSUME QInv, NEW t \in Task, NEW y \in Type, NEW ahead \in BOOLEAN,
         PushTask(t, y, ahead)
  PROVE  QInv'
<1> USE DEF QInv, QTypeOK, QueueIndexConsistent, IndexSound, IndexComplete, WaitsOnce
<1>1. CASE taskInQueue[t] # NoType
  BY <1>1 DEF PushTask, qvars
<1>2. CASE taskInQueue[t] = NoType
  <2> DEFINE q == queues[y]
             r == IF ahead THEN <<t>> \o q ELSE Append(q, t)
             at == IF ahead THEN 1 ELSE Len(q) + 1
             old(i) == IF ahead THEN i - 1 ELSE i
             new(i) == IF ahead THEN i + 1 ELSE i
  <2>0. /\ q \in Seq(Task)
        /\ Len(q) \in Nat
        /\ DOMAIN q = 1 .. Len(q)
    BY LenProperties
  <2>1. /\ r \in Seq(Task)
        /\ Len(r) = Len(q) + 1
        /\ DOMAIN r = 1 .. Len(q) + 1
        /\ r[at] = t
        /\ \A i \in 1 .. Len(q) + 1 : i # at => old(i) \in 1 .. Len(q) /\ r[i] = q[old(i)]
        /\ \A i \in 1 .. Len(q) : new(i) \in 1 .. Len(q) + 1 /\ new(i) # at /\ r[new(i)] = q[i]
        /\ \A i, j \in 1 .. Len(q) + 1 : i # at /\ j # at /\ old(i) = old(j) => i = j
    <3>1. CASE ahead
      <4>1. <<t>> \in Seq(Task) /\ Len(<<t>>) = 1 /\ <<t>>[1] = t
        OBVIOUS
      <4>2. /\ <<t>> \o q \in Seq(Task)
            /\ Len(<<t>> \o q) = 1 + Len(q)
            /\ \A i \in 1 .. 1 + Len(q) :
                 (<<t>> \o q)[i] = IF i <= 1 THEN <<t>>[i] ELSE q[i - 1]
        BY <2>0, <4>1, ConcatProperties
      <4>3. DOMAIN (<<t>> \o q) = 1 .. Len(q) + 1
        BY <4>2, LenProperties, <2>0
      <4>4. QED
        BY <3>1, <4>1, <4>2, <4>3, <2>0
    <3>2. CASE ~ahead
      <4>2. /\ Append(q, t) \in Seq(Task)
            /\ Len(Append(q, t)) = Len(q) + 1
            /\ \A i \in 1 .. Len(q) : Append(q, t)[i] = q[i]
            /\ Append(q, t)[Len(q) + 1] = t
        BY <2>0, AppendProperties
      <4>3. DOMAIN Append(q, t) = 1 .. Len(q) + 1
        BY <4>2, LenProperties
      <4>4. QED
        BY <3>2, <4>2, <4>3, <2>0
    <3>3. QED
      BY <3>1, <3>2
  <2>2. /\ queues' = [queues EXCEPT ![y] = r]
        /\ taskInQueue' = [taskInQueue EXCEPT ![t] = y]
    BY <1>2 DEF PushTask
  <2>3. /\ queues'[y] = r
        /\ \A z \in Type : z # y => queues'[z] = queues[z]
        /\ taskInQueue'[t] = y
        /\ \A u \in Task : u # t => taskInQueue'[u] = taskInQueue[u]
    BY <2>2
  <2>4. \A z \in Type : \A i \in DOMAIN queues[z] : queues[z][i] \in Task /\ queues[z][i] # t
    <3> TAKE z \in Type
    <3> TAKE i \in DOMAIN queues[z]
    <3>1. queues[z][i] \in Task
      BY ElementOfSeq, LenProperties
    <3>2. taskInQueue[queues[z][i]] = z
      OBVIOUS
    <3>3. z # NoType
      BY IdAssumption
    <3>4. QED
      BY <3>1, <3>2, <3>3, <1>2
  <2> HIDE DEF q, r, at, old, new
  <2>5. QTypeOK'
    BY <2>1, <2>2
  <2>6. IndexSound'
    <3> SUFFICES ASSUME NEW z \in Type, NEW i \in DOMAIN queues'[z]
                 PROVE  taskInQueue'[queues'[z][i]] = z
      OBVIOUS
    <3>1. CASE z # y
      BY <3>1, <2>3, <2>4
    <3>2. CASE z = y /\ i = at
      BY <3>2, <2>1, <2>3
    <3>3. CASE z = y /\ i # at
      <4>1. old(i) \in DOMAIN queues[y] /\ queues'[y][i] = queues[y][old(i)]
        BY <3>3, <2>0, <2>1, <2>3 DEF q
      <4>2. QED
        BY <4>1, <3>3, <2>3, <2>4
    <3>4. QED
      BY <3>1, <3>2, <3>3
  <2>7. IndexComplete'
    <3> SUFFICES ASSUME NEW u \in Task, taskInQueue'[u] # NoType
                 PROVE  \E i \in DOMAIN queues'[taskInQueue'[u]] :
                           queues'[taskInQueue'[u]][i] = u
      OBVIOUS
    <3>1. CASE u = t
      <4>1. at \in DOMAIN r
        BY <2>0, <2>1 DEF at
      <4>2. QED
        BY <3>1, <4>1, <2>1, <2>3
    <3>2. CASE u # t
      <4> DEFINE z == taskInQueue[u]
      <4>1. z \in Type /\ taskInQueue'[u] = z
        BY <3>2, <2>3
      <4>2. PICK i \in DOMAIN queues[z] : queues[z][i] = u
        BY <4>1
      <4>3. CASE z = y
        <5>1. i \in 1 .. Len(q)
          BY <4>2, <4>3, <2>0 DEF q
        <5>2. new(i) \in DOMAIN r /\ r[new(i)] = u
          BY <5>1, <4>2, <4>3, <2>1 DEF q
        <5>3. QED
          BY <5>2, <4>1, <4>3, <2>3
      <4>4. CASE z # y
        <5>1. queues'[z] = queues[z]
          BY <4>1, <4>4, <2>3
        <5> HIDE DEF z
        <5>2. QED
          BY <4>1, <4>2, <5>1
      <4>5. QED
        BY <4>3, <4>4
    <3>3. QED
      BY <3>1, <3>2
  <2>8. WaitsOnce'
    <3> SUFFICES ASSUME NEW z \in Type, NEW i \in DOMAIN queues'[z], NEW j \in DOMAIN queues'[z],
                        queues'[z][i] = queues'[z][j]
                 PROVE  i = j
      OBVIOUS
    <3>1. CASE z # y
      BY <3>1, <2>3
    <3>2. CASE z = y
      <4>1. i \in 1 .. Len(q) + 1 /\ j \in 1 .. Len(q) + 1 /\ r[i] = r[j]
        BY <3>2, <2>1, <2>3
      <4>2. \A k \in 1 .. Len(q) : q[k] # t
        BY <2>0, <2>4 DEF q
      <4>3. \A k \in 1 .. Len(q) + 1 : k # at => r[k] # t
        BY <4>2, <2>1
      <4>4. (i = at) <=> (j = at)
        BY <4>1, <4>3, <2>1
      <4>5. CASE i # at /\ j # at
        <5>1. old(i) \in 1 .. Len(q) /\ old(j) \in 1 .. Len(q) /\ q[old(i)] = q[old(j)]
          BY <4>1, <4>5, <2>1
        <5>2. old(i) = old(j)
          BY <5>1, <2>0 DEF q
        <5>3. QED
          BY <5>2, <4>1, <4>5, <2>1
      <4>6. QED
        BY <4>4, <4>5
    <3>3. QED
      BY <3>1, <3>2
  <2>9. QED
    BY <2>5, <2>6, <2>7, <2>8
<1>3. QED
  BY <1>1, <1>2
-----------------------------------------------------------------------------
(***************************************************************************)
(* Taking out the one occurrence of a task keeps the index and the queues  *)
(* in step: what popTask and deleteTask have in common.                    *)
(***************************************************************************)
LEMMA TakeOutKeepsQInv ==
  ASSUME QInv, NEW y \in Type, NEW p \in 1 .. Len(queues[y]), NEW t \in Task,
         queues[y][p] = t,
         queues' = [queues EXCEPT ![y] = RemoveAt(@, p)],
         taskInQueue' = [taskInQueue EXCEPT ![t] = NoType]
  PROVE  QInv'
<1> USE DEF QInv, QTypeOK, QueueIndexConsistent, IndexSound, IndexComplete, WaitsOnce
<1> DEFINE q == queues[y]
           r == RemoveAt(q, p)
           old(i) == IF i < p THEN i ELSE i + 1
           new(i) == IF i < p THEN i ELSE i - 1
<1>0. /\ q \in Seq(Task)
      /\ Len(q) \in Nat
      /\ DOMAIN q = 1 .. Len(q)
      /\ p \in 1 .. Len(q)
  BY LenProperties
<1>1. /\ r \in Seq(Task)
      /\ DOMAIN r = 1 .. Len(q) - 1
      /\ \A i \in 1 .. Len(q) - 1 : r[i] = q[old(i)]
  <2>1. /\ r \in Seq(Task)
        /\ Len(r) = Len(q) - 1
        /\ \A i \in 1 .. Len(q) - 1 : r[i] = IF i < p THEN q[i] ELSE q[i + 1]
    <3> HIDE DEF q, QTypeOK, IndexSound, IndexComplete, WaitsOnce
    <3>1. /\ RemoveAt(q, p) \in Seq(Task)
          /\ Len(RemoveAt(q, p)) = Len(q) - 1
          /\ \A i \in 1 .. Len(q) - 1 : RemoveAt(q, p)[i] = IF i < p THEN q[i] ELSE q[i + 1]
      BY <1>0, RemoveAtFacts
    <3>2. QED
      BY <3>1
  <2>2. DOMAIN r = 1 .. Len(r)
    BY <2>1, LenProperties
  <2>3. QED
    BY <2>1, <2>2
<1>2. /\ \A i \in 1 .. Len(q) - 1 : old(i) \in 1 .. Len(q) /\ old(i) # p
      /\ \A i \in 1 .. Len(q) : i # p => new(i) \in 1 .. Len(q) - 1 /\ old(new(i)) = i
      /\ \A i, j \in 1 .. Len(q) - 1 : old(i) = old(j) => i = j
  BY <1>0
<1>3. /\ queues'[y] = r
      /\ \A z \in Type : z # y => queues'[z] = queues[z]
      /\ taskInQueue'[t] = NoType
      /\ \A u \in Task : u # t => taskInQueue'[u] = taskInQueue[u]
  OBVIOUS
<1>4. taskInQueue[t] = y /\ y # NoType
  <2>1. p \in DOMAIN queues[y]
    BY <1>0
  <2>2. QED
    BY <2>1, IdAssumption
<1>5. \A z \in Type : \A i \in DOMAIN queues[z] : queues[z][i] \in Task
  BY ElementOfSeq, LenProperties
<1>6. \A z \in Type : \A i \in DOMAIN queues[z] : queues[z][i] = t => z = y /\ i = p
  BY <1>0, <1>4
<1>7. QTypeOK'
  <2> HIDE DEF r
  <2>1. QED
    BY <1>1, <1>3 DEF r
<1> HIDE DEF q, r, old, new
<1>8. IndexSound'
  <2> SUFFICES ASSUME NEW z \in Type, NEW i \in DOMAIN queues'[z]
               PROVE  taskInQueue'[queues'[z][i]] = z
    OBVIOUS
  <2>1. CASE z # y
    <3>1. queues'[z] = queues[z]
      BY <2>1, <1>3
    <3>2. QED
      BY <2>1, <3>1, <1>3, <1>5, <1>6
  <2>2. CASE z = y
    <3>1. /\ queues'[z][i] = queues[y][old(i)]
          /\ old(i) \in DOMAIN queues[y]
          /\ old(i) # p
      BY <2>2, <1>0, <1>1, <1>2, <1>3 DEF q
    <3>2. QED
      BY <2>2, <3>1, <1>3, <1>5, <1>6
  <2>3. QED
    BY <2>1, <2>2
<1>9. IndexComplete'
  <2> SUFFICES ASSUME NEW u \in Task, taskInQueue'[u] # NoType
               PROVE  \E i \in DOMAIN queues'[taskInQueue'[u]] :
                         queues'[taskInQueue'[u]][i] = u
    OBVIOUS
  <2> DEFINE z == taskInQueue[u]
  <2>1. u # t /\ z \in Type /\ taskInQueue'[u] = z
    BY <1>3
  <2>2. PICK i \in DOMAIN queues[z] : queues[z][i] = u
    BY <2>1
  <2> HIDE DEF z
  <2>3. CASE z # y
    <3>1. queues'[z] = queues[z]
      BY <2>1, <2>3, <1>3
    <3>2. QED
      BY <2>1, <2>2, <3>1
  <2>4. CASE z = y
    <3>1. i \in 1 .. Len(q) /\ i # p
      BY <2>1, <2>2, <2>4, <1>0 DEF q
    <3>2. new(i) \in DOMAIN r /\ r[new(i)] = q[i]
      BY <3>1, <1>1, <1>2
    <3>3. QED
      BY <3>2, <2>1, <2>2, <2>4, <1>3 DEF q
  <2>5. QED
    BY <2>3, <2>4
<1>10. WaitsOnce'
  <2> SUFFICES ASSUME NEW z \in Type, NEW i \in DOMAIN queues'[z], NEW j \in DOMAIN queues'[z],
                      queues'[z][i] = queues'[z][j]
               PROVE  i = j
    OBVIOUS
  <2>1. CASE z # y
    BY <2>1, <1>3
  <2>2. CASE z = y
    <3>1. /\ i \in 1 .. Len(q) - 1 /\ j \in 1 .. Len(q) - 1
          /\ old(i) \in 1 .. Len(q) /\ old(j) \in 1 .. Len(q)
          /\ q[old(i)] = q[old(j)]
      BY <2>2, <1>1, <1>2, <1>3
    <3>2. old(i) = old(j)
      BY <3>1, <1>0 DEF q
    <3>3. QED
      BY <3>1, <3>2, <1>2
  <2>3. QED
    BY <2>1, <2>2
<1>11. QED
  BY <1>7, <1>8, <1>9, <1>10

(***************************************************************************)
(* popTask takes the first position.                                       *)
(***************************************************************************)
TakesOut(y, p) ==
    /\ p \in 1 .. Len(queues[y])
    /\ queues' = [queues EXCEPT ![y] = RemoveAt(@, p)]
    /\ taskInQueue' = [taskInQueue EXCEPT ![queues[y][p]] = NoType]

LEMMA PopTakesOut ==
  ASSUME QInv, NEW y \in Type, PopTask(y)
  PROVE  TakesOut(y, 1)
<1>1. /\ queues[y] \in Seq(Task)
      /\ queues[y] # <<>>
      /\ queues \in [Type -> Seq(Task)]
  BY DEF QInv, QTypeOK, PopTask
<1>2. /\ 1 \in 1 .. Len(queues[y])
      /\ Head(queues[y]) = queues[y][1]
      /\ queues[y][1] \in Task
  BY <1>1, EmptySeq, LenProperties, ElementOfSeq
<1>3. RemoveAt(queues[y], 1) = Tail(queues[y])
  <2>1. /\ RemoveAt(queues[y], 1) \in Seq(Task)
        /\ Len(RemoveAt(queues[y], 1)) = Len(queues[y]) - 1
        /\ \A j \in 1 .. Len(queues[y]) - 1 : RemoveAt(queues[y], 1)[j] = queues[y][j + 1]
    BY <1>1, <1>2, RemoveAtFacts, LenProperties
  <2>2. /\ Tail(queues[y]) \in Seq(Task)
        /\ Len(Tail(queues[y])) = Len(queues[y]) - 1
        /\ \A j \in 1 .. Len(queues[y]) - 1 : Tail(queues[y])[j] = queues[y][j + 1]
    BY <1>1, HeadTailProperties
  <2> DEFINE a == RemoveAt(queues[y], 1)
             b == Tail(queues[y])
             n == Len(queues[y])
  <2>3. a \in Seq(Task) /\ b \in Seq(Task) /\ Len(a) = Len(b) /\ Len(a) = n - 1
    BY <2>1, <2>2
  <2>4. \A j \in 1 .. Len(a) : a[j] = b[j]
    BY <2>1, <2>2
  <2> HIDE DEF a, b, n
  <2>5. a = b
    BY <2>3, <2>4, SeqEqual
  <2>6. QED
    BY <2>5 DEF a, b
<1>4. /\ queues' = [queues EXCEPT ![y] = RemoveAt(@, 1)]
      /\ taskInQueue' = [taskInQueue EXCEPT ![queues[y][1]] = NoType]
  BY <1>2, <1>3 DEF PopTask
<1>5. QED
  BY <1>2, <1>4 DEF TakesOut

(***************************************************************************)
(* deleteTask takes the position that the index and WaitsOnce single out.  *)
(***************************************************************************)
LEMMA DeleteTakesOut ==
  ASSUME QInv, NEW t \in Task, DeleteTask(t)
  PROVE  UNCHANGED qvars \/ \E y \in Type : \E p \in 1 .. Len(queues[y]) : TakesOut(y, p)
<1>1. CASE taskInQueue[t] = NoType
  BY <1>1 DEF DeleteTask
<1>2. CASE taskInQueue[t] # NoType
  <2> DEFINE y == taskInQueue[t]
  <2>1. y \in Type /\ queues[y] \in Seq(Task)
    BY <1>2 DEF QInv, QTypeOK
  <2>2. DOMAIN queues[y] = 1 .. Len(queues[y])
    BY <2>1, LenProperties
  <2>3. PICK p \in DOMAIN queues[y] : queues[y][p] = t
    BY <1>2 DEF QInv, QueueIndexConsistent, IndexComplete
  <2>4. /\ queues' = [queues EXCEPT ![y] = RemoveFirst(@, t)]
        /\ taskInQueue' = [taskInQueue EXCEPT ![t] = NoType]
    BY <1>2 DEF DeleteTask
  <2> HIDE DEF y
  <2>5. \A j \in 1 .. Len(queues[y]) : queues[y][j] = queues[y][p] => j = p
    BY <2>1, <2>2, <2>3 DEF QInv, QueueIndexConsistent, WaitsOnce
  <2>6. RemoveFirst(queues[y], t) = RemoveAt(queues[y], p)
    BY <2>1, <2>2, <2>3, <2>5, RemoveFirstUnique
  <2>7. queues' = [queues EXCEPT ![y] = RemoveAt(@, p)]
    BY <2>4, <2>6
  <2>8. QED
    BY <2>1, <2>2, <2>3, <2>4, <2>7 DEF TakesOut
<1>3. QED
  BY <1>1, <1>2

(***************************************************************************)
(* Any step of the queues keeps them in step with their index.             *)
(***************************************************************************)
LEMMA QNextKeepsQInv ==
  ASSUME QInv, [QNext]_qvars
  PROVE  QInv'
<1>1. UNCHANGED qvars => QInv'
  BY DEF qvars, QInv, QTypeOK, QueueIndexConsistent, IndexSound, IndexComplete, WaitsOnce
<1>2. CASE QNext
  <2>1. ASSUME NEW t \in Task, NEW y \in Type, Push(t, y)
        PROVE  QInv'
    BY <2>1, PushKeepsQInv DEF Push
  <2>2. ASSUME NEW y \in Type, NEW p \in 1 .. Len(queues[y]), TakesOut(y, p)
        PROVE  QInv'
    <3>1. queues[y][p] \in Task
      BY ElementOfSeq DEF QInv, QTypeOK
    <3>2. QED
      BY <2>2, <3>1, TakeOutKeepsQInv DEF TakesOut
  <2>3. ASSUME NEW y \in Type, PopTask(y)
        PROVE  QInv'
    BY <2>2, <2>3, PopTakesOut DEF TakesOut
  <2>4. ASSUME NEW t \in Task, DeleteTask(t)
        PROVE  QInv'
    <3>1. CASE UNCHANGED qvars
      BY <1>1, <3>1
    <3>2. QED
      BY <2>2, <2>4, <3>1, DeleteTakesOut
  <2>5. QED
    BY <1>2, <2>1, <2>3, <2>4 DEF QNext
<1>3. QED
  BY <1>1, <1>2

LEMMA InitQInv == QInit => QInv
BY IdAssumption DEF QInit, QInv, QTypeOK, QueueIndexConsistent, IndexSound, IndexComplete, WaitsOnce

(***************************************************************************)
(* For any tasks and types, and any sequence of calls of pushTask, popTask *)
(* and deleteTask: the index says of every task in which queue it waits,   *)
(* and no task waits twice.                                                *)
(***************************************************************************)
THEOREM QueuesAreConsistent == QSpec => []QueueIndexConsistent
<1>1. QInit => QInv
  BY InitQInv
<1>2. QInv /\ [QNext]_qvars => QInv'
  BY QNextKeepsQInv
<1>3. QInv => QueueIndexConsistent
  BY DEF QInv
<1>4. QED
  BY <1>1, <1>2, <1>3, PTL DEF QSpec

-----------------------------------------------------------------------------
(***************************************************************************)
(* A task that is pushed goes to one end.                                  *)
(***************************************************************************)
LEMMA PushKeepsOrder ==
  ASSUME QInv, NEW t \in Task, NEW y \in Type, NEW ahead \in BOOLEAN,
         PushTask(t, y, ahead)
  PROVE  KeepsOrder
<1> SUFFICES ASSUME NEW z \in Type, NEW i \in DOMAIN queues'[z], NEW j \in DOMAIN queues'[z],
                    i < j, taskInQueue[queues'[z][i]] = z, taskInQueue[queues'[z][j]] = z
             PROVE  \E k, l \in DOMAIN queues[z] :
                      k < l /\ queues[z][k] = queues'[z][i] /\ queues[z][l] = queues'[z][j]
  BY DEF KeepsOrder
<1>0. queues \in [Type -> Seq(Task)] /\ z # NoType
  BY IdAssumption DEF QInv, QTypeOK
<1>1. CASE queues'[z] = queues[z]
  BY <1>1
<1>2. CASE queues'[z] # queues[z]
  <2> DEFINE q == queues[z]
  <2>0. q \in Seq(Task) /\ Len(q) \in Nat /\ DOMAIN q = 1 .. Len(q)
    BY <1>0, LenProperties
  <2>1. /\ z = y /\ taskInQueue[t] = NoType
        /\ queues'[z] = IF ahead THEN <<t>> \o q ELSE Append(q, t)
    BY <1>0, <1>2 DEF PushTask, qvars
  <2>2. queues'[z][i] # t /\ queues'[z][j] # t
    BY <1>0, <2>1
  <2> HIDE DEF q
  <2>3. CASE ahead
    <3>1. <<t>> \in Seq(Task) /\ Len(<<t>>) = 1 /\ <<t>>[1] = t
      OBVIOUS
    <3>2. /\ <<t>> \o q \in Seq(Task)
          /\ Len(<<t>> \o q) = 1 + Len(q)
          /\ \A n \in 1 .. 1 + Len(q) :
               (<<t>> \o q)[n] = IF n <= 1 THEN <<t>>[n] ELSE q[n - 1]
      BY <2>0, <3>1, ConcatProperties
    <3>3. DOMAIN (<<t>> \o q) = 1 .. 1 + Len(q)
      BY <3>2, LenProperties
    <3>4. i \in 2 .. 1 + Len(q) /\ j \in 2 .. 1 + Len(q)
      BY <2>0, <2>1, <2>2, <2>3, <3>1, <3>2, <3>3
    <3>5. /\ i - 1 \in DOMAIN q /\ q[i - 1] = queues'[z][i]
          /\ j - 1 \in DOMAIN q /\ q[j - 1] = queues'[z][j]
          /\ i - 1 < j - 1
      BY <2>0, <2>1, <2>3, <3>2, <3>4
    <3>6. QED
      BY <3>5 DEF q
  <2>4. CASE ~ ahead
    <3>1. /\ Append(q, t) \in Seq(Task)
          /\ Len(Append(q, t)) = Len(q) + 1
          /\ \A n \in 1 .. Len(q) : Append(q, t)[n] = q[n]
          /\ Append(q, t)[Len(q) + 1] = t
      BY <2>0, AppendProperties
    <3>2. DOMAIN Append(q, t) = 1 .. Len(q) + 1
      BY <3>1, LenProperties
    <3>3. /\ i \in DOMAIN q /\ q[i] = queues'[z][i]
          /\ j \in DOMAIN q /\ q[j] = queues'[z][j]
      BY <2>0, <2>1, <2>2, <2>4, <3>1, <3>2
    <3>4. QED
      BY <3>3 DEF q
  <2>5. QED
    BY <2>3, <2>4
<1>3. QED
  BY <1>1, <1>2

(***************************************************************************)
(* The tasks before and behind a task that is taken out close up.          *)
(***************************************************************************)
LEMMA TakeOutKeepsOrder ==
  ASSUME QInv, NEW y \in Type, NEW p \in 1 .. Len(queues[y]), TakesOut(y, p)
  PROVE  KeepsOrder
<1> SUFFICES ASSUME NEW z \in Type, NEW i \in DOMAIN queues'[z], NEW j \in DOMAIN queues'[z],
                    i < j
             PROVE  \E k, l \in DOMAIN queues[z] :
                      k < l /\ queues[z][k] = queues'[z][i] /\ queues[z][l] = queues'[z][j]
  BY DEF KeepsOrder
<1>0. queues \in [Type -> Seq(Task)]
  BY DEF QInv, QTypeOK
<1>1. CASE z # y
  BY <1>0, <1>1 DEF TakesOut
<1>2. CASE z = y
  <2> DEFINE q == queues[y]
             old(n) == IF n < p THEN n ELSE n + 1
  <2>1. q \in Seq(Task) /\ Len(q) \in Nat /\ DOMAIN q = 1 .. Len(q) /\ p \in 1 .. Len(q)
    BY <1>0, LenProperties
  <2>2. queues'[y] = RemoveAt(q, p)
    BY <1>0 DEF TakesOut
  <2> HIDE DEF q
  <2>3. /\ RemoveAt(q, p) \in Seq(Task)
        /\ Len(RemoveAt(q, p)) = Len(q) - 1
        /\ \A n \in 1 .. Len(q) - 1 : RemoveAt(q, p)[n] = IF n < p THEN q[n] ELSE q[n + 1]
    BY <2>1, RemoveAtFacts
  <2>4. i \in 1 .. Len(q) - 1 /\ j \in 1 .. Len(q) - 1
    BY <1>2, <2>2, <2>3, LenProperties
  <2>5. /\ old(i) \in 1 .. Len(q) /\ old(j) \in 1 .. Len(q) /\ old(i) < old(j)
        /\ queues'[y][i] = q[old(i)] /\ queues'[y][j] = q[old(j)]
    <3>1. old(i) \in 1 .. Len(q) /\ old(j) \in 1 .. Len(q) /\ old(i) < old(j)
      BY <2>1, <2>4
    <3>2. queues'[y][i] = q[old(i)] /\ queues'[y][j] = q[old(j)]
      BY <2>2, <2>3, <2>4
    <3>3. QED
      BY <3>1, <3>2
  <2> HIDE DEF old
  <2>6. QED
    BY <1>2, <2>1, <2>5 DEF q
<1>3. QED
  BY <1>1, <1>2

LEMMA QNextKeepsOrder ==
  ASSUME QInv, QNext
  PROVE  KeepsOrder \/ UNCHANGED qvars
<1>1. ASSUME NEW t \in Task, NEW y \in Type, Push(t, y)
      PROVE  KeepsOrder
  BY <1>1, PushKeepsOrder DEF Push
<1>2. ASSUME NEW y \in Type, PopTask(y)
      PROVE  KeepsOrder
  BY <1>2, PopTakesOut, TakeOutKeepsOrder DEF TakesOut
<1>3. ASSUME NEW t \in Task, DeleteTask(t)
      PROVE  KeepsOrder \/ UNCHANGED qvars
  BY <1>3, DeleteTakesOut, TakeOutKeepsOrder
<1>4. QED
  BY <1>1, <1>2, <1>3 DEF QNext

(***************************************************************************)
(* Tasks of one type are served in the order in which they came, whatever  *)
(* is deleted between them: no step of the queues lets one overtake        *)
(* another.                                                                *)
(***************************************************************************)
THEOREM QueuesKeepOrder == QSpec => OrderKept
<1>1. QSpec => []QInv
  BY InitQInv, QNextKeepsQInv, PTL DEF QSpec
<1>2. QInv /\ [QNext]_qvars => [KeepsOrder]_qvars
  BY QNextKeepsOrder
<1>3. QED
  BY <1>1, <1>2, PTL DEF QSpec, OrderKept

-----------------------------------------------------------------------------
(***************************************************************************)
(* Which arguments a frame of the stack really has: the part of the type   *)
(* invariant that makes it inductive.                                      *)
(***************************************************************************)
ExecOps == {"addExecutor", "announceTypes", "removeExecutor", "dropState", "requeue",
            "closeTransport", "send", "sendIfIdle", "handOver", "message",
            "taskReceived", "taskReturned", "storeTask"}

TaskOps == {"freezeTask", "addTask", "dispatchTask", "getNextExecutor", "pushTask",
            "removeTask", "removeQueued", "removeRunning", "removeFrozen",
            "handOver", "message", "taskReceived", "taskReturned", "storeTask"}

TypeOps == {"pushTask", "fillLoop", "handOver", "message", "storeTask"}

CallOK(f) ==
    /\ f.op \in ExecOps => f.exec \in Exec
    /\ f.op \in TaskOps => f.task \in Task
    /\ f.op \in TypeOps => f.type \in Type
    /\ f.op = "freezeTask" => f.type \in Type \cup {NoType}
    /\ f.op \in {"announceTypes", "unfreezeTasks"} => f.pos # 0
    /\ f.op = "fillAll" => f.pos <= f.size

Call == {f \in FrameType : CallOK(f)}

TypeInv ==
    /\ QInv
    /\ STypeOK
    /\ MindTypeOK
    /\ stack \in [Thread -> Seq(Call)]
    /\ NetTypeOK
    /\ requests \in [Task -> Nat]

-----------------------------------------------------------------------------
(***************************************************************************)
(* The frames the actions build are calls.                                 *)
(***************************************************************************)
LEMMA FrameIsFrame == ASSUME NEW op \in Op PROVE Frame(op) \in FrameType
BY DEF Frame, FrameType

LEMMA CallTaskIsCall ==
  ASSUME NEW t \in Task,
         NEW op \in {"addTask", "dispatchTask", "getNextExecutor", "removeTask",
                     "removeQueued", "removeRunning", "removeFrozen"}
  PROVE  CallTask(op, t) \in Call
BY DEF CallTask, Frame, Call, CallOK, FrameType, ExecOps, TaskOps, TypeOps, Op

LEMMA CallExecIsCall ==
  ASSUME NEW e \in Exec,
         NEW op \in {"addExecutor", "removeExecutor", "dropState", "closeTransport",
                     "sendIfIdle"}
  PROVE  CallExec(op, e) \in Call
BY DEF CallExec, Frame, Call, CallOK, FrameType, ExecOps, TaskOps, TypeOps, Op

LEMMA CallDispatchIsCall ==
  ASSUME NEW t \in Task, NEW defroze \in BOOLEAN
  PROVE  CallDispatch(t, defroze) \in Call
BY DEF CallDispatch, CallTask, Frame, Call, CallOK, FrameType, ExecOps, TaskOps, TypeOps, Op

LEMMA CallPushIsCall ==
  ASSUME NEW t \in Task, NEW y \in Type, NEW ahead \in BOOLEAN
  PROVE  CallPush(t, y, ahead) \in Call
BY DEF CallPush, CallTask, Frame, Call, CallOK, FrameType, ExecOps, TaskOps, TypeOps, Op

LEMMA CallFreezeIsCall ==
  ASSUME NEW t \in Task, NEW y \in Type \cup {NoType}, NEW instant \in BOOLEAN
  PROVE  CallFreeze(t, y, instant) \in Call
BY DEF CallFreeze, CallTask, Frame, Call, CallOK, FrameType, ExecOps, TaskOps, TypeOps, Op

LEMMA CallSendIsCall ==
  ASSUME NEW e \in Exec, NEW y \in Type \cup {NoType}, NEW loop \in Type \cup {NoType}
  PROVE  /\ CallSend(e, y) \in Call
         /\ [CallSend(e, y) EXCEPT !.loop = loop] \in Call
BY DEF CallSend, CallExec, Frame, Call, CallOK, FrameType, ExecOps, TaskOps, TypeOps, Op

LEMMA CallUnfreezeIsCall ==
  ASSUME NEW y \in Type \cup {NoType}, NEW loop \in Type \cup {NoType}
  PROVE  CallUnfreeze(y, loop) \in Call
<1> DEFINE f == Frame("unfreezeTasks")
           g == [f EXCEPT !.type = y]
           h == [g EXCEPT !.loop = loop]
<1>1. f \in FrameType /\ f.op = "unfreezeTasks"
  BY DEF Frame, FrameType, Op
<1> HIDE DEF f
<1>2. g \in FrameType /\ g.op = "unfreezeTasks"
  BY <1>1 DEF FrameType
<1> HIDE DEF g
<1>3. h \in FrameType /\ h.op = "unfreezeTasks"
  BY <1>2 DEF FrameType
<1>4. CallUnfreeze(y, loop) = [h EXCEPT !.pos = 1]
  BY DEF CallUnfreeze, f, g
<1> HIDE DEF h
<1>5. /\ CallUnfreeze(y, loop) \in FrameType
      /\ CallUnfreeze(y, loop).op = "unfreezeTasks"
      /\ CallUnfreeze(y, loop).pos = 1
  BY <1>3, <1>4 DEF FrameType
<1>6. QED
  BY <1>5 DEF Call, CallOK, ExecOps, TaskOps, TypeOps

LEMMA CallFillLoopIsCall ==
  ASSUME NEW y \in Type
  PROVE  CallFillLoop(y) \in Call
BY DEF CallFillLoop, Frame, Call, CallOK, FrameType, ExecOps, TaskOps, TypeOps, Op

LEMMA FillAllIsCall == Frame("fillAll") \in Call
BY DEF Frame, Call, CallOK, FrameType, ExecOps, TaskOps, TypeOps, Op

LEMMA CallFillIsCall ==
  ASSUME NEW y \in Type, NEW defroze \in BOOLEAN
  PROVE  CallFill(y, defroze) \in Call
<1>1. CallUnfreeze(y, y) \in Call
  BY CallUnfreezeIsCall
<1>2. CallFillLoop(y) \in Call
  BY CallFillLoopIsCall
<1>3. QED
  BY <1>1, <1>2 DEF CallFill

LEMMA TupleIsSeq ==
  ASSUME NEW S, NEW a \in S, NEW b \in S
  PROVE  <<a>> \in Seq(S) /\ <<a, b>> \in Seq(S)
OBVIOUS

LEMMA CallFillAllAreCalls ==
  ASSUME NEW types \in Seq(Type)
  PROVE  CallFillAll(types) \in Seq(Call)
<1>1. \A i \in 1 .. Len(types) : CallFill(types[i], TRUE) \in Call
  BY CallFillIsCall, ElementOfSeq
<1>2. QED
  <2>1. CallFillAll(types) \in [1 .. Len(types) -> Call]
    BY <1>1 DEF CallFillAll
  <2>2. QED
    BY <2>1, LenProperties, SeqDef

LEMMA AgainAreCalls ==
  ASSUME NEW loop \in Type \cup {NoType}
  PROVE  Again(loop) \in Seq(Call)
BY CallFillLoopIsCall DEF Again

(***************************************************************************)
(* A thread that goes on with calls has a stack of calls.                  *)
(***************************************************************************)
LEMMA TopIsCall ==
  ASSUME TypeInv, NEW th \in Thread, NEW op, At(th, op)
  PROVE  /\ Top(th) \in Call
         /\ Top(th).op = op
         /\ Top(th) \in FrameType
BY HeadTailProperties DEF At, Top, TypeInv, Call

LEMMA ContinueKeepsStack ==
  ASSUME TypeInv, NEW th \in Thread, NEW op, At(th, op),
         NEW frames \in Seq(Call), Continue(th, frames)
  PROVE  stack' \in [Thread -> Seq(Call)]
<1>1. Tail(stack[th]) \in Seq(Call)
  BY HeadTailProperties DEF At, TypeInv
<1>2. frames \o Tail(stack[th]) \in Seq(Call)
  BY <1>1, ConcatProperties
<1>3. QED
  BY <1>2 DEF Continue, TypeInv

LEMMA ReturnKeepsStack ==
  ASSUME TypeInv, NEW th \in Thread, NEW op, At(th, op), Return(th)
  PROVE  stack' \in [Thread -> Seq(Call)]
<1>1. <<>> \in Seq(Call)
  OBVIOUS
<1>2. QED
  BY <1>1, ContinueKeepsStack DEF Return

LEMMA StartKeepsStack ==
  ASSUME TypeInv, NEW th \in Thread, NEW frames \in Seq(Call), Start(th, frames)
  PROVE  stack' \in [Thread -> Seq(Call)]
BY DEF Start, TypeInv

LEMMA CloseKeepsNet ==
  ASSUME TypeInv, NEW e \in Exec, CloseTransport(e)
  PROVE  NetTypeOK'
<1>1. <<>> \in Seq(WorkType)
  OBVIOUS
<1>2. CASE transport[e] = "open"
  BY <1>1, <1>2 DEF CloseTransport, TypeInv, NetTypeOK
<1>3. CASE transport[e] # "open"
  BY <1>3 DEF CloseTransport, TypeInv, NetTypeOK, netvars
<1>4. QED
  BY <1>2, <1>3

LEMMA AbortKeepsTypes ==
  ASSUME TypeInv, NEW th \in Thread, NEW e \in Exec, Abort(th, e)
  PROVE  /\ stack' \in [Thread -> Seq(Call)]
         /\ execLock' \in Thread \cup {Free}
         /\ NetTypeOK'
<1>1. <<>> \in Seq(Call)
  OBVIOUS
<1>2. QED
  BY <1>1, CloseKeepsNet DEF Abort, TypeInv, MindTypeOK

(***************************************************************************)
(* Taking the first occurrence of an element out of a sequence.            *)
(***************************************************************************)
LEMMA RemoveFirstFinds ==
  ASSUME NEW S, NEW s \in Seq(S), NEW e, \E i \in 1 .. Len(s) : s[i] = e
  PROVE  \E i \in 1 .. Len(s) : s[i] = e /\ RemoveFirst(s, e) = RemoveAt(s, i)
<1> DEFINE I == {i \in 1 .. Len(s) : s[i] = e}
           R == OpToRel(<, Nat)
<1>1. \E x \in I : \A y \in I : <<y, x>> \notin R
  <2>1. I \subseteq Nat /\ I # {}
    BY LenProperties
  <2> HIDE DEF I, R
  <2>2. IsWellFoundedOn(R, Nat)
    BY NatLessThanWellFounded DEF R
  <2>3. QED
    BY <2>1, <2>2, WFMin
<1>2. \E x \in I : \A y \in I : x <= y
  <2>1. \A x, y \in I : x \in Nat /\ y \in Nat
    BY LenProperties
  <2>2. \A x, y \in Nat : y < x => <<y, x>> \in R
    BY DEF OpToRel
  <2>3. PICK x \in I : \A y \in I : <<y, x>> \notin R
    BY <1>1
  <2> HIDE DEF I, R
  <2>4. ASSUME NEW y \in I, ~(x <= y) PROVE FALSE
    <3>1. <<y, x>> \in R
      BY <2>1, <2>2, <2>4
    <3>2. QED
      BY <3>1, <2>3
  <2>5. QED
    BY <2>4
<1>3. (CHOOSE x \in I : \A y \in I : x <= y) \in I
  BY <1>2
<1>4. RemoveFirst(s, e) = RemoveAt(s, CHOOSE x \in I : \A y \in I : x <= y)
  BY DEF RemoveFirst, SelectInSeq, Min
<1>5. QED
  BY <1>3, <1>4

LEMMA RemoveFirstIsSeq ==
  ASSUME NEW S, NEW s \in Seq(S), NEW e
  PROVE  RemoveFirst(s, e) \in Seq(S)
<1>1. CASE \E i \in 1 .. Len(s) : s[i] = e
  <2>1. PICK i \in 1 .. Len(s) : RemoveFirst(s, e) = RemoveAt(s, i)
    BY <1>1, RemoveFirstFinds
  <2>2. RemoveAt(s, i) \in Seq(S)
    BY RemoveAtFacts
  <2>3. QED
    BY <2>1, <2>2
<1>2. CASE ~\E i \in 1 .. Len(s) : s[i] = e
  BY <1>2, RemoveFirstAbsent
<1>3. QED
  BY <1>1, <1>2

(***************************************************************************)
(* What is known of a call, and the calls that a frame turns into.         *)
(***************************************************************************)
LEMMA CallFields ==
  ASSUME NEW f \in Call
  PROVE  /\ f \in FrameType /\ CallOK(f)
         /\ f.loop \in Type \cup {NoType}
         /\ f.type \in Type \cup {NoType, Unbound}
         /\ f.flag \in BOOLEAN
         /\ f.pos \in Nat /\ f.size \in Nat
         /\ f.todo \subseteq Task
BY DEF Call, FrameType

LEMMA MovedIsCall ==
  ASSUME NEW f \in Call,
         NEW op \in {"getNextExecutor", "message", "storeTask"},
         /\ op = "getNextExecutor" => f.op = "dispatchTask"
         /\ op = "message" => f.op = "handOver"
         /\ op = "storeTask" => f.op = "taskReturned" /\ f.type \in Type
  PROVE  [f EXCEPT !.op = op] \in Call
<1>1. f \in FrameType /\ CallOK(f)
  BY CallFields
<1>2. [f EXCEPT !.op = op] \in FrameType
  BY <1>1 DEF FrameType, Op
<1>3. CallOK([f EXCEPT !.op = op])
  BY <1>1 DEF FrameType, CallOK, ExecOps, TaskOps, TypeOps
<1>4. QED
  BY <1>2, <1>3 DEF Call

LEMMA NextPosIsCall ==
  ASSUME NEW f \in Call, f.op \in {"announceTypes", "unfreezeTasks"}
  PROVE  [f EXCEPT !.pos = @ + 1] \in Call
<1>1. f \in FrameType /\ CallOK(f) /\ f.pos \in Nat
  BY CallFields
<1>2. [f EXCEPT !.pos = @ + 1] \in FrameType
  BY <1>1 DEF FrameType
<1>3. CallOK([f EXCEPT !.pos = @ + 1])
  BY <1>1 DEF FrameType, CallOK, ExecOps, TaskOps, TypeOps
<1>4. QED
  BY <1>2, <1>3 DEF Call

LEMMA NextKeyIsCall ==
  ASSUME NEW f \in Call, f.op = "fillAll", NEW size \in Nat, f.pos + 1 <= size
  PROVE  [f EXCEPT !.pos = @ + 1, !.size = size] \in Call
<1> DEFINE g == [f EXCEPT !.pos = @ + 1]
           h == [g EXCEPT !.size = size]
<1>1. f \in FrameType /\ CallOK(f) /\ f.pos \in Nat
  BY CallFields
<1>2. g \in FrameType /\ g.op = "fillAll" /\ g.pos = f.pos + 1
  BY <1>1 DEF FrameType
<1> HIDE DEF g
<1>3. h \in FrameType /\ h.op = "fillAll" /\ h.pos = f.pos + 1 /\ h.size = size
  BY <1>2 DEF FrameType
<1>4. CallOK(h)
  BY <1>3 DEF CallOK, ExecOps, TaskOps, TypeOps
<1>5. QED
  BY <1>3, <1>4 DEF Call, g

LEMMA NextTodoIsCall ==
  ASSUME NEW f \in Call, f.op = "requeue", NEW todo \in SUBSET Task,
         NEW y \in Type \cup {NoType}
  PROVE  [f EXCEPT !.todo = todo, !.type = y] \in Call
<1> DEFINE g == [f EXCEPT !.todo = todo, !.type = y]
<1>1. f \in FrameType /\ CallOK(f)
  BY CallFields
<1>2. g \in FrameType /\ g.op = "requeue" /\ g.exec = f.exec
  BY <1>1 DEF FrameType
<1>3. CallOK(g)
  BY <1>1, <1>2 DEF CallOK, ExecOps, TaskOps, TypeOps
<1>4. QED
  BY <1>2, <1>3 DEF Call

LEMMA RequeueIsCall ==
  ASSUME NEW e \in Exec, NEW todo \in SUBSET Task
  PROVE  [CallExec("requeue", e) EXCEPT !.todo = todo, !.type = Unbound] \in Call
<1> DEFINE f == CallExec("requeue", e)
           g == [f EXCEPT !.todo = todo, !.type = Unbound]
<1>1. f \in FrameType /\ f.op = "requeue" /\ f.exec = e
  BY DEF CallExec, Frame, FrameType, Op
<1> HIDE DEF f
<1>2. g \in FrameType /\ g.op = "requeue" /\ g.exec = e
  BY <1>1 DEF FrameType
<1>3. CallOK(g)
  BY <1>2 DEF CallOK, ExecOps, TaskOps, TypeOps
<1>4. QED
  BY <1>2, <1>3 DEF Call, f

LEMMA AnnounceIsCall ==
  ASSUME NEW e \in Exec
  PROVE  [CallExec("announceTypes", e) EXCEPT !.pos = 1] \in Call
<1> DEFINE f == CallExec("announceTypes", e)
           g == [f EXCEPT !.pos = 1]
<1>1. f \in FrameType /\ f.op = "announceTypes" /\ f.exec = e
  BY DEF CallExec, Frame, FrameType, Op
<1> HIDE DEF f
<1>2. g \in FrameType /\ g.op = "announceTypes" /\ g.exec = e /\ g.pos = 1
  BY <1>1 DEF FrameType
<1>3. CallOK(g)
  BY <1>2 DEF CallOK, ExecOps, TaskOps, TypeOps
<1>4. QED
  BY <1>2, <1>3 DEF Call, f

LEMMA UndoIsCall ==
  ASSUME NEW t \in Task, NEW loop \in Type \cup {NoType}
  PROVE  [CallTask("removeRunning", t) EXCEPT !.loop = loop] \in Call
BY DEF CallTask, Frame, Call, CallOK, FrameType, ExecOps, TaskOps, TypeOps, Op

LEMMA HandOverIsCall ==
  ASSUME NEW f \in Call, f.op = "send", NEW y \in Type, NEW t \in Task
  PROVE  [f EXCEPT !.op = "handOver", !.type = y, !.task = t] \in Call
<1> DEFINE g == [f EXCEPT !.op = "handOver"]
           h == [g EXCEPT !.type = y]
           k == [h EXCEPT !.task = t]
<1>1. f \in FrameType /\ CallOK(f)
  BY CallFields
<1>2. g \in FrameType /\ g.op = "handOver" /\ g.exec = f.exec
  BY <1>1 DEF FrameType, Op
<1> HIDE DEF g
<1>3. h \in FrameType /\ h.op = "handOver" /\ h.exec = f.exec /\ h.type = y
  BY <1>2 DEF FrameType
<1> HIDE DEF h
<1>4. k \in FrameType /\ k.op = "handOver" /\ k.exec = f.exec /\ k.type = y /\ k.task = t
  BY <1>3 DEF FrameType
<1>5. f.exec \in Exec
  BY <1>1 DEF CallOK, ExecOps
<1>6. CallOK(k)
  BY <1>4, <1>5 DEF CallOK, ExecOps, TaskOps, TypeOps
<1>7. QED
  BY <1>4, <1>6 DEF Call, g, h

LEMMA TaskReturnedIsCall ==
  ASSUME NEW f \in Call, f.op = "taskReceived", NEW y \in Type \cup {NoType}
  PROVE  [f EXCEPT !.op = "taskReturned", !.type = y] \in Call
<1> DEFINE g == [f EXCEPT !.op = "taskReturned", !.type = y]
<1>1. f \in FrameType /\ CallOK(f)
  BY CallFields
<1>2. g \in FrameType /\ g.op = "taskReturned" /\ g.exec = f.exec /\ g.task = f.task
  BY <1>1 DEF FrameType, Op
<1>3. CallOK(g)
  BY <1>1, <1>2 DEF CallOK, ExecOps, TaskOps, TypeOps
<1>4. QED
  BY <1>2, <1>3 DEF Call

LEMMA TaskReceivedIsCall ==
  ASSUME NEW t \in Task, NEW e \in Exec, NEW done \in BOOLEAN
  PROVE  [CallTask("taskReceived", t) EXCEPT !.exec = e, !.flag = done] \in Call
<1> DEFINE f == CallTask("taskReceived", t)
           g == [f EXCEPT !.exec = e]
           h == [g EXCEPT !.flag = done]
<1>1. f \in FrameType /\ f.op = "taskReceived" /\ f.task = t
  BY DEF CallTask, Frame, FrameType, Op
<1> HIDE DEF f
<1>2. g \in FrameType /\ g.op = "taskReceived" /\ g.task = t /\ g.exec = e
  BY <1>1 DEF FrameType
<1> HIDE DEF g
<1>3. h \in FrameType /\ h.op = "taskReceived" /\ h.task = t /\ h.exec = e
  BY <1>2 DEF FrameType
<1>4. CallOK(h)
  BY <1>3 DEF CallOK, ExecOps, TaskOps, TypeOps
<1>5. QED
  BY <1>3, <1>4 DEF Call, f, g

-----------------------------------------------------------------------------
(***************************************************************************)
(* The groups of variables, and the operations of ExecutorState.           *)
(***************************************************************************)
QStep == [QNext]_qvars

LEMMA QStepKeepsQInv == ASSUME QInv, QStep PROVE QInv'
BY QNextKeepsQInv DEF QStep

LEMMA SameS == ASSUME STypeOK, UNCHANGED svars PROVE STypeOK'
BY DEF STypeOK, svars

LEMMA SameMind == ASSUME MindTypeOK, UNCHANGED mindvars PROVE MindTypeOK'
BY DEF MindTypeOK, mindvars

LEMMA SameNet == ASSUME NetTypeOK, UNCHANGED netvars PROVE NetTypeOK'
BY DEF NetTypeOK, netvars

LEMMA AddExecutorKeepsTypes ==
  ASSUME STypeOK, NEW e \in Exec, StateAddExecutor(e) PROVE STypeOK'
BY DEF STypeOK, StateAddExecutor

LEMMA RemoveExecutorKeepsTypes ==
  ASSUME STypeOK, NEW e \in Exec, StateRemoveExecutor(e) \/ StateRemoveExecutorFails(e)
  PROVE  STypeOK'
<1>1. CASE StateRemoveExecutor(e)
  BY <1>1 DEF STypeOK, StateRemoveExecutor, ForgetTypes
<1>2. CASE StateRemoveExecutorFails(e)
  BY <1>2 DEF STypeOK, StateRemoveExecutorFails, ForgetTypes
<1>3. QED
  BY <1>1, <1>2

LEMMA StateAddTaskKeepsTypes ==
  ASSUME STypeOK, NEW e \in Exec, NEW t \in Task, StateAddTask(e, t) PROVE STypeOK'
BY DEF STypeOK, StateAddTask

LEMMA StateRemoveTaskFromKeepsTypes ==
  ASSUME STypeOK, NEW e \in Exec, NEW t \in Task, StateRemoveTaskFrom(e, t) PROVE STypeOK'
BY DEF STypeOK, StateRemoveTaskFrom, svars

LEMMA StateRemoveTaskKeepsTypes ==
  ASSUME STypeOK, NEW t \in Task, StateRemoveTask(t) PROVE STypeOK'
<1>1. CASE taskInExec[t] # NoExec
  BY <1>1, StateRemoveTaskFromKeepsTypes DEF StateRemoveTask, STypeOK
<1>2. CASE taskInExec[t] = NoExec
  BY <1>2, SameS DEF StateRemoveTask
<1>3. QED
  BY <1>1, <1>2

(***************************************************************************)
(* What a step leaves to show, one line per group of variables.            *)
(***************************************************************************)
StepOK ==
    /\ QStep
    /\ STypeOK'
    /\ MindTypeOK'
    /\ stack' \in [Thread -> Seq(Call)]
    /\ NetTypeOK'
    /\ requests' \in [Task -> Nat]

LEMMA StepOKKeepsTypeInv == ASSUME TypeInv, StepOK PROVE TypeInv'
BY QStepKeepsQInv DEF TypeInv, StepOK

LEMMA SameHist == ASSUME TypeInv, UNCHANGED requests PROVE requests' \in [Task -> Nat]
BY DEF TypeInv

(***************************************************************************)
(* The events that start a handler.                                        *)
(***************************************************************************)
LEMMA ConnectOK ==
  ASSUME TypeInv, NEW th \in Worker, NEW e \in Exec, Connect(th, e) PROVE StepOK
<1>1. <<CallExec("addExecutor", e)>> \in Seq(Call)
  BY CallExecIsCall
<1>2. stack' \in [Thread -> Seq(Call)]
  BY <1>1, StartKeepsStack DEF Connect, Thread
<1>3. NetTypeOK'
  BY DEF Connect, TypeInv, NetTypeOK
<1>4. QED
  BY <1>2, <1>3, SameS, SameMind, SameHist DEF Connect, TypeInv, StepOK, QStep

LEMMA DisconnectOK ==
  ASSUME TypeInv, NEW e \in Exec, Disconnect(e) PROVE StepOK
<1>1. NetTypeOK'
  BY CloseKeepsNet DEF Disconnect
<1>2. QED
  BY <1>1, SameS, SameMind, SameHist DEF Disconnect, TypeInv, StepOK, QStep

LEMMA HandleDropOK ==
  ASSUME TypeInv, NEW th \in Worker, NEW e \in Exec, HandleDrop(th, e) PROVE StepOK
<1>1. <<CallExec("removeExecutor", e)>> \in Seq(Call)
  BY CallExecIsCall
<1>2. stack' \in [Thread -> Seq(Call)]
  BY <1>1, StartKeepsStack DEF HandleDrop, Thread
<1>3. NetTypeOK'
  BY DEF HandleDrop, TypeInv, NetTypeOK
<1>4. QED
  BY <1>2, <1>3, SameS, SameMind, SameHist DEF HandleDrop, TypeInv, StepOK, QStep

LEMMA ReplyFramesAreCalls ==
  ASSUME NEW kind \in ReplyKinds, NEW e \in Exec, NEW w \in WorkType
  PROVE  ReplyFrames(kind, e, w) \in Seq(Call)
<1>1. w.task \in Task
  BY DEF WorkType
<1>2. CASE kind \in {"TaskDone", "TaskFreeze"}
  <2> DEFINE g == [CallTask("taskReceived", w.task) EXCEPT
                     !.exec = e, !.flag = (kind = "TaskDone")]
  <2>1. (kind = "TaskDone") \in BOOLEAN
    OBVIOUS
  <2>2. g \in Call
    BY <1>1, <2>1, TaskReceivedIsCall
  <2>3. ReplyFrames(kind, e, w) = <<g>>
    BY <1>2 DEF ReplyFrames
  <2> HIDE DEF g
  <2>4. QED
    BY <2>2, <2>3
<1>3. CASE kind = "TaskError"
  BY <1>1, <1>3, CallTaskIsCall DEF ReplyFrames
<1>4. CASE kind = "ExecutorError"
  BY <1>4, CallExecIsCall DEF ReplyFrames
<1>5. QED
  BY <1>2, <1>3, <1>4 DEF ReplyKinds

LEMMA HandleReplyOK ==
  ASSUME TypeInv, NEW th \in Worker, NEW e \in Exec, NEW kind \in Replies,
         HandleReply(th, e, kind)
  PROVE  StepOK
<1>1. PICK i \in DOMAIN work[e] :
        /\ work' = [work EXCEPT ![e] = RemoveAt(@, i)]
        /\ Start(th, ReplyFrames(kind, e, work[e][i]))
  BY DEF HandleReply
<1>2. work[e] \in Seq(WorkType) /\ i \in 1 .. Len(work[e])
  BY LenProperties DEF TypeInv, NetTypeOK
<1>3. work[e][i] \in WorkType /\ RemoveAt(work[e], i) \in Seq(WorkType)
  BY <1>2, ElementOfSeq, RemoveAtFacts
<1>4. ReplyFrames(kind, e, work[e][i]) \in Seq(Call)
  BY <1>3, ReplyFramesAreCalls, DispatcherAssumption
<1>5. stack' \in [Thread -> Seq(Call)]
  BY <1>1, <1>4, StartKeepsStack DEF Thread
<1>6. NetTypeOK'
  BY <1>1, <1>3 DEF HandleReply, TypeInv, NetTypeOK
<1>7. QED
  BY <1>5, <1>6, SameS, SameMind, SameHist DEF HandleReply, TypeInv, StepOK, QStep

LEMMA RequestOK ==
  ASSUME TypeInv, NEW th \in Worker, NEW t \in Task, NEW kind \in Requests,
         Request(th, t, kind)
  PROVE  StepOK
<1>1. /\ <<CallTask("addTask", t)>> \in Seq(Call)
      /\ <<CallTask("removeTask", t), CallTask("addTask", t)>> \in Seq(Call)
  BY CallTaskIsCall
<1>2. stack' \in [Thread -> Seq(Call)]
  BY <1>1, StartKeepsStack DEF Request, Thread
<1>3. requests' \in [Task -> Nat]
  BY DEF Request, TypeInv
<1>4. QED
  BY <1>2, <1>3, SameS, SameMind, SameNet DEF Request, TypeInv, StepOK, QStep

LEMMA PeriodicOK == ASSUME TypeInv, Periodic PROVE StepOK
<1>1. <<CallUnfreeze(NoType, NoType), Frame("fillAll")>> \in Seq(Call)
  BY CallUnfreezeIsCall, FillAllIsCall
<1>2. stack' \in [Thread -> Seq(Call)]
  BY <1>1, StartKeepsStack DEF Periodic, Thread
<1>3. QED
  BY <1>2, SameS, SameMind, SameNet, SameHist DEF Periodic, TypeInv, StepOK, QStep

LEMMA RipenOK ==
  ASSUME TypeInv, NEW t \in Task, Ripen(t) PROVE StepOK
<1>1. [etask[t] EXCEPT !.ripe = TRUE] \in ETaskType
  BY DEF TypeInv, MindTypeOK, ETaskType
<1>2. etask' = [etask EXCEPT ![t] = [etask[t] EXCEPT !.ripe = TRUE]]
  BY DEF Ripen
<1>3. MindTypeOK'
  BY <1>1, <1>2 DEF Ripen, TypeInv, MindTypeOK
<1>4. QED
  BY <1>3, SameS, SameNet, SameHist DEF Ripen, TypeInv, StepOK, QStep

-----------------------------------------------------------------------------
(***************************************************************************)
(* The steps of a thread: executors coming and going.                      *)
(***************************************************************************)
LEMMA AddExecutorOK ==
  ASSUME TypeInv, NEW th \in Thread, AddExecutor(th) PROVE StepOK
<1> DEFINE e == Top(th).exec
           frames == <<[CallExec("announceTypes", e) EXCEPT !.pos = 1]>>
                     \o CallFillAll(ExecTypes[e])
<1>1. At(th, "addExecutor")
  BY DEF AddExecutor
<1>2. e \in Exec
  BY <1>1, TopIsCall DEF Call, CallOK, ExecOps
<1>3. frames \in Seq(Call)
  <2>1. <<[CallExec("announceTypes", e) EXCEPT !.pos = 1]>> \in Seq(Call)
    BY <1>2, AnnounceIsCall
  <2>2. CallFillAll(ExecTypes[e]) \in Seq(Call)
    BY <1>2, CallFillAllAreCalls, StateAssumption
  <2>3. QED
    BY <2>1, <2>2, ConcatProperties
<1> HIDE DEF e
<1>4. CASE e \in connected
  <2>1. Return(th) /\ UNCHANGED <<svars, connected, execLock>>
    BY <1>4 DEF AddExecutor, e
  <2>2. MindTypeOK'
    BY <2>1 DEF AddExecutor, TypeInv, MindTypeOK
  <2>3. QED
    BY <1>1, <2>1, <2>2, ReturnKeepsStack, SameS, SameNet, SameHist
       DEF AddExecutor, TypeInv, StepOK, QStep
<1>5. CASE e \notin connected
  <2>1. /\ execLock' = th
        /\ connected' = connected \cup {e}
        /\ StateAddExecutor(e)
        /\ Continue(th, frames)
    BY <1>5 DEF AddExecutor, e
  <2>2. MindTypeOK'
    BY <2>1, <1>2 DEF AddExecutor, TypeInv, MindTypeOK
  <2> HIDE DEF frames
  <2>3. stack' \in [Thread -> Seq(Call)]
    BY <1>1, <1>3, <2>1, ContinueKeepsStack
  <2>4. STypeOK'
    BY <1>2, <2>1, AddExecutorKeepsTypes DEF TypeInv
  <2>5. QED
    BY <2>2, <2>3, <2>4, SameNet, SameHist DEF AddExecutor, TypeInv, StepOK, QStep
<1>6. QED
  BY <1>4, <1>5

LEMMA AnnounceTypesOK ==
  ASSUME TypeInv, NEW th \in Thread, AnnounceTypes(th) PROVE StepOK
<1> DEFINE f == Top(th)
           types == ExecTypes[f.exec]
<1>1. At(th, "announceTypes")
  BY DEF AnnounceTypes
<1>2. f \in Call /\ f.op = "announceTypes" /\ f.exec \in Exec /\ f.pos \in Nat \ {0}
  BY <1>1, TopIsCall, CallFields DEF CallOK, ExecOps
<1>3. types \in Seq(Type) /\ Len(types) \in Nat
  BY <1>2, StateAssumption, LenProperties
<1>4. CASE f.pos > Len(types)
  <2>1. Return(th) /\ execLock' = Free /\ UNCHANGED execTypes
    BY <1>4 DEF AnnounceTypes
  <2>2. MindTypeOK'
    BY <2>1 DEF AnnounceTypes, TypeInv, MindTypeOK
  <2>3. QED
    BY <1>1, <2>1, <2>2, ReturnKeepsStack, SameS, SameNet, SameHist
       DEF AnnounceTypes, TypeInv, StepOK, QStep
<1>5. CASE ~(f.pos > Len(types))
  <2>1. /\ execTypes' = IF types[f.pos] \in ToSet(execTypes) THEN execTypes
                        ELSE Append(execTypes, types[f.pos])
        /\ Continue(th, <<[f EXCEPT !.pos = @ + 1]>>)
        /\ UNCHANGED execLock
    BY <1>5 DEF AnnounceTypes
  <2>2. types[f.pos] \in Type
    BY <1>2, <1>3, <1>5, ElementOfSeq
  <2>3. execTypes' \in Seq(Type)
    BY <2>1, <2>2, AppendProperties DEF TypeInv, MindTypeOK
  <2>4. MindTypeOK'
    BY <2>1, <2>3 DEF AnnounceTypes, TypeInv, MindTypeOK
  <2>5. <<[f EXCEPT !.pos = @ + 1]>> \in Seq(Call)
    BY <1>2, NextPosIsCall
  <2>6. stack' \in [Thread -> Seq(Call)]
    BY <1>1, <2>1, <2>5, ContinueKeepsStack
  <2>7. QED
    BY <2>4, <2>6, SameS, SameNet, SameHist DEF AnnounceTypes, TypeInv, StepOK, QStep
<1>6. QED
  BY <1>4, <1>5

LEMMA RemoveExecutorOK ==
  ASSUME TypeInv, NEW th \in Thread, RemoveExecutor(th) PROVE StepOK
<1> DEFINE e == Top(th).exec
<1>1. At(th, "removeExecutor")
  BY DEF RemoveExecutor
<1>2. <<CallExec("dropState", e)>> \in Seq(Call)
  <2>1. e \in Exec
    BY <1>1, TopIsCall DEF Call, CallOK, ExecOps
  <2>2. QED
    BY <2>1, CallExecIsCall
<1>3. stack' \in [Thread -> Seq(Call)]
  BY <1>1, <1>2, ContinueKeepsStack, ReturnKeepsStack DEF RemoveExecutor
<1>4. MindTypeOK'
  BY DEF RemoveExecutor, TypeInv, MindTypeOK
<1>5. QED
  BY <1>3, <1>4, SameS, SameNet, SameHist DEF RemoveExecutor, TypeInv, StepOK, QStep

LEMMA DropStateOK ==
  ASSUME TypeInv, NEW th \in Thread, DropState(th) PROVE StepOK
<1> DEFINE e == Top(th).exec
           requeue == [CallExec("requeue", e) EXCEPT !.todo = execTasks[e], !.type = Unbound]
           frames == <<requeue, CallExec("closeTransport", e)>> \o CallFillAll(ExecTypes[e])
<1>1. At(th, "dropState")
  BY DEF DropState
<1>2. e \in Exec /\ execTasks[e] \in SUBSET Task
  BY <1>1, TopIsCall DEF Call, CallOK, ExecOps, TypeInv, STypeOK
<1>3. frames \in Seq(Call)
  <2>1. requeue \in Call
    BY <1>2, RequeueIsCall
  <2>2. CallExec("closeTransport", e) \in Call
    BY <1>2, CallExecIsCall
  <2> HIDE DEF requeue
  <2>3. <<requeue, CallExec("closeTransport", e)>> \in Seq(Call)
    BY <2>1, <2>2
  <2>4. CallFillAll(ExecTypes[e]) \in Seq(Call)
    BY <1>2, CallFillAllAreCalls, StateAssumption
  <2>5. QED
    BY <2>3, <2>4, ConcatProperties
<1>4. STypeOK'
  BY <1>2, RemoveExecutorKeepsTypes DEF DropState, TypeInv
<1>5. CASE AllIndexed(e)
  <2>1. Continue(th, frames) /\ UNCHANGED <<execLock, netvars>>
    BY <1>5 DEF DropState
  <2> HIDE DEF frames
  <2>2. stack' \in [Thread -> Seq(Call)]
    BY <1>1, <1>3, <2>1, ContinueKeepsStack
  <2>3. MindTypeOK'
    BY <2>1 DEF DropState, TypeInv, MindTypeOK
  <2>4. QED
    BY <1>4, <2>1, <2>2, <2>3, SameNet, SameHist DEF DropState, TypeInv, StepOK, QStep
<1>6. CASE ~AllIndexed(e)
  <2>1. Abort(th, e)
    BY <1>6 DEF DropState
  <2>2. MindTypeOK'
    BY <1>2, <2>1, AbortKeepsTypes DEF DropState, TypeInv, MindTypeOK
  <2>3. QED
    BY <1>2, <1>4, <2>1, <2>2, AbortKeepsTypes, SameHist DEF DropState, TypeInv, StepOK, QStep
<1>7. QED
  BY <1>5, <1>6

LEMMA RequeueOK ==
  ASSUME TypeInv, NEW th \in Thread, Requeue(th) PROVE StepOK
<1> DEFINE f == Top(th)
<1>1. At(th, "requeue")
  BY DEF Requeue
<1>2. f \in Call /\ f.op = "requeue" /\ f.exec \in Exec /\ f.todo \subseteq Task
  BY <1>1, TopIsCall, CallFields DEF CallOK, ExecOps
<1>3. CASE f.todo = {}
  <2>1. execLock' = Free /\ Return(th) /\ UNCHANGED netvars
    BY <1>3 DEF Requeue
  <2>2. MindTypeOK'
    BY <2>1 DEF Requeue, TypeInv, MindTypeOK
  <2>3. QED
    BY <1>1, <2>1, <2>2, ReturnKeepsStack, SameS, SameNet, SameHist
       DEF Requeue, TypeInv, StepOK, QStep
<1>4. CASE f.todo # {}
  <2>1. PICK t \in f.todo :
          LET y == IF t \in tasks THEN etask[t].type ELSE f.type
              next == [f EXCEPT !.todo = @ \ {t}, !.type = y]
          IN  IF y = Unbound
              THEN Abort(th, f.exec)
              ELSE /\ Continue(th, <<IF y = NoType THEN CallDispatch(t, TRUE)
                                                   ELSE CallPush(t, y, TRUE), next>>)
                   /\ UNCHANGED <<execLock, netvars>>
    BY <1>4 DEF Requeue
  <2> DEFINE y == IF t \in tasks THEN etask[t].type ELSE f.type
             next == [f EXCEPT !.todo = @ \ {t}, !.type = y]
             call == IF y = NoType THEN CallDispatch(t, TRUE) ELSE CallPush(t, y, TRUE)
  <2>2. t \in Task
    BY <1>2
  <2>3. y \in Type \cup {NoType, Unbound}
    BY <1>2, <2>2, CallFields DEF TypeInv, MindTypeOK, ETaskType
  <2>4. CASE y = Unbound
    <3>1. Abort(th, f.exec)
      BY <2>1, <2>4
    <3>2. MindTypeOK'
      BY <1>2, <3>1, AbortKeepsTypes DEF Requeue, TypeInv, MindTypeOK
    <3>3. QED
      BY <1>2, <3>1, <3>2, AbortKeepsTypes, SameS, SameHist DEF Requeue, TypeInv, StepOK, QStep
  <2>5. CASE y # Unbound
    <3>1. Continue(th, <<call, next>>) /\ UNCHANGED <<execLock, netvars>>
      BY <2>1, <2>5
    <3> HIDE DEF y
    <3>2. call \in Call
      BY <2>2, <2>3, <2>5, CallDispatchIsCall, CallPushIsCall
    <3>3. f.todo \ {t} \in SUBSET Task
      BY <1>2
    <3>4. next \in Call
      BY <1>2, <2>3, <2>5, <3>3, NextTodoIsCall
    <3> HIDE DEF call, next
    <3>5. <<call, next>> \in Seq(Call)
      BY <3>2, <3>4
    <3>6. stack' \in [Thread -> Seq(Call)]
      BY <1>1, <3>1, <3>5, ContinueKeepsStack
    <3>7. MindTypeOK'
      BY <3>1 DEF Requeue, TypeInv, MindTypeOK
    <3>8. QED
      BY <3>1, <3>6, <3>7, SameS, SameNet, SameHist DEF Requeue, TypeInv, StepOK, QStep
  <2>6. QED
    BY <2>4, <2>5
<1>5. QED
  BY <1>3, <1>4

LEMMA DisconnectClientOK ==
  ASSUME TypeInv, NEW th \in Thread, DisconnectClient(th) PROVE StepOK
<1>1. At(th, "closeTransport")
  BY DEF DisconnectClient
<1>2. Top(th).exec \in Exec
  BY <1>1, TopIsCall DEF Call, CallOK, ExecOps
<1>3. QED
  BY <1>1, <1>2, CloseKeepsNet, ReturnKeepsStack, SameS, SameMind, SameHist
     DEF DisconnectClient, TypeInv, StepOK, QStep

-----------------------------------------------------------------------------
(***************************************************************************)
(* The steps of a thread: the freezer.                                     *)
(***************************************************************************)
LEMMA FreezeTaskOK ==
  ASSUME TypeInv, NEW th \in Thread, FreezeTask(th) PROVE StepOK
<1> DEFINE f == Top(th)
           t == f.task
<1>1. At(th, "freezeTask")
  BY DEF FreezeTask
<1>2. t \in Task /\ f.type \in Type \cup {NoType} /\ f.flag \in BOOLEAN
  BY <1>1, TopIsCall, CallFields DEF CallOK, TaskOps
<1>3. CASE t \in ToSet(freezer) \/ t \notin tasks
  <2>1. UNCHANGED <<etask, freezer>> /\ Return(th)
    BY <1>3 DEF FreezeTask
  <2>2. MindTypeOK'
    BY <2>1 DEF FreezeTask, TypeInv, MindTypeOK
  <2>3. QED
    BY <1>1, <2>1, <2>2, ReturnKeepsStack, SameS, SameNet, SameHist
       DEF FreezeTask, TypeInv, StepOK, QStep
<1>4. CASE ~(t \in ToSet(freezer) \/ t \notin tasks)
  <2>1. /\ etask' = [etask EXCEPT ![t].frozen = @ + 1, ![t].type = f.type, ![t].ripe = f.flag]
        /\ \/ freezer' = Append(freezer, t) /\ Return(th)
           \/ UNCHANGED freezer /\ Continue(th, <<CallTask("removeTask", t)>>)
    BY <1>4 DEF FreezeTask
  <2> DEFINE a == [etask[t] EXCEPT !.frozen = @ + 1]
             b == [a EXCEPT !.type = f.type]
             c == [b EXCEPT !.ripe = f.flag]
  <2>2. etask[t] \in ETaskType
    BY <1>2 DEF TypeInv, MindTypeOK
  <2>3. a \in ETaskType
    BY <2>2 DEF ETaskType
  <2> HIDE DEF a
  <2>4. b \in ETaskType
    BY <1>2, <2>3 DEF ETaskType
  <2> HIDE DEF b
  <2>5. c \in ETaskType
    BY <1>2, <2>4 DEF ETaskType
  <2>6. etask' \in [Task -> ETaskType]
    <3>1. etask' = [[[etask EXCEPT ![t] = a] EXCEPT ![t] = b] EXCEPT ![t] = c]
      BY <1>2, <2>1 DEF a, b, TypeInv, MindTypeOK
    <3> HIDE DEF c
    <3>2. QED
      BY <3>1, <2>3, <2>4, <2>5 DEF TypeInv, MindTypeOK
  <2>7. freezer' \in Seq(Task)
    <3>1. freezer' = Append(freezer, t) \/ freezer' = freezer
      BY <2>1
    <3>2. freezer \in Seq(Task)
      BY DEF TypeInv, MindTypeOK
    <3>3. QED
      BY <1>2, <3>1, <3>2, AppendProperties
  <2>8. MindTypeOK'
    BY <2>6, <2>7 DEF FreezeTask, TypeInv, MindTypeOK
  <2>9. <<CallTask("removeTask", t)>> \in Seq(Call)
    BY <1>2, CallTaskIsCall
  <2>10. stack' \in [Thread -> Seq(Call)]
    BY <1>1, <2>1, <2>9, ContinueKeepsStack, ReturnKeepsStack
  <2>11. QED
    BY <2>8, <2>10, SameS, SameNet, SameHist DEF FreezeTask, TypeInv, StepOK, QStep
<1>5. QED
  BY <1>3, <1>4

LEMMA UnfreezeTasksOK ==
  ASSUME TypeInv, NEW th \in Thread, UnfreezeTasks(th) PROVE StepOK
<1> DEFINE f == Top(th)
           t == freezer[f.pos]
           skip == (f.type # NoType /\ f.type # etask[t].type) \/ ~etask[t].ripe
           frames == IF t \in tasks THEN <<CallDispatch(t, FALSE), f>> ELSE <<f>>
<1>1. At(th, "unfreezeTasks")
  BY DEF UnfreezeTasks
<1>2. /\ f \in Call /\ f.op = "unfreezeTasks" /\ f.pos \in Nat \ {0}
      /\ f.loop \in Type \cup {NoType}
  BY <1>1, TopIsCall, CallFields DEF CallOK
<1>3. freezer \in Seq(Task) /\ Len(freezer) \in Nat
  BY LenProperties DEF TypeInv, MindTypeOK
<1>4. CASE f.pos > Len(freezer)
  <2>1. Continue(th, Again(f.loop)) /\ UNCHANGED freezer
    BY <1>4 DEF UnfreezeTasks
  <2>2. stack' \in [Thread -> Seq(Call)]
    BY <1>1, <1>2, <2>1, AgainAreCalls, ContinueKeepsStack
  <2>3. MindTypeOK'
    BY <2>1 DEF UnfreezeTasks, TypeInv, MindTypeOK
  <2>4. QED
    BY <2>2, <2>3, SameS, SameNet, SameHist DEF UnfreezeTasks, TypeInv, StepOK, QStep
<1>5. CASE ~(f.pos > Len(freezer))
  <2>1. f.pos \in 1 .. Len(freezer)
    BY <1>2, <1>3, <1>5
  <2>2. t \in Task
    BY <1>3, <2>1, ElementOfSeq
  <2>3. CASE t \in tasks /\ skip
    <3>1. Continue(th, <<[f EXCEPT !.pos = @ + 1]>>) /\ UNCHANGED freezer
      BY <1>5, <2>3 DEF UnfreezeTasks
    <3>2. <<[f EXCEPT !.pos = @ + 1]>> \in Seq(Call)
      BY <1>2, NextPosIsCall
    <3>3. stack' \in [Thread -> Seq(Call)]
      BY <1>1, <3>1, <3>2, ContinueKeepsStack
    <3>4. MindTypeOK'
      BY <3>1 DEF UnfreezeTasks, TypeInv, MindTypeOK
    <3>5. QED
      BY <3>3, <3>4, SameS, SameNet, SameHist DEF UnfreezeTasks, TypeInv, StepOK, QStep
  <2>4. CASE ~(t \in tasks /\ skip)
    <3>1. freezer' = RemoveAt(freezer, f.pos) /\ Continue(th, frames)
      BY <1>5, <2>4 DEF UnfreezeTasks
    <3>2. freezer' \in Seq(Task)
      BY <1>3, <2>1, <3>1, RemoveAtFacts
    <3>3. CallDispatch(t, FALSE) \in Call
      BY <2>2, CallDispatchIsCall
    <3>4. frames \in Seq(Call)
      <4>1. <<CallDispatch(t, FALSE), f>> \in Seq(Call) /\ <<f>> \in Seq(Call)
        BY <1>2, <3>3, TupleIsSeq
      <4>2. QED
        BY <4>1
    <3> HIDE DEF frames
    <3>5. stack' \in [Thread -> Seq(Call)]
      BY <1>1, <3>1, <3>4, ContinueKeepsStack
    <3>6. MindTypeOK'
      BY <3>2 DEF UnfreezeTasks, TypeInv, MindTypeOK
    <3>7. QED
      BY <3>5, <3>6, SameS, SameNet, SameHist DEF UnfreezeTasks, TypeInv, StepOK, QStep
  <2>5. QED
    BY <2>3, <2>4
<1>6. QED
  BY <1>4, <1>5

-----------------------------------------------------------------------------
(***************************************************************************)
(* The steps of a thread: adding, dispatching and removing a task.         *)
(***************************************************************************)
LEMMA NewETaskIsETask == NewETask \in ETaskType
BY DEF NewETask, ETaskType

LEMMA AddTaskOK ==
  ASSUME TypeInv, NEW th \in Thread, AddTask(th) PROVE StepOK
<1> DEFINE t == Top(th).task
<1>1. At(th, "addTask")
  BY DEF AddTask
<1>2. t \in Task
  BY <1>1, TopIsCall DEF Call, CallOK, TaskOps
<1>3. <<CallUnfreeze(NoType, NoType)>> \in Seq(Call) /\ <<CallDispatch(t, TRUE)>> \in Seq(Call)
  <2>1. CallUnfreeze(NoType, NoType) \in Call /\ CallDispatch(t, TRUE) \in Call
    BY <1>2, CallUnfreezeIsCall, CallDispatchIsCall
  <2>2. QED
    BY <2>1, TupleIsSeq
<1>4. stack' \in [Thread -> Seq(Call)]
  BY <1>1, <1>3, ContinueKeepsStack DEF AddTask
<1>5. MindTypeOK'
  BY <1>2 DEF AddTask, TypeInv, MindTypeOK
<1>6. requests' \in [Task -> Nat]
  BY <1>2 DEF AddTask, TypeInv
<1>7. QED
  BY <1>4, <1>5, <1>6, SameS, SameNet DEF AddTask, TypeInv, StepOK, QStep

LEMMA DispatchTaskOK ==
  ASSUME TypeInv, NEW th \in Thread, DispatchTask(th) PROVE StepOK
<1> DEFINE f == Top(th)
<1>1. At(th, "dispatchTask")
  BY DEF DispatchTask
<1>2. f \in Call /\ f.op = "dispatchTask"
  BY <1>1, TopIsCall
<1>3. <<[f EXCEPT !.op = "getNextExecutor"]>> \in Seq(Call)
  <2>1. [f EXCEPT !.op = "getNextExecutor"] \in Call
    BY <1>2, MovedIsCall
  <2>2. QED
    BY <2>1, TupleIsSeq
<1>4. stack' \in [Thread -> Seq(Call)]
  BY <1>1, <1>3, ContinueKeepsStack, ReturnKeepsStack DEF DispatchTask
<1>5. freezer' \in Seq(Task)
  BY RemoveFirstIsSeq DEF DispatchTask, TypeInv, MindTypeOK
<1>6. MindTypeOK'
  BY <1>5 DEF DispatchTask, TypeInv, MindTypeOK
<1>7. QED
  BY <1>4, <1>6, SameS, SameNet, SameHist DEF DispatchTask, TypeInv, StepOK, QStep

LEMMA DispatchFailedIsCall == ASSUME NEW t \in Task PROVE DispatchFailed(t) \in Call
BY CallFreezeIsCall, CallTaskIsCall DEF DispatchFailed

LEMMA DispatchToAreCalls ==
  ASSUME NEW t \in Task, NEW y \in Type, NEW defroze \in BOOLEAN
  PROVE  DispatchTo(t, y, defroze) \in Seq(Call)
<1>1. /\ CallPush(t, y, FALSE) \in Call
      /\ CallFill(y, defroze) \in Call
      /\ CallFreeze(t, y, TRUE) \in Call
      /\ CallTask("removeTask", t) \in Call
  BY CallPushIsCall, CallFillIsCall, CallFreezeIsCall, CallTaskIsCall
<1>2. /\ <<CallPush(t, y, FALSE), CallFill(y, defroze)>> \in Seq(Call)
      /\ <<CallFreeze(t, y, TRUE)>> \in Seq(Call)
      /\ <<CallTask("removeTask", t)>> \in Seq(Call)
  BY <1>1, TupleIsSeq
<1>3. QED
  BY <1>2 DEF DispatchTo

LEMMA GetNextExecutorOK ==
  ASSUME TypeInv, NEW th \in Thread, GetNextExecutor(th) PROVE StepOK
<1> DEFINE f == Top(th)
           t == f.task
           done == Len(etask[t].path)
           next(y) == [etask EXCEPT ![t].type = y]
<1>1. At(th, "getNextExecutor")
  BY DEF GetNextExecutor
<1>2. t \in Task /\ f.flag \in BOOLEAN
  BY <1>1, TopIsCall, CallFields DEF CallOK, TaskOps
<1>3. /\ etask[t] \in ETaskType
      /\ Chain[t] \in Seq(Type)
      /\ done \in Nat
  <2>1. etask[t] \in ETaskType
    BY <1>2 DEF TypeInv, MindTypeOK
  <2>2. etask[t].path \in Seq(Type)
    BY <2>1 DEF ETaskType
  <2>3. QED
    BY <1>2, <2>1, <2>2, LenProperties, DispatcherAssumption
<1>4. ASSUME NEW y \in Type \cup {NoType} PROVE next(y) \in [Task -> ETaskType]
  <2>1. [etask[t] EXCEPT !.type = y] \in ETaskType
    BY <1>3 DEF ETaskType
  <2>2. QED
    BY <2>1 DEF TypeInv, MindTypeOK
<1> HIDE DEF next
<1>5. \/ Continue(th, <<DispatchFailed(t)>>) /\ UNCHANGED etask
      \/ Continue(th, <<CallTask("removeTask", t)>>) /\ etask' = next(NoType)
      \/ /\ done < Len(Chain[t])
         /\ etask' = next(Chain[t][done + 1])
         /\ Continue(th, DispatchTo(t, Chain[t][done + 1], f.flag))
  BY DEF GetNextExecutor, next
<1>6. stack' \in [Thread -> Seq(Call)] /\ etask' \in [Task -> ETaskType]
  <2>1. CASE Continue(th, <<DispatchFailed(t)>>) /\ UNCHANGED etask
    <3>1. <<DispatchFailed(t)>> \in Seq(Call)
      BY <1>2, DispatchFailedIsCall
    <3>2. QED
      BY <1>1, <2>1, <3>1, ContinueKeepsStack DEF TypeInv, MindTypeOK
  <2>2. CASE Continue(th, <<CallTask("removeTask", t)>>) /\ etask' = next(NoType)
    <3>1. <<CallTask("removeTask", t)>> \in Seq(Call)
      BY <1>2, CallTaskIsCall
    <3>2. QED
      BY <1>1, <1>4, <2>2, <3>1, ContinueKeepsStack
  <2>3. CASE /\ done < Len(Chain[t])
             /\ etask' = next(Chain[t][done + 1])
             /\ Continue(th, DispatchTo(t, Chain[t][done + 1], f.flag))
    <3>1. Chain[t][done + 1] \in Type
      BY <1>3, <2>3, ElementOfSeq, LenProperties
    <3>2. DispatchTo(t, Chain[t][done + 1], f.flag) \in Seq(Call)
      BY <1>2, <3>1, DispatchToAreCalls
    <3>3. QED
      BY <1>1, <1>4, <2>3, <3>1, <3>2, ContinueKeepsStack
  <2>4. QED
    BY <1>5, <2>1, <2>2, <2>3
<1>7. MindTypeOK'
  BY <1>6 DEF GetNextExecutor, TypeInv, MindTypeOK
<1>8. QED
  BY <1>6, <1>7, SameS, SameNet, SameHist DEF GetNextExecutor, TypeInv, StepOK, QStep

LEMMA PushTaskStepOK ==
  ASSUME TypeInv, NEW th \in Thread, PushTaskStep(th) PROVE StepOK
<1> DEFINE f == Top(th)
<1>1. At(th, "pushTask")
  BY DEF PushTaskStep
<1>2. f.task \in Task /\ f.type \in Type /\ f.flag \in BOOLEAN
  BY <1>1, TopIsCall, CallFields DEF CallOK, TaskOps, TypeOps
<1>3. PushTask(f.task, f.type, f.flag)
  BY DEF PushTaskStep
<1> HIDE DEF f
<1>4. QStep
  BY <1>2, <1>3 DEF QStep, QNext, Push
<1>5. stack' \in [Thread -> Seq(Call)]
  BY <1>1, ReturnKeepsStack DEF PushTaskStep
<1>6. QED
  BY <1>4, <1>5, SameS, SameMind, SameNet, SameHist DEF PushTaskStep, TypeInv, StepOK

LEMMA RemoveTaskOK ==
  ASSUME TypeInv, NEW th \in Thread, RemoveTask(th) PROVE StepOK
<1> DEFINE t == Top(th).task
           clean == <<CallTask("removeQueued", t), CallTask("removeRunning", t),
                      CallTask("removeFrozen", t)>>
           fill == IF taskInExec[t] = NoExec THEN <<>>
                   ELSE <<CallExec("sendIfIdle", taskInExec[t])>>
<1>1. At(th, "removeTask")
  BY DEF RemoveTask
<1>2. t \in Task
  BY <1>1, TopIsCall DEF Call, CallOK, TaskOps
<1>3. clean \o fill \in Seq(Call)
  <2>1. clean \in Seq(Call)
    BY <1>2, CallTaskIsCall
  <2>2. taskInExec[t] \in Exec \cup {NoExec}
    BY <1>2 DEF TypeInv, STypeOK
  <2>3. taskInExec[t] # NoExec => CallExec("sendIfIdle", taskInExec[t]) \in Call
    BY <2>2, CallExecIsCall
  <2>4. fill \in Seq(Call)
    BY <2>3
  <2> HIDE DEF clean, fill
  <2>5. QED
    BY <2>1, <2>4, ConcatProperties
<1>4. CASE t \in tasks
  <2>1. /\ tasks' = tasks \ {t}
        /\ etask' = [etask EXCEPT ![t] = NewETask]
        /\ Continue(th, clean \o fill)
    BY <1>4 DEF RemoveTask
  <2> HIDE DEF clean, fill
  <2>2. stack' \in [Thread -> Seq(Call)]
    BY <1>1, <1>3, <2>1, ContinueKeepsStack
  <2>3. MindTypeOK'
    BY <1>2, <2>1, NewETaskIsETask DEF RemoveTask, TypeInv, MindTypeOK
  <2>4. QED
    BY <2>2, <2>3, SameS, SameNet, SameHist DEF RemoveTask, TypeInv, StepOK, QStep
<1>5. CASE t \notin tasks
  <2>1. UNCHANGED <<tasks, etask>> /\ Return(th)
    BY <1>5 DEF RemoveTask
  <2>2. MindTypeOK'
    BY <2>1 DEF RemoveTask, TypeInv, MindTypeOK
  <2>3. QED
    BY <1>1, <2>1, <2>2, ReturnKeepsStack, SameS, SameNet, SameHist
       DEF RemoveTask, TypeInv, StepOK, QStep
<1>6. QED
  BY <1>4, <1>5

LEMMA RemoveQueuedOK ==
  ASSUME TypeInv, NEW th \in Thread, RemoveQueued(th) PROVE StepOK
<1> DEFINE t == Top(th).task
<1>1. At(th, "removeQueued")
  BY DEF RemoveQueued
<1>2. t \in Task /\ DeleteTask(t)
  BY <1>1, TopIsCall DEF RemoveQueued, Call, CallOK, TaskOps
<1> HIDE DEF t
<1>3. QStep
  BY <1>2 DEF QStep, QNext
<1>4. stack' \in [Thread -> Seq(Call)]
  BY <1>1, ReturnKeepsStack DEF RemoveQueued
<1>5. QED
  BY <1>3, <1>4, SameS, SameMind, SameNet, SameHist DEF RemoveQueued, TypeInv, StepOK

LEMMA RemoveRunningOK ==
  ASSUME TypeInv, NEW th \in Thread, RemoveRunning(th) PROVE StepOK
<1>1. At(th, "removeRunning")
  BY DEF RemoveRunning
<1>2. Top(th).task \in Task /\ Top(th).loop \in Type \cup {NoType}
  BY <1>1, TopIsCall, CallFields DEF CallOK, TaskOps
<1>3. STypeOK'
  BY <1>2, StateRemoveTaskKeepsTypes DEF RemoveRunning, TypeInv
<1>4. stack' \in [Thread -> Seq(Call)]
  BY <1>1, <1>2, AgainAreCalls, ContinueKeepsStack DEF RemoveRunning
<1>5. QED
  BY <1>3, <1>4, SameMind, SameNet, SameHist DEF RemoveRunning, TypeInv, StepOK, QStep

LEMMA RemoveFrozenOK ==
  ASSUME TypeInv, NEW th \in Thread, RemoveFrozen(th) PROVE StepOK
<1>1. At(th, "removeFrozen")
  BY DEF RemoveFrozen
<1>2. stack' \in [Thread -> Seq(Call)]
  BY <1>1, ReturnKeepsStack DEF RemoveFrozen
<1>3. freezer' \in Seq(Task)
  BY RemoveFirstIsSeq DEF RemoveFrozen, TypeInv, MindTypeOK
<1>4. MindTypeOK'
  BY <1>3 DEF RemoveFrozen, TypeInv, MindTypeOK
<1>5. QED
  BY <1>2, <1>4, SameS, SameNet, SameHist DEF RemoveFrozen, TypeInv, StepOK, QStep

-----------------------------------------------------------------------------
(***************************************************************************)
(* The steps of a thread: sending a task to an executor.                   *)
(***************************************************************************)
LEMMA IdleExecutorsAreExecutors ==
  ASSUME STypeOK, NEW y \in Type PROVE IdleExecutors(y) \subseteq Exec
BY DEF IdleExecutors, STypeOK

LEMMA FillLoopOK ==
  ASSUME TypeInv, NEW th \in Thread, FillLoop(th) PROVE StepOK
<1> DEFINE y == Top(th).type
<1>1. At(th, "fillLoop")
  BY DEF FillLoop
<1>2. y \in Type
  BY <1>1, TopIsCall DEF Call, CallOK, TypeOps
<1>3. stack' \in [Thread -> Seq(Call)]
  <2>1. CASE Return(th)
    BY <1>1, <2>1, ReturnKeepsStack
  <2>2. ASSUME NEW e \in IdleExecutors(y), Continue(th, <<[CallSend(e, y) EXCEPT !.loop = y]>>)
        PROVE  stack' \in [Thread -> Seq(Call)]
    <3>1. e \in Exec
      BY <1>2, IdleExecutorsAreExecutors DEF TypeInv
    <3>2. [CallSend(e, y) EXCEPT !.loop = y] \in Call
      BY <1>2, <3>1, CallSendIsCall
    <3>3. <<[CallSend(e, y) EXCEPT !.loop = y]>> \in Seq(Call)
      BY <3>2, TupleIsSeq
    <3>4. QED
      BY <1>1, <2>2, <3>3, ContinueKeepsStack
  <2>3. QED
    BY <2>1, <2>2 DEF FillLoop
<1>4. QED
  BY <1>3, SameS, SameMind, SameNet, SameHist DEF FillLoop, TypeInv, StepOK, QStep

LEMMA FillAllOK ==
  ASSUME TypeInv, NEW th \in Thread, FillAll(th) PROVE StepOK
<1> DEFINE f == Top(th)
           size == IF f.pos = 0 THEN Len(execTypes) ELSE f.size
           call == CallFill(execTypes[f.pos + 1], TRUE)
           next == [f EXCEPT !.pos = @ + 1, !.size = size]
<1>1. At(th, "fillAll")
  BY DEF FillAll
<1>2. f \in Call /\ f.op = "fillAll" /\ f.pos \in Nat /\ f.size \in Nat /\ f.pos <= f.size
  BY <1>1, TopIsCall, CallFields DEF CallOK
<1>3. execTypes \in Seq(Type) /\ Len(execTypes) \in Nat
  BY LenProperties DEF TypeInv, MindTypeOK
<1>4. size \in Nat /\ f.pos <= size
  BY <1>2, <1>3
<1>5. stack' \in [Thread -> Seq(Call)]
  <2>1. CASE f.pos = size \/ size # Len(execTypes)
    <3>1. Return(th)
      BY <2>1 DEF FillAll, Return
    <3>2. QED
      BY <1>1, <3>1, ReturnKeepsStack
  <2>2. CASE ~(f.pos = size \/ size # Len(execTypes))
    <3>1. Continue(th, <<call, next>>)
      BY <2>2 DEF FillAll
    <3>2. f.pos + 1 \in 1 .. Len(execTypes) /\ f.pos + 1 <= size
      BY <1>2, <1>3, <1>4, <2>2
    <3>3. execTypes[f.pos + 1] \in Type
      BY <1>3, <3>2, ElementOfSeq
    <3>4. call \in Call
      BY <3>3, CallFillIsCall
    <3> HIDE DEF size, call
    <3>5. next \in Call
      BY <1>2, <1>4, <3>2, NextKeyIsCall
    <3> HIDE DEF next
    <3>6. <<call, next>> \in Seq(Call)
      BY <3>4, <3>5, TupleIsSeq
    <3>7. QED
      BY <1>1, <3>1, <3>6, ContinueKeepsStack
  <2>3. QED
    BY <2>1, <2>2
<1>6. QED
  BY <1>5, SameS, SameMind, SameNet, SameHist DEF FillAll, TypeInv, StepOK, QStep

LEMMA SendOK ==
  ASSUME TypeInv, NEW th \in Thread, Send(th) PROVE StepOK
<1> DEFINE f == Top(th)
           handOver(y) == [f EXCEPT !.op = "handOver", !.type = y, !.task = Head(queues[y])]
<1>1. At(th, "send")
  BY DEF Send
<1>2. f \in Call /\ f.op = "send" /\ f.loop \in Type \cup {NoType}
  BY <1>1, TopIsCall, CallFields
<1>3. QStep /\ stack' \in [Thread -> Seq(Call)]
  <2>1. CASE Continue(th, Again(f.loop)) /\ UNCHANGED qvars
    BY <1>1, <1>2, <2>1, AgainAreCalls, ContinueKeepsStack DEF QStep
  <2>2. CASE Return(th) /\ UNCHANGED qvars
    BY <1>1, <2>2, ReturnKeepsStack DEF QStep
  <2>3. ASSUME NEW y \in Type, PopTask(y), Continue(th, <<handOver(y)>>)
        PROVE  QStep /\ stack' \in [Thread -> Seq(Call)]
    <3>1. Head(queues[y]) \in Task
      BY <2>3, HeadTailProperties DEF PopTask, TypeInv, QInv, QTypeOK
    <3>2. handOver(y) \in Call
      BY <1>2, <3>1, HandOverIsCall
    <3>3. <<handOver(y)>> \in Seq(Call)
      BY <3>2, TupleIsSeq
    <3> HIDE DEF handOver
    <3>4. stack' \in [Thread -> Seq(Call)]
      BY <1>1, <2>3, <3>3, ContinueKeepsStack
    <3>5. QED
      BY <2>3, <3>4 DEF QStep, QNext
  <2>4. QED
    BY <2>1, <2>2, <2>3 DEF Send
<1>4. QED
  BY <1>3, SameS, SameMind, SameNet, SameHist DEF Send, TypeInv, StepOK

LEMMA SendIfIdleOK ==
  ASSUME TypeInv, NEW th \in Thread, SendIfIdle(th) PROVE StepOK
<1> DEFINE e == Top(th).exec
<1>1. At(th, "sendIfIdle")
  BY DEF SendIfIdle
<1>2. e \in Exec
  BY <1>1, TopIsCall DEF Call, CallOK, ExecOps
<1>3. CallSend(e, NoType) \in Call
  BY <1>2, CallSendIsCall
<1>4. <<CallSend(e, NoType)>> \in Seq(Call) /\ <<>> \in Seq(Call)
  BY <1>3, TupleIsSeq
<1>5. stack' \in [Thread -> Seq(Call)]
  BY <1>1, <1>4, ContinueKeepsStack DEF SendIfIdle
<1>6. QED
  BY <1>5, SameS, SameMind, SameNet, SameHist DEF SendIfIdle, TypeInv, StepOK, QStep

LEMMA HandOverOK ==
  ASSUME TypeInv, NEW th \in Thread, HandOver(th) PROVE StepOK
<1> DEFINE f == Top(th)
<1>1. At(th, "handOver")
  BY DEF HandOver
<1>2. f \in Call /\ f.op = "handOver" /\ f.exec \in Exec /\ f.task \in Task
  BY <1>1, TopIsCall, CallFields DEF CallOK, ExecOps, TaskOps
<1>3. [f EXCEPT !.op = "message"] \in Call
  BY <1>2, MovedIsCall
<1>4. <<[f EXCEPT !.op = "message"]>> \in Seq(Call)
  BY <1>3, TupleIsSeq
<1>5. stack' \in [Thread -> Seq(Call)]
  BY <1>1, <1>4, ContinueKeepsStack DEF HandOver
<1>6. STypeOK'
  BY <1>2, StateAddTaskKeepsTypes DEF HandOver, TypeInv
<1>7. QED
  BY <1>5, <1>6, SameMind, SameNet, SameHist DEF HandOver, TypeInv, StepOK, QStep

LEMMA MessageOK ==
  ASSUME TypeInv, NEW th \in Thread, Message(th) PROVE StepOK
<1> DEFINE f == Top(th)
           e == f.exec
           t == f.task
           w == [task |-> t, type |-> f.type]
           undo == [CallTask("removeRunning", t) EXCEPT !.loop = f.loop]
           push == CallPush(t, f.type, FALSE)
<1>1. At(th, "message")
  BY DEF Message
<1>2. /\ e \in Exec /\ t \in Task /\ f.type \in Type
      /\ f.loop \in Type \cup {NoType}
  BY <1>1, TopIsCall, CallFields DEF CallOK, ExecOps, TaskOps, TypeOps
<1>3. w \in WorkType
  BY <1>2 DEF TypeInv, WorkType
<1>4. undo \in Call /\ push \in Call
  BY <1>2, UndoIsCall, CallPushIsCall
<1>5. /\ <<undo>> \in Seq(Call)
      /\ <<push, undo>> \in Seq(Call)
      /\ Again(f.loop) \in Seq(Call)
  <2> HIDE DEF undo, push
  <2>1. QED
    BY <1>2, <1>4, TupleIsSeq, AgainAreCalls
<1>6. /\ \/ Continue(th, <<undo>>)
         \/ Continue(th, Again(f.loop))
         \/ Continue(th, <<push, undo>>)
      /\ UNCHANGED work \/ work' = [work EXCEPT ![e] = Append(@, w)]
  BY DEF Message
<1>7. stack' \in [Thread -> Seq(Call)]
  <2> HIDE DEF undo, push, f
  <2>1. QED
    BY <1>1, <1>5, <1>6, ContinueKeepsStack
<1>8. work' \in [Exec -> Seq(WorkType)]
  <2>1. work \in [Exec -> Seq(WorkType)]
    BY DEF TypeInv, NetTypeOK
  <2> HIDE DEF e, w
  <2>2. Append(work[e], w) \in Seq(WorkType)
    BY <1>2, <1>3, <2>1, AppendProperties
  <2>3. QED
    BY <1>6, <2>1, <2>2
<1>9. NetTypeOK'
  BY <1>8 DEF Message, TypeInv, NetTypeOK
<1>10. QED
  BY <1>7, <1>9, SameS, SameMind, SameHist DEF Message, TypeInv, StepOK, QStep

-----------------------------------------------------------------------------
(***************************************************************************)
(* The steps of a thread: an executor returns a task.                      *)
(***************************************************************************)
LEMMA TaskReceivedOK ==
  ASSUME TypeInv, NEW th \in Thread, TaskReceived(th) PROVE StepOK
<1> DEFINE f == Top(th)
           e == f.exec
           t == f.task
           next == [f EXCEPT !.op = "taskReturned", !.type = etask[t].type]
<1>1. At(th, "taskReceived")
  BY DEF TaskReceived
<1>2. f \in Call /\ f.op = "taskReceived" /\ e \in Exec /\ t \in Task
  BY <1>1, TopIsCall, CallFields DEF CallOK, ExecOps, TaskOps
<1>3. STypeOK'
  BY <1>2, StateRemoveTaskFromKeepsTypes, SameS DEF TaskReceived, TypeInv
<1>4. next \in Call /\ CallSend(e, NoType) \in Call
  <2>1. etask[t].type \in Type \cup {NoType}
    BY <1>2 DEF TypeInv, MindTypeOK, ETaskType
  <2>2. QED
    BY <1>2, <2>1, TaskReturnedIsCall, CallSendIsCall
<1>5. \/ Continue(th, <<next>>)
      \/ Continue(th, <<CallSend(e, NoType)>>)
      \/ Return(th)
  BY DEF TaskReceived
<1>6. <<next>> \in Seq(Call) /\ <<CallSend(e, NoType)>> \in Seq(Call)
  <2> HIDE DEF next
  <2>1. QED
    BY <1>4, TupleIsSeq
<1>7. stack' \in [Thread -> Seq(Call)]
  <2> HIDE DEF next, e
  <2>1. QED
    BY <1>1, <1>5, <1>6, ContinueKeepsStack, ReturnKeepsStack
<1>8. QED
  BY <1>3, <1>7, SameMind, SameNet, SameHist DEF TaskReceived, TypeInv, StepOK, QStep

LEMMA SaveFailedAreCalls ==
  ASSUME NEW f \in Call, f.exec \in Exec, f.task \in Task
  PROVE  SaveFailed(f) \in Seq(Call)
<1>1. CallSend(f.exec, NoType) \in Call /\ CallTask("removeTask", f.task) \in Call
  BY CallSendIsCall, CallTaskIsCall
<1>2. /\ <<CallSend(f.exec, NoType)>> \in Seq(Call)
      /\ <<CallTask("removeTask", f.task)>> \in Seq(Call)
      /\ <<>> \in Seq(Call)
  BY <1>1, TupleIsSeq
<1>3. QED
  BY <1>2, ConcatProperties DEF SaveFailed

LEMMA TaskReturnedOK ==
  ASSUME TypeInv, NEW th \in Thread, TaskReturned(th) PROVE StepOK
<1> DEFINE f == Top(th)
           e == f.exec
           drop == <<CallExec("removeExecutor", e), CallDispatch(f.task, TRUE)>>
           store == <<[f EXCEPT !.op = "storeTask"]>>
<1>1. At(th, "taskReturned")
  BY DEF TaskReturned
<1>2. f \in Call /\ f.op = "taskReturned" /\ e \in Exec /\ f.task \in Task
  BY <1>1, TopIsCall, CallFields DEF CallOK, ExecOps, TaskOps
<1>3. CASE Abort(th, e)
  <2>1. MindTypeOK'
    BY <1>2, <1>3, AbortKeepsTypes DEF TaskReturned, TypeInv, MindTypeOK
  <2>2. QED
    BY <1>2, <1>3, <2>1, AbortKeepsTypes, SameS, SameHist
       DEF TaskReturned, TypeInv, StepOK, QStep
<1>4. ASSUME NEW frames \in Seq(Call), Continue(th, frames), UNCHANGED <<execLock, netvars>>
      PROVE  StepOK
  <2>1. stack' \in [Thread -> Seq(Call)]
    BY <1>1, <1>4, ContinueKeepsStack
  <2>2. MindTypeOK'
    BY <1>4 DEF TaskReturned, TypeInv, MindTypeOK
  <2>3. QED
    BY <1>4, <2>1, <2>2, SameS, SameNet, SameHist DEF TaskReturned, TypeInv, StepOK, QStep
<1>5. drop \in Seq(Call)
  <2>1. CallExec("removeExecutor", e) \in Call /\ CallDispatch(f.task, TRUE) \in Call
    BY <1>2, CallExecIsCall, CallDispatchIsCall
  <2>2. QED
    BY <2>1, TupleIsSeq
<1>6. SaveFailed(f) \in Seq(Call)
  BY <1>2, SaveFailedAreCalls
<1>7. ASSUME f.type \in TypesOf(e) PROVE store \in Seq(Call)
  <2>1. f.type \in Type
    BY <1>2, <1>7, StateAssumption, ElementOfSeq, LenProperties DEF TypesOf
  <2>2. [f EXCEPT !.op = "storeTask"] \in Call
    BY <1>2, <2>1, MovedIsCall
  <2>3. QED
    BY <2>2, TupleIsSeq
<1>8. \/ Abort(th, e)
      \/ Continue(th, drop) /\ UNCHANGED <<execLock, netvars>>
      \/ f.type \in TypesOf(e) /\ Continue(th, store) /\ UNCHANGED <<execLock, netvars>>
      \/ Continue(th, SaveFailed(f)) /\ UNCHANGED <<execLock, netvars>>
  BY DEF TaskReturned
<1>9. QED
  <2> HIDE DEF f, e, drop, store
  <2>1. QED
    BY <1>3, <1>4, <1>5, <1>6, <1>7, <1>8

LEMMA StoreTaskOK ==
  ASSUME TypeInv, NEW th \in Thread, StoreTask(th) PROVE StepOK
<1> DEFINE f == Top(th)
           t == f.task
           fill == CallSend(f.exec, f.type)
           dispatch == CallDispatch(t, TRUE)
           freeze == CallFreeze(t, f.type, FALSE)
           stored == [etask[t] EXCEPT !.path = Append(@, f.type)]
<1>1. At(th, "storeTask")
  BY DEF StoreTask
<1>2. /\ f \in Call
      /\ f.exec \in Exec /\ t \in Task /\ f.type \in Type
  BY <1>1, TopIsCall, CallFields DEF CallOK, ExecOps, TaskOps, TypeOps
<1>3. fill \in Call /\ dispatch \in Call /\ freeze \in Call
  BY <1>2, CallSendIsCall, CallDispatchIsCall, CallFreezeIsCall
<1>4. stored \in ETaskType
  <2>1. etask[t] \in ETaskType
    BY <1>2 DEF TypeInv, MindTypeOK
  <2>2. Append(etask[t].path, f.type) \in Seq(Type)
    BY <1>2, <2>1, AppendProperties DEF ETaskType
  <2>3. QED
    BY <2>1, <2>2 DEF ETaskType
<1>5. /\ UNCHANGED etask \/ etask' = [etask EXCEPT ![t] = stored]
      /\ \/ Continue(th, <<fill>>)
         \/ Continue(th, <<dispatch, fill>>)
         \/ Continue(th, <<freeze, fill>>)
  BY DEF StoreTask
<1>6. etask' \in [Task -> ETaskType]
  <2> HIDE DEF stored, t
  <2>1. QED
    BY <1>2, <1>4, <1>5 DEF TypeInv, MindTypeOK
<1>7. MindTypeOK'
  BY <1>6 DEF StoreTask, TypeInv, MindTypeOK
<1>8. stack' \in [Thread -> Seq(Call)]
  <2> HIDE DEF fill, dispatch, freeze
  <2>1. <<fill>> \in Seq(Call) /\ <<dispatch, fill>> \in Seq(Call) /\ <<freeze, fill>> \in Seq(Call)
    BY <1>3, TupleIsSeq
  <2>2. QED
    BY <1>1, <1>5, <2>1, ContinueKeepsStack
<1>9. QED
  BY <1>7, <1>8, SameS, SameNet, SameHist DEF StoreTask, TypeInv, StepOK, QStep

-----------------------------------------------------------------------------
(***************************************************************************)
(* Every step.                                                             *)
(***************************************************************************)
LEMMA ThreadStepOK ==
  ASSUME TypeInv, NEW th \in Thread, ThreadStep(th) PROVE StepOK
BY AddExecutorOK, AnnounceTypesOK, RemoveExecutorOK, DropStateOK, RequeueOK, DisconnectClientOK,
   FreezeTaskOK, UnfreezeTasksOK, AddTaskOK, DispatchTaskOK, GetNextExecutorOK, PushTaskStepOK,
   RemoveTaskOK, RemoveQueuedOK, RemoveRunningOK, RemoveFrozenOK, FillLoopOK, FillAllOK,
   SendOK, SendIfIdleOK, HandOverOK, MessageOK, TaskReceivedOK, TaskReturnedOK, StoreTaskOK
   DEF ThreadStep

LEMMA NextOK == ASSUME TypeInv, Next PROVE StepOK
BY ConnectOK, DisconnectOK, HandleDropOK, HandleReplyOK, RequestOK, PeriodicOK, RipenOK,
   ThreadStepOK DEF Next

LEMMA InitTypeInv == Init => TypeInv
<1> SUFFICES ASSUME Init PROVE TypeInv
  OBVIOUS
<1>1. QInv
  BY InitQInv DEF Init
<1>2. STypeOK
  BY DEF Init, SInit, STypeOK
<1>3. MindTypeOK
  BY NewETaskIsETask DEF Init, MindTypeOK
<1>4. stack \in [Thread -> Seq(Call)]
  BY DEF Init
<1>5. NetTypeOK
  BY DEF Init, NetTypeOK
<1>6. QED
  BY <1>1, <1>2, <1>3, <1>4, <1>5 DEF Init, TypeInv

LEMMA NextKeepsTypeInv == TypeInv /\ [Next]_vars => TypeInv'
<1> SUFFICES ASSUME TypeInv, [Next]_vars PROVE TypeInv'
  OBVIOUS
<1>1. CASE Next
  BY <1>1, NextOK, StepOKKeepsTypeInv
<1>2. CASE UNCHANGED vars
  <2>1. StepOK
    BY <1>2, SameS, SameMind, SameNet, SameHist DEF vars, TypeInv, StepOK, QStep
  <2>2. QED
    BY <2>1, StepOKKeepsTypeInv
<1>3. QED
  BY <1>1, <1>2

LEMMA SpecTypeInv == Spec => []TypeInv
<1>1. QED
  BY InitTypeInv, NextKeepsTypeInv, PTL DEF Spec

(***************************************************************************)
(* The type invariant of the executor mind holds, whatever the number of   *)
(* tasks, types, executors and threads, and whatever goes wrong.           *)
(***************************************************************************)
THEOREM TypesAreCorrect == Spec => []TypeOK
<1>1. TypeInv => TypeOK
  <2> SUFFICES ASSUME TypeInv PROVE TypeOK
    OBVIOUS
  <2>1. Call \subseteq FrameType
    BY DEF Call
  <2>2. \A s \in Seq(Call) : s \in Seq(FrameType)
    BY <2>1, SeqMonotonic
  <2>3. stack \in [Thread -> Seq(FrameType)]
    BY <2>2 DEF TypeInv
  <2>4. QED
    BY <2>3 DEF TypeInv, TypeOK, QInv
<1>2. QED
  BY <1>1, SpecTypeInv, PTL

(***************************************************************************)
(* With any number of threads in the middle of any handlers, the queues    *)
(* and the index to them agree: a task is never queued twice, and no stale *)
(* entry of the index keeps a task from being queued.                      *)
(***************************************************************************)
THEOREM MindQueuesAreConsistent == Spec => []QueueIndexConsistent
<1>1. TypeInv => QueueIndexConsistent
  BY DEF TypeInv, QInv
<1>2. QED
  BY <1>1, SpecTypeInv, PTL

(***************************************************************************)
(* The mind uses the queues only through pushTask, popTask and deleteTask. *)
(***************************************************************************)
THEOREM MindUsesQueues == Spec => QSpec
<1>1. Init => QInit
  BY DEF Init
<1>2. TypeInv /\ [Next]_vars => [QNext]_qvars
  <2> SUFFICES ASSUME TypeInv, [Next]_vars PROVE [QNext]_qvars
    OBVIOUS
  <2>1. CASE Next
    BY <2>1, NextOK DEF StepOK, QStep
  <2>2. CASE UNCHANGED vars
    BY <2>2 DEF vars
  <2>3. QED
    BY <2>1, <2>2
<1>3. QED
  BY <1>1, <1>2, SpecTypeInv, PTL DEF Spec, QSpec

(***************************************************************************)
(* With any number of threads in the middle of any handlers, tasks leave a *)
(* queue in the order in which they came.                                  *)
(***************************************************************************)
THEOREM MindKeepsOrder == Spec => OrderKept
<1>1. QED
  BY MindUsesQueues, QueuesKeepOrder

-----------------------------------------------------------------------------
(***************************************************************************)
(* The place of a task.                                                    *)
(***************************************************************************)

(***************************************************************************)
(* Frames of a sequence that are in a set.                                 *)
(***************************************************************************)
Has(s, S) == \E i \in DOMAIN s : s[i] \in S

AtMostOne(s, S) == \A i, j \in DOMAIN s : s[i] \in S /\ s[j] \in S => i = j

LEMMA HasNone == ASSUME NEW S PROVE ~Has(<<>>, S) /\ AtMostOne(<<>>, S)
BY DEF Has, AtMostOne

LEMMA HasSingle ==
  ASSUME NEW a, NEW S
  PROVE  (Has(<<a>>, S) <=> a \in S) /\ AtMostOne(<<a>>, S)
BY DEF Has, AtMostOne

LEMMA HasPair ==
  ASSUME NEW a, NEW b, NEW S
  PROVE  /\ Has(<<a, b>>, S) <=> a \in S \/ b \in S
         /\ ~(a \in S /\ b \in S) => AtMostOne(<<a, b>>, S)
BY DEF Has, AtMostOne

LEMMA HasTriple ==
  ASSUME NEW a, NEW b, NEW c, NEW S
  PROVE  /\ Has(<<a, b, c>>, S) <=> a \in S \/ b \in S \/ c \in S
         /\ a \notin S /\ b \notin S => AtMostOne(<<a, b, c>>, S)
         /\ ~(a \in S \/ b \in S \/ c \in S) => AtMostOne(<<a, b, c>>, S)
BY DEF Has, AtMostOne

LEMMA HasConcat ==
  ASSUME NEW T, NEW g \in Seq(T), NEW r \in Seq(T), NEW S
  PROVE  /\ Has(g \o r, S) <=> Has(g, S) \/ Has(r, S)
         /\ AtMostOne(g, S) /\ AtMostOne(r, S) /\ ~(Has(g, S) /\ Has(r, S))
              => AtMostOne(g \o r, S)
<1>1. /\ Len(g) \in Nat /\ Len(r) \in Nat
      /\ DOMAIN g = 1 .. Len(g) /\ DOMAIN r = 1 .. Len(r)
  BY LenProperties
<1>2. /\ g \o r \in Seq(T)
      /\ Len(g \o r) = Len(g) + Len(r)
      /\ \A k \in 1 .. Len(g) + Len(r) :
           (g \o r)[k] = IF k <= Len(g) THEN g[k] ELSE r[k - Len(g)]
  BY ConcatProperties
<1>3. DOMAIN (g \o r) = 1 .. Len(g) + Len(r)
  BY <1>2, LenProperties
<1> DEFINE h == g \o r
<1>4. \A i \in DOMAIN g : i \in DOMAIN h /\ h[i] = g[i]
  BY <1>1, <1>2, <1>3
<1>5. \A i \in DOMAIN r : Len(g) + i \in DOMAIN h /\ h[Len(g) + i] = r[i]
  <2> SUFFICES ASSUME NEW i \in DOMAIN r
               PROVE  Len(g) + i \in DOMAIN h /\ h[Len(g) + i] = r[i]
    OBVIOUS
  <2>1. i \in Nat /\ i >= 1 /\ i <= Len(r)
    BY <1>1
  <2>2. Len(g) + i \in 1 .. Len(g) + Len(r) /\ ~(Len(g) + i <= Len(g)) /\ Len(g) + i - Len(g) = i
    BY <2>1, <1>1
  <2>3. QED
    BY <2>2, <1>2, <1>3
<1>6. \A k \in DOMAIN h : \/ k \in DOMAIN g /\ h[k] = g[k]
                          \/ \E i \in DOMAIN r : k = Len(g) + i /\ h[k] = r[i]
  <2> SUFFICES ASSUME NEW k \in DOMAIN h
               PROVE  \/ k \in DOMAIN g /\ h[k] = g[k]
                      \/ \E i \in DOMAIN r : k = Len(g) + i /\ h[k] = r[i]
    OBVIOUS
  <2>1. k \in Nat /\ k >= 1 /\ k <= Len(g) + Len(r)
    BY <1>1, <1>3
  <2>2. CASE k <= Len(g)
    BY <2>1, <2>2, <1>1, <1>2, <1>3
  <2>3. CASE ~(k <= Len(g))
    <3>1. k - Len(g) \in DOMAIN r /\ k = Len(g) + (k - Len(g))
      BY <2>1, <2>3, <1>1
    <3>2. h[k] = r[k - Len(g)]
      BY <2>3, <1>2, <1>3
    <3>3. QED
      BY <3>1, <3>2
  <2>4. QED
    BY <2>2, <2>3
<1> HIDE DEF h
<1>7. Has(h, S) <=> Has(g, S) \/ Has(r, S)
  BY <1>4, <1>5, <1>6 DEF Has
<1>8. AtMostOne(g, S) /\ AtMostOne(r, S) /\ ~(Has(g, S) /\ Has(r, S)) => AtMostOne(h, S)
  BY <1>6 DEF Has, AtMostOne
<1>9. QED
  BY <1>7, <1>8 DEF h

LEMMA HasHeadTail ==
  ASSUME NEW T, NEW s \in Seq(T), s # <<>>, NEW S
  PROVE  /\ Has(s, S) <=> Head(s) \in S \/ Has(Tail(s), S)
         /\ AtMostOne(s, S) => /\ AtMostOne(Tail(s), S)
                               /\ Head(s) \in S => ~Has(Tail(s), S)
<1>1. /\ Len(s) \in Nat \ {0} /\ DOMAIN s = 1 .. Len(s)
      /\ Head(s) = s[1] /\ Tail(s) \in Seq(T) /\ Len(Tail(s)) = Len(s) - 1
      /\ \A i \in 1 .. Len(Tail(s)) : Tail(s)[i] = s[i + 1]
  BY HeadTailProperties, LenProperties, EmptySeq
<1>2. DOMAIN Tail(s) = 1 .. Len(s) - 1
  BY <1>1, LenProperties
<1> DEFINE r == Tail(s)
<1>3. \A i \in DOMAIN r : i + 1 \in DOMAIN s /\ s[i + 1] = r[i] /\ i + 1 # 1 /\ i \in Int
  BY <1>1, <1>2
<1>4. \A k \in DOMAIN s : k = 1 \/ \E i \in DOMAIN r : k = i + 1 /\ s[k] = r[i]
  <2> SUFFICES ASSUME NEW k \in DOMAIN s, k # 1
               PROVE  \E i \in DOMAIN r : k = i + 1 /\ s[k] = r[i]
    OBVIOUS
  <2>1. k - 1 \in DOMAIN r /\ k = (k - 1) + 1
    BY <1>1, <1>2
  <2>2. QED
    BY <2>1, <1>3
<1>5. 1 \in DOMAIN s
  BY <1>1
<1>6. \A i, j \in DOMAIN r : i + 1 = j + 1 => i = j
  BY <1>3
<1> HIDE DEF r
<1>7. Has(s, S) <=> Head(s) \in S \/ Has(r, S)
  BY <1>1, <1>3, <1>4, <1>5 DEF Has
<1>8. AtMostOne(s, S) => AtMostOne(r, S)
  BY <1>3, <1>6 DEF AtMostOne
<1>9. AtMostOne(s, S) /\ Head(s) \in S => ~Has(r, S)
  BY <1>1, <1>3, <1>5 DEF AtMostOne, Has
<1>10. QED
  BY <1>7, <1>8, <1>9 DEF r

(***************************************************************************)
(* Frames of the stacks q of all threads that are in a set.                *)
(***************************************************************************)
Somewhere(q, S) == \E th \in Thread : Has(q[th], S)

Sole(q, S) ==
    \A th, d \in Thread :
        /\ AtMostOne(q[th], S)
        /\ Has(q[th], S) /\ Has(q[d], S) => d = th

Stacks == [Thread -> Seq(Call)]

Swap(q, th, g) == [q EXCEPT ![th] = g \o Tail(q[th])]

\* A thread makes the calls g in place of the top of its stack.
LEMMA Replaced ==
  ASSUME NEW q \in Stacks, NEW th \in Thread, q[th] # <<>>, NEW g \in Seq(Call), NEW p,
         p = Swap(q, th, g), NEW S
  PROVE  /\ Head(q[th]) \in S => Somewhere(q, S)
         /\ Somewhere(p, S) => Somewhere(q, S) \/ Has(g, S)
         /\ Has(g, S) => Somewhere(p, S)
         /\ Somewhere(q, S) => Somewhere(p, S) \/ Head(q[th]) \in S
         /\ Sole(q, S) /\ AtMostOne(g, S) /\ (Has(g, S) => Head(q[th]) \in S \/ ~Somewhere(q, S))
              => Sole(p, S)
         /\ Sole(q, S) /\ Head(q[th]) \in S /\ ~Has(g, S) => ~Somewhere(p, S)
<1> DEFINE r == Tail(q[th])
           h == Head(q[th])
<1>1. q[th] \in Seq(Call) /\ r \in Seq(Call)
  BY HeadTailProperties DEF Stacks
<1>2. /\ Has(q[th], S) <=> h \in S \/ Has(r, S)
      /\ AtMostOne(q[th], S) => AtMostOne(r, S) /\ (h \in S => ~Has(r, S))
  BY <1>1, HasHeadTail
<1>3. /\ Has(g \o r, S) <=> Has(g, S) \/ Has(r, S)
      /\ AtMostOne(g, S) /\ AtMostOne(r, S) /\ ~(Has(g, S) /\ Has(r, S))
           => AtMostOne(g \o r, S)
  BY <1>1, HasConcat
<1>4. p[th] = g \o r /\ \A d \in Thread : d # th => p[d] = q[d]
  BY DEF Stacks, Swap
<1> HIDE DEF r, h
<1>5. /\ h \in S => Somewhere(q, S)
      /\ Somewhere(p, S) => Somewhere(q, S) \/ Has(g, S)
      /\ Has(g, S) => Somewhere(p, S)
      /\ Somewhere(q, S) => Somewhere(p, S) \/ h \in S
  BY <1>2, <1>3, <1>4 DEF Somewhere
<1>6. Sole(q, S) /\ AtMostOne(g, S) /\ (Has(g, S) => h \in S \/ ~Somewhere(q, S)) => Sole(p, S)
  BY <1>2, <1>3, <1>4 DEF Somewhere, Sole
<1>7. Sole(q, S) /\ h \in S /\ ~Has(g, S) => ~Somewhere(p, S)
  BY <1>2, <1>3, <1>4 DEF Somewhere, Sole
<1>8. QED
  BY <1>5, <1>6, <1>7 DEF h

\* When the top of the stack was the only one, the ones that are left are new.
LEMMA OnlyNew ==
  ASSUME NEW q \in Stacks, NEW th \in Thread, q[th] # <<>>, NEW g \in Seq(Call), NEW p,
         p = Swap(q, th, g), NEW S, Sole(q, S), Head(q[th]) \in S, NEW T, T \subseteq S,
         Somewhere(p, T)
  PROVE  Has(g, T)
<1> DEFINE r == Tail(q[th])
<1>1. q[th] \in Seq(Call) /\ r \in Seq(Call)
  BY HeadTailProperties DEF Stacks
<1>2. Has(q[th], S) /\ ~Has(r, S)
  BY <1>1, HasHeadTail DEF Sole
<1>3. Has(g \o r, T) <=> Has(g, T) \/ Has(r, T)
  BY <1>1, HasConcat
<1>4. p[th] = g \o r /\ \A d \in Thread : d # th => p[d] = q[d]
  BY DEF Stacks, Swap
<1>5. \A s : Has(s, T) => Has(s, S)
  BY DEF Has
<1> HIDE DEF r
<1>6. QED
  BY <1>2, <1>3, <1>4, <1>5 DEF Somewhere, Sole

\* An idle thread begins a handler.
LEMMA Begun ==
  ASSUME NEW q \in Stacks, NEW th \in Thread, q[th] = <<>>, NEW g \in Seq(Call), NEW p,
         p = [q EXCEPT ![th] = g], NEW S
  PROVE  /\ Somewhere(p, S) <=> Somewhere(q, S) \/ Has(g, S)
         /\ Sole(q, S) /\ AtMostOne(g, S) /\ ~(Has(g, S) /\ Somewhere(q, S)) => Sole(p, S)
<1>1. p[th] = g /\ \A d \in Thread : d # th => p[d] = q[d]
  BY DEF Stacks
<1>2. ~Has(q[th], S)
  BY HasNone
<1>3. QED
  BY <1>1, <1>2 DEF Somewhere, Sole

\* An exception ends one.
LEMMA Ended ==
  ASSUME NEW q \in Stacks, NEW th \in Thread, NEW p, p = [q EXCEPT ![th] = <<>>], NEW S
  PROVE  /\ Somewhere(p, S) => Somewhere(q, S)
         /\ Sole(q, S) => Sole(p, S)
         /\ Sole(q, S) /\ Has(q[th], S) => ~Somewhere(p, S)
<1>1. p[th] = <<>> /\ \A d \in Thread : d # th => p[d] = q[d]
  BY DEF Stacks
<1>2. ~Has(p[th], S) /\ AtMostOne(p[th], S)
  BY <1>1, HasNone
<1>3. QED
  BY <1>1, <1>2 DEF Somewhere, Sole

(***************************************************************************)
(* The fields of the frames the actions build.                             *)
(***************************************************************************)
LEMMA CallTaskFields ==
  ASSUME NEW op, NEW t
  PROVE  /\ CallTask(op, t).op = op
         /\ CallTask(op, t).task = t
         /\ CallTask(op, t).exec = NoExec
         /\ CallTask(op, t).loop = NoType
BY DEF CallTask, Frame

LEMMA CallExecFields ==
  ASSUME NEW op, NEW e
  PROVE  /\ CallExec(op, e).op = op
         /\ CallExec(op, e).exec = e
         /\ CallExec(op, e).task = NoTask
         /\ CallExec(op, e).loop = NoType
         /\ CallExec(op, e).type = NoType
BY DEF CallExec, Frame

LEMMA CallDispatchFields ==
  ASSUME NEW t, NEW defroze
  PROVE  /\ CallDispatch(t, defroze).op = "dispatchTask"
         /\ CallDispatch(t, defroze).task = t
         /\ CallDispatch(t, defroze).exec = NoExec
BY DEF CallDispatch, CallTask, Frame

LEMMA CallPushFields ==
  ASSUME NEW t, NEW y, NEW ahead \in BOOLEAN
  PROVE  /\ CallPush(t, y, ahead).op = "pushTask"
         /\ CallPush(t, y, ahead).task = t
         /\ CallPush(t, y, ahead).type = y
         /\ CallPush(t, y, ahead).exec = NoExec
BY DEF CallPush, CallTask, Frame

LEMMA CallFreezeFields ==
  ASSUME NEW t, NEW y, NEW instant \in BOOLEAN
  PROVE  /\ CallFreeze(t, y, instant).op = "freezeTask"
         /\ CallFreeze(t, y, instant).task = t
         /\ CallFreeze(t, y, instant).exec = NoExec
BY DEF CallFreeze, CallTask, Frame

LEMMA CallSendFields ==
  ASSUME NEW e, NEW y
  PROVE  /\ CallSend(e, y).op = "send"
         /\ CallSend(e, y).exec = e
         /\ CallSend(e, y).type = y
         /\ CallSend(e, y).loop = NoType
BY DEF CallSend, CallExec, Frame

LEMMA CallSendLoopFields ==
  ASSUME NEW e, NEW y, NEW loop
  PROVE  /\ [CallSend(e, y) EXCEPT !.loop = loop].op = "send"
         /\ [CallSend(e, y) EXCEPT !.loop = loop].exec = e
         /\ [CallSend(e, y) EXCEPT !.loop = loop].type = y
         /\ [CallSend(e, y) EXCEPT !.loop = loop].loop = loop
BY DEF CallSend, CallExec, Frame

LEMMA CallUnfreezeFields ==
  ASSUME NEW y, NEW loop
  PROVE  /\ CallUnfreeze(y, loop).op = "unfreezeTasks"
         /\ CallUnfreeze(y, loop).exec = NoExec
         /\ CallUnfreeze(y, loop).loop = loop
BY DEF CallUnfreeze, Frame

LEMMA CallFillLoopFields ==
  ASSUME NEW y
  PROVE  /\ CallFillLoop(y).op = "fillLoop"
         /\ CallFillLoop(y).exec = NoExec
         /\ CallFillLoop(y).type = y
BY DEF CallFillLoop, Frame

LEMMA UndoFields ==
  ASSUME NEW t, NEW loop
  PROVE  /\ [CallTask("removeRunning", t) EXCEPT !.loop = loop].op = "removeRunning"
         /\ [CallTask("removeRunning", t) EXCEPT !.loop = loop].task = t
         /\ [CallTask("removeRunning", t) EXCEPT !.loop = loop].exec = NoExec
BY DEF CallTask, Frame

LEMMA RequeueFields ==
  ASSUME NEW e, NEW todo
  PROVE  /\ [CallExec("requeue", e) EXCEPT !.todo = todo, !.type = Unbound].op = "requeue"
         /\ [CallExec("requeue", e) EXCEPT !.todo = todo, !.type = Unbound].exec = e
         /\ [CallExec("requeue", e) EXCEPT !.todo = todo, !.type = Unbound].todo = todo
BY DEF CallExec, Frame

LEMMA AnnounceFields ==
  ASSUME NEW e
  PROVE  /\ [CallExec("announceTypes", e) EXCEPT !.pos = 1].op = "announceTypes"
         /\ [CallExec("announceTypes", e) EXCEPT !.pos = 1].exec = e
BY DEF CallExec, Frame

LEMMA TaskReceivedFields ==
  ASSUME NEW t, NEW e, NEW done
  PROVE  /\ [CallTask("taskReceived", t) EXCEPT !.exec = e, !.flag = done].op = "taskReceived"
         /\ [CallTask("taskReceived", t) EXCEPT !.exec = e, !.flag = done].task = t
         /\ [CallTask("taskReceived", t) EXCEPT !.exec = e, !.flag = done].exec = e
         /\ [CallTask("taskReceived", t) EXCEPT !.exec = e, !.flag = done].loop = NoType
BY DEF CallTask, Frame


(***************************************************************************)
(* Frames that neither hold a task nor speak for an executor.              *)
(***************************************************************************)
Fills == {f \in Call : f.op \in {"announceTypes", "unfreezeTasks", "fillLoop", "fillAll"}}

LEMMA HasNoFill ==
  ASSUME NEW g \in Seq(Fills), NEW S, \A f \in Fills : f \notin S
  PROVE  g \in Seq(Call) /\ ~Has(g, S) /\ AtMostOne(g, S)
<1>1. \A i \in DOMAIN g : g[i] \in Fills
  BY ElementOfSeq, LenProperties
<1>2. g \in Seq(Call)
  BY SeqMonotonic DEF Fills
<1>3. QED
  BY <1>1, <1>2 DEF Has, AtMostOne

LEMMA AgainFills ==
  ASSUME NEW loop \in Type \cup {NoType}
  PROVE  /\ Again(loop) \in Seq(Fills)
         /\ loop # NoType => \E a \in Fills : /\ Again(loop) = <<a>>
                                              /\ a.op = "fillLoop" /\ a.type = loop
<1>1. CASE loop = NoType
  BY <1>1 DEF Again
<1>2. CASE loop # NoType
  <2>1. CallFillLoop(loop) \in Fills
    BY <1>2, CallFillLoopIsCall, CallFillLoopFields DEF Fills
  <2>2. <<CallFillLoop(loop)>> \in Seq(Fills)
    BY <2>1
  <2>3. QED
    BY <1>2, <2>1, <2>2, CallFillLoopFields DEF Again
<1>3. QED
  BY <1>1, <1>2

LEMMA CallFillFills ==
  ASSUME NEW y \in Type, NEW defroze \in BOOLEAN
  PROVE  /\ CallFill(y, defroze) \in Fills
         /\ \/ CallFill(y, defroze).op = "unfreezeTasks" /\ CallFill(y, defroze).loop = y
            \/ CallFill(y, defroze).op = "fillLoop" /\ CallFill(y, defroze).type = y
<1>1. CASE defroze
  BY <1>1, CallFillIsCall, CallUnfreezeFields DEF CallFill, Fills
<1>2. CASE ~defroze
  BY <1>2, CallFillIsCall, CallFillLoopFields DEF CallFill, Fills
<1>3. QED
  BY <1>1, <1>2

LEMMA CallFillAllFills ==
  ASSUME NEW types \in Seq(Type)
  PROVE  /\ CallFillAll(types) \in Seq(Fills)
         /\ \A i \in DOMAIN types :
              \E j \in DOMAIN CallFillAll(types) :
                 /\ CallFillAll(types)[j].op = "unfreezeTasks"
                 /\ CallFillAll(types)[j].loop = types[i]
<1>1. \A i \in 1 .. Len(types) : types[i] \in Type
  BY ElementOfSeq
<1>2. \A i \in 1 .. Len(types) : CallFill(types[i], TRUE) \in Fills
  BY <1>1, CallFillFills
<1>3. CallFillAll(types) \in [1 .. Len(types) -> Fills]
  BY <1>2 DEF CallFillAll
<1>4. CallFillAll(types) \in Seq(Fills)
  BY <1>3, LenProperties, SeqDef
<1>5. \A i \in 1 .. Len(types) : CallFillAll(types)[i] = CallUnfreeze(types[i], types[i])
  BY DEF CallFillAll, CallFill
<1>6. DOMAIN types = 1 .. Len(types) /\ DOMAIN CallFillAll(types) = 1 .. Len(types)
  BY <1>3, LenProperties
<1>7. QED
  BY <1>4, <1>5, <1>6, CallUnfreezeFields

(***************************************************************************)
(* Where a task may be.                                                    *)
(***************************************************************************)
Queued(t) == taskInQueue[t] # NoType
Frozen(t) == t \in ToSet(freezer)
Held(t, e) == t \in execTasks[e]

(***************************************************************************)
(* What a thread sees at each of its calls: the calls it makes next, and   *)
(* what it changes.                                                        *)
(***************************************************************************)
LEMMA AddExecutorSeen ==
  ASSUME TypeInv, NEW th \in Thread, AddExecutor(th)
  PROVE  /\ At(th, "addExecutor") /\ Top(th).exec \in Exec
         /\ UNCHANGED <<qvars, execTasks, taskInExec, tasks, etask, freezer, netvars, requests>>
         /\ \E g \in Seq(Fills) :
              /\ Continue(th, g)
              /\ \/ Top(th).exec \in connected /\ UNCHANGED <<typeToId, registered, connected>>
                 \/ /\ Top(th).exec \notin connected
                    /\ connected' = connected \cup {Top(th).exec}
                    /\ StateAddExecutor(Top(th).exec)
                    /\ \A y \in TypesOf(Top(th).exec) :
                         \E j \in DOMAIN g : g[j].op = "unfreezeTasks" /\ g[j].loop = y
<1> DEFINE e == Top(th).exec
           a == <<[CallExec("announceTypes", e) EXCEPT !.pos = 1]>>
           r == CallFillAll(ExecTypes[e])
<1>1. At(th, "addExecutor")
  BY DEF AddExecutor
<1>2. e \in Exec
  BY <1>1, TopIsCall DEF Call, CallOK, ExecOps
<1>3. ExecTypes[e] \in Seq(Type)
  BY <1>2, StateAssumption
<1>4. a \in Seq(Fills)
  <2>1. [CallExec("announceTypes", e) EXCEPT !.pos = 1] \in Fills
    BY <1>2, AnnounceIsCall, AnnounceFields DEF Fills
  <2>2. QED
    BY <2>1
<1>5. r \in Seq(Fills)
  BY <1>3, CallFillAllFills
<1>6. a \o r \in Seq(Fills)
  <2> HIDE DEF a, r
  <2>1. QED
    BY <1>4, <1>5, ConcatProperties
<1>7. \A y \in TypesOf(e) : \E j \in DOMAIN (a \o r) : (a \o r)[j].op = "unfreezeTasks" /\ (a \o r)[j].loop = y
  <2> SUFFICES ASSUME NEW y \in TypesOf(e)
               PROVE  \E j \in DOMAIN (a \o r) : (a \o r)[j].op = "unfreezeTasks" /\ (a \o r)[j].loop = y
    OBVIOUS
  <2>1. PICK i \in DOMAIN ExecTypes[e] : ExecTypes[e][i] = y
    BY DEF TypesOf
  <2>2. PICK j \in DOMAIN r : r[j].op = "unfreezeTasks" /\ r[j].loop = y
    BY <1>3, <2>1, CallFillAllFills
  <2> DEFINE S == {f \in Fills : f.op = "unfreezeTasks" /\ f.loop = y}
  <2>3. r[j] \in S
    BY <2>2, <1>5, ElementOfSeq, LenProperties
  <2>4. Has(r, S)
    BY <2>2, <2>3 DEF Has
  <2> HIDE DEF a, r, S
  <2>5. Has(a \o r, S)
    BY <1>4, <1>5, <2>4, HasConcat
  <2>6. QED
    BY <2>5 DEF Has, S
<1> HIDE DEF a, r
<1>8. UNCHANGED <<qvars, execTasks, taskInExec, tasks, etask, freezer, netvars, requests>>
  BY DEF AddExecutor, StateAddExecutor, svars
<1>9. CASE e \in connected
  <2>1. Continue(th, <<>>) /\ UNCHANGED <<typeToId, registered, connected>>
    BY <1>9 DEF AddExecutor, Return, svars
  <2>2. <<>> \in Seq(Fills)
    OBVIOUS
  <2>3. QED
    BY <1>1, <1>2, <1>8, <1>9, <2>1, <2>2
<1>10. CASE e \notin connected
  <2>1. connected' = connected \cup {e} /\ StateAddExecutor(e) /\ Continue(th, a \o r)
    BY <1>10 DEF AddExecutor, a, r
  <2>2. QED
    BY <1>1, <1>2, <1>6, <1>7, <1>8, <1>10, <2>1
<1>11. QED
  BY <1>9, <1>10

LEMMA AnnounceTypesSeen ==
  ASSUME TypeInv, NEW th \in Thread, AnnounceTypes(th)
  PROVE  /\ At(th, "announceTypes")
         /\ UNCHANGED <<qvars, svars, tasks, etask, freezer, connected, netvars, requests>>
         /\ \E g \in Seq(Fills) : Continue(th, g)
<1> DEFINE a == [Top(th) EXCEPT !.pos = @ + 1]
<1>1. At(th, "announceTypes")
  BY DEF AnnounceTypes
<1>2. a \in Fills
  <2>1. Top(th) \in Call /\ Top(th).op = "announceTypes"
    BY <1>1, TopIsCall
  <2>2. a \in Call
    BY <2>1, NextPosIsCall
  <2>3. a.op = "announceTypes"
    BY <2>1 DEF Call, FrameType
  <2>4. QED
    BY <2>2, <2>3 DEF Fills
<1>3. Continue(th, <<>>) \/ Continue(th, <<a>>)
  BY DEF AnnounceTypes, Return
<1> HIDE DEF a
<1>4. <<>> \in Seq(Fills) /\ <<a>> \in Seq(Fills)
  BY <1>2
<1>5. QED
  BY <1>1, <1>3, <1>4 DEF AnnounceTypes

LEMMA RemoveExecutorSeen ==
  ASSUME TypeInv, NEW th \in Thread, RemoveExecutor(th)
  PROVE  /\ At(th, "removeExecutor") /\ Top(th).exec \in Exec
         /\ UNCHANGED <<qvars, svars, tasks, etask, freezer, netvars, requests>>
         /\ \/ Continue(th, <<>>) /\ UNCHANGED connected
            \/ \E a \in Call :
                 /\ Continue(th, <<a>>)
                 /\ a.op = "dropState" /\ a.exec = Top(th).exec
                 /\ connected' = connected \ {Top(th).exec}
<1>1. At(th, "removeExecutor")
  BY DEF RemoveExecutor
<1>2. Top(th).exec \in Exec
  BY <1>1, TopIsCall DEF Call, CallOK, ExecOps
<1>3. /\ CallExec("dropState", Top(th).exec) \in Call
      /\ CallExec("dropState", Top(th).exec).op = "dropState"
      /\ CallExec("dropState", Top(th).exec).exec = Top(th).exec
  BY <1>2, CallExecIsCall, CallExecFields
<1>4. QED
  BY <1>1, <1>2, <1>3 DEF RemoveExecutor, Return

LEMMA DropStateSeen ==
  ASSUME TypeInv, NEW th \in Thread, DropState(th)
  PROVE  /\ At(th, "dropState") /\ Top(th).exec \in Exec
         /\ UNCHANGED <<qvars, tasks, etask, freezer, connected, requests>>
         /\ \/ /\ StateRemoveExecutor(Top(th).exec)
               /\ UNCHANGED netvars
               /\ \E a, b \in Call, r \in Seq(Fills) :
                    /\ Continue(th, <<a, b>> \o r)
                    /\ a.op = "requeue" /\ a.exec = Top(th).exec
                    /\ a.todo = execTasks[Top(th).exec]
                    /\ b.op = "closeTransport" /\ b.exec = Top(th).exec
            \/ StateRemoveExecutorFails(Top(th).exec) /\ Abort(th, Top(th).exec)
<1> DEFINE e == Top(th).exec
           todo == execTasks[e]
           a == [CallExec("requeue", e) EXCEPT !.todo = todo, !.type = Unbound]
           b == CallExec("closeTransport", e)
           r == CallFillAll(ExecTypes[e])
<1>1. At(th, "dropState")
  BY DEF DropState
<1>2. e \in Exec /\ todo \in SUBSET Task
  BY <1>1, TopIsCall DEF Call, CallOK, ExecOps, TypeInv, STypeOK
<1>3. a \in Call /\ a.op = "requeue" /\ a.exec = e /\ a.todo = todo
  <2> HIDE DEF e, todo
  <2>1. QED
    BY <1>2, RequeueIsCall, RequeueFields
<1>4. b \in Call /\ b.op = "closeTransport" /\ b.exec = e
  BY <1>2, CallExecIsCall, CallExecFields
<1>5. r \in Seq(Fills)
  BY <1>2, CallFillAllFills, StateAssumption
<1>6. CASE AllIndexed(e)
  <2>1. StateRemoveExecutor(e) /\ Continue(th, <<a, b>> \o r) /\ UNCHANGED netvars
    BY <1>6 DEF DropState
  <2> HIDE DEF a, b, r
  <2>2. QED
    BY <1>1, <1>2, <1>3, <1>4, <1>5, <2>1 DEF DropState
<1>7. CASE ~AllIndexed(e)
  BY <1>1, <1>2, <1>7 DEF DropState
<1>8. QED
  BY <1>6, <1>7


LEMMA NextTodoFields ==
  ASSUME NEW f \in FrameType, NEW todo, NEW y
  PROVE  /\ [f EXCEPT !.todo = todo, !.type = y].op = f.op
         /\ [f EXCEPT !.todo = todo, !.type = y].exec = f.exec
         /\ [f EXCEPT !.todo = todo, !.type = y].todo = todo
BY DEF FrameType

LEMMA RequeueSeen ==
  ASSUME TypeInv, NEW th \in Thread, Requeue(th)
  PROVE  /\ At(th, "requeue") /\ Top(th).exec \in Exec /\ Top(th).todo \subseteq Task
         /\ UNCHANGED <<qvars, svars, tasks, etask, freezer, connected, requests>>
         /\ \/ Top(th).todo = {} /\ Continue(th, <<>>) /\ UNCHANGED netvars
            \/ Abort(th, Top(th).exec)
            \/ /\ UNCHANGED netvars
               /\ \E t \in Top(th).todo, a, b \in Call :
                    /\ Continue(th, <<a, b>>)
                    /\ b.op = "requeue" /\ b.exec = Top(th).exec /\ b.todo = Top(th).todo \ {t}
                    /\ a.task = t
                    /\ \/ a.op = "dispatchTask"
                       \/ a.op = "pushTask" /\ (t \in tasks => a.type = etask[t].type)
<1> DEFINE f == Top(th)
<1>1. At(th, "requeue")
  BY DEF Requeue
<1>2. f \in Call /\ f.op = "requeue" /\ f.exec \in Exec /\ f.todo \subseteq Task
  BY <1>1, TopIsCall, CallFields DEF CallOK, ExecOps
<1>3. CASE f.todo = {}
  BY <1>1, <1>2, <1>3 DEF Requeue, Return
<1>4. CASE f.todo # {}
  <2>1. PICK t \in f.todo :
          LET y == IF t \in tasks THEN etask[t].type ELSE f.type
              next == [f EXCEPT !.todo = @ \ {t}, !.type = y]
          IN  IF y = Unbound
              THEN Abort(th, f.exec)
              ELSE /\ Continue(th, <<IF y = NoType THEN CallDispatch(t, TRUE)
                                                   ELSE CallPush(t, y, TRUE), next>>)
                   /\ UNCHANGED <<execLock, netvars>>
    BY <1>4 DEF Requeue
  <2> DEFINE y == IF t \in tasks THEN etask[t].type ELSE f.type
             todo == f.todo \ {t}
             next == [f EXCEPT !.todo = todo, !.type = y]
             call == IF y = NoType THEN CallDispatch(t, TRUE) ELSE CallPush(t, y, TRUE)
  <2>2. t \in Task
    BY <1>2
  <2>3. y \in Type \cup {NoType, Unbound}
    BY <1>2, <2>2, CallFields DEF TypeInv, MindTypeOK, ETaskType
  <2>4. CASE y = Unbound
    <3>1. Abort(th, f.exec)
      BY <2>1, <2>4
    <3>2. QED
      BY <1>1, <1>2, <3>1 DEF Requeue
  <2>5. CASE y # Unbound
    <3>1. Continue(th, <<call, next>>) /\ UNCHANGED netvars
      BY <2>1, <2>5
    <3>2. t \in tasks => y = etask[t].type
      OBVIOUS
    <3>3. todo \in SUBSET Task
      BY <1>2
    <3> HIDE DEF y, todo
    <3>4. call \in Call
      BY <2>2, <2>3, <2>5, CallDispatchIsCall, CallPushIsCall
    <3>5. /\ call.task = t
          /\ call.op = "dispatchTask" \/ (call.op = "pushTask" /\ call.type = y)
      <4>1. CASE y = NoType
        BY <4>1, CallDispatchFields
      <4>2. CASE y # NoType
        <5>1. call = CallPush(t, y, TRUE)
          BY <4>2
        <5>2. /\ CallPush(t, y, TRUE).task = t
              /\ CallPush(t, y, TRUE).op = "pushTask"
              /\ CallPush(t, y, TRUE).type = y
          BY CallPushFields, Zenon
        <5> HIDE DEF call
        <5>3. QED
          BY <5>1, <5>2
      <4>3. QED
        BY <4>1, <4>2
    <3>6. next \in Call
      BY <1>2, <2>3, <2>5, <3>3, NextTodoIsCall
    <3>7. next.op = "requeue" /\ next.exec = f.exec /\ next.todo = todo
      <4>1. f \in FrameType
        BY <1>2, CallFields
      <4> HIDE DEF f
      <4>2. QED
        BY <1>2, <4>1, NextTodoFields
    <3> HIDE DEF call, next
    <3>8. todo = Top(th).todo \ {t}
      BY DEF todo
    <3>9. QED
      BY <1>1, <1>2, <3>1, <3>2, <3>4, <3>5, <3>6, <3>7, <3>8 DEF Requeue
  <2>6. QED
    BY <2>4, <2>5
<1>5. QED
  BY <1>3, <1>4

LEMMA DisconnectClientSeen ==
  ASSUME TypeInv, NEW th \in Thread, DisconnectClient(th)
  PROVE  /\ At(th, "closeTransport") /\ Top(th).exec \in Exec
         /\ UNCHANGED <<qvars, svars, tasks, etask, freezer, connected, requests>>
         /\ CloseTransport(Top(th).exec)
         /\ Continue(th, <<>>)
<1>1. At(th, "closeTransport")
  BY DEF DisconnectClient
<1>2. Top(th).exec \in Exec
  BY <1>1, TopIsCall DEF Call, CallOK, ExecOps
<1>3. QED
  BY <1>1, <1>2 DEF DisconnectClient, Return, mindvars

LEMMA FreezeTaskSeen ==
  ASSUME TypeInv, NEW th \in Thread, FreezeTask(th)
  PROVE  /\ At(th, "freezeTask") /\ Top(th).task \in Task
         /\ UNCHANGED <<qvars, svars, tasks, connected, netvars, requests>>
         /\ \A d \in Task : d # Top(th).task => etask'[d] = etask[d]
         /\ \/ /\ Frozen(Top(th).task) \/ Top(th).task \notin tasks
               /\ Continue(th, <<>>) /\ UNCHANGED <<freezer, etask>>
            \/ /\ ~Frozen(Top(th).task) /\ Top(th).task \in tasks
               /\ \/ Continue(th, <<>>) /\ freezer' = Append(freezer, Top(th).task)
                  \/ /\ UNCHANGED freezer
                     /\ \E a \in Call : /\ Continue(th, <<a>>)
                                        /\ a.op = "removeTask" /\ a.task = Top(th).task
<1> DEFINE f == Top(th)
           t == f.task
           a == CallTask("removeTask", t)
<1>1. At(th, "freezeTask")
  BY DEF FreezeTask
<1>2. t \in Task
  BY <1>1, TopIsCall, CallFields DEF CallOK, TaskOps
<1>3. \A d \in Task : d # t => etask'[d] = etask[d]
  BY DEF FreezeTask, TypeInv, MindTypeOK
<1>4. a \in Call /\ a.op = "removeTask" /\ a.task = t
  BY <1>2, CallTaskIsCall, CallTaskFields
<1>5. UNCHANGED <<qvars, svars, tasks, connected, netvars, requests>>
  BY DEF FreezeTask
<1>6. CASE t \in ToSet(freezer) \/ t \notin tasks
  BY <1>1, <1>2, <1>3, <1>5, <1>6 DEF FreezeTask, Return, Frozen
<1>7. CASE ~(t \in ToSet(freezer) \/ t \notin tasks)
  <2>1. \/ freezer' = Append(freezer, t) /\ Continue(th, <<>>)
        \/ UNCHANGED freezer /\ Continue(th, <<a>>)
    BY <1>7 DEF FreezeTask, Return
  <2> HIDE DEF a
  <2>2. QED
    BY <1>1, <1>2, <1>3, <1>4, <1>5, <1>7, <2>1 DEF Frozen
<1>8. QED
  BY <1>6, <1>7

LEMMA UnfreezeTasksSeen ==
  ASSUME TypeInv, NEW th \in Thread, UnfreezeTasks(th)
  PROVE  /\ At(th, "unfreezeTasks") /\ Top(th) \in Fills
         /\ UNCHANGED <<qvars, svars, tasks, etask, connected, netvars, requests>>
         /\ \/ Continue(th, Again(Top(th).loop)) /\ UNCHANGED freezer
            \/ /\ UNCHANGED freezer
               /\ \E a \in Fills : /\ Continue(th, <<a>>)
                                   /\ a.op = "unfreezeTasks" /\ a.loop = Top(th).loop
            \/ \E i \in 1 .. Len(freezer) :
                 /\ freezer' = RemoveAt(freezer, i)
                 /\ \/ freezer[i] \notin tasks /\ Continue(th, <<Top(th)>>)
                    \/ /\ freezer[i] \in tasks
                       /\ \E a \in Call : /\ Continue(th, <<a, Top(th)>>)
                                          /\ a.op = "dispatchTask" /\ a.task = freezer[i]
<1> DEFINE f == Top(th)
           t == freezer[f.pos]
           skip == (f.type # NoType /\ f.type # etask[t].type) \/ ~etask[t].ripe
           a == CallDispatch(t, FALSE)
           b == [f EXCEPT !.pos = @ + 1]
<1>1. At(th, "unfreezeTasks")
  BY DEF UnfreezeTasks
<1>2. f \in Call /\ f.op = "unfreezeTasks" /\ f.pos \in Nat \ {0} /\ f \in FrameType
  BY <1>1, TopIsCall, CallFields DEF CallOK
<1>3. freezer \in Seq(Task) /\ Len(freezer) \in Nat
  BY LenProperties DEF TypeInv, MindTypeOK
<1>4. UNCHANGED <<qvars, svars, tasks, etask, connected, netvars, requests>>
  BY DEF UnfreezeTasks
<1>5. f \in Fills
  BY <1>2 DEF Fills
<1>6. CASE f.pos > Len(freezer)
  BY <1>1, <1>4, <1>5, <1>6 DEF UnfreezeTasks
<1>7. CASE ~(f.pos > Len(freezer))
  <2>1. f.pos \in 1 .. Len(freezer)
    BY <1>2, <1>3, <1>7
  <2>2. t \in Task
    BY <1>3, <2>1, ElementOfSeq
  <2>3. CASE t \in tasks /\ skip
    <3>1. Continue(th, <<b>>) /\ UNCHANGED freezer
      BY <1>7, <2>3 DEF UnfreezeTasks
    <3>2. b \in Call /\ b.op = "unfreezeTasks" /\ b.loop = f.loop
      BY <1>2, NextPosIsCall DEF FrameType
    <3> HIDE DEF b
    <3>3. QED
      BY <1>1, <1>4, <1>5, <3>1, <3>2 DEF Fills
  <2>4. CASE ~(t \in tasks /\ skip)
    <3>1. /\ freezer' = RemoveAt(freezer, f.pos)
          /\ t \in tasks => Continue(th, <<a, f>>)
          /\ t \notin tasks => Continue(th, <<f>>)
      BY <1>7, <2>4 DEF UnfreezeTasks
    <3>2. a \in Call /\ a.op = "dispatchTask" /\ a.task = t
      BY <2>2, CallDispatchIsCall, CallDispatchFields
    <3> HIDE DEF a
    <3>3. QED
      BY <1>1, <1>4, <1>5, <2>1, <3>1, <3>2
  <2>5. QED
    BY <2>3, <2>4
<1>8. QED
  BY <1>6, <1>7

LEMMA AddTaskSeen ==
  ASSUME TypeInv, NEW th \in Thread, AddTask(th)
  PROVE  /\ At(th, "addTask") /\ Top(th).task \in Task
         /\ UNCHANGED <<qvars, svars, etask, freezer, connected, netvars, requests>>
         /\ \/ /\ UNCHANGED tasks /\ Top(th).task \in tasks
               /\ \E g \in Seq(Fills) : Continue(th, g)
            \/ /\ Top(th).task \notin tasks /\ tasks' = tasks \cup {Top(th).task}
               /\ \E a \in Call : /\ Continue(th, <<a>>)
                                  /\ a.op = "dispatchTask" /\ a.task = Top(th).task
<1> DEFINE t == Top(th).task
           a == CallDispatch(t, TRUE)
           b == CallUnfreeze(NoType, NoType)
<1>1. At(th, "addTask")
  BY DEF AddTask
<1>2. t \in Task
  BY <1>1, TopIsCall DEF Call, CallOK, TaskOps
<1>3. a \in Call /\ a.op = "dispatchTask" /\ a.task = t
  BY <1>2, CallDispatchIsCall, CallDispatchFields
<1>4. <<b>> \in Seq(Fills)
  BY CallUnfreezeIsCall, CallUnfreezeFields DEF Fills
<1>5. \/ t \in tasks /\ Continue(th, <<b>>) /\ UNCHANGED tasks
      \/ t \notin tasks /\ Continue(th, <<a>>) /\ tasks' = tasks \cup {t}
  BY DEF AddTask
<1>6. UNCHANGED <<qvars, svars, etask, freezer, connected, netvars, requests>>
  BY DEF AddTask
<1> HIDE DEF a, b
<1>7. QED
  BY <1>1, <1>2, <1>3, <1>4, <1>5, <1>6

LEMMA DispatchTaskSeen ==
  ASSUME TypeInv, NEW th \in Thread, DispatchTask(th)
  PROVE  /\ At(th, "dispatchTask") /\ Top(th).task \in Task
         /\ UNCHANGED <<qvars, svars, tasks, etask, connected, netvars, requests>>
         /\ \/ /\ taskInExec[Top(th).task] # NoExec
               /\ Continue(th, <<>>) /\ UNCHANGED freezer
            \/ /\ freezer' = RemoveFirst(freezer, Top(th).task)
               /\ \E a \in Call : /\ Continue(th, <<a>>)
                                  /\ a.op = "getNextExecutor" /\ a.task = Top(th).task
<1> DEFINE f == Top(th)
           a == [f EXCEPT !.op = "getNextExecutor"]
<1>1. At(th, "dispatchTask")
  BY DEF DispatchTask
<1>2. f \in Call /\ f.op = "dispatchTask" /\ f \in FrameType /\ f.task \in Task
  BY <1>1, TopIsCall, CallFields DEF CallOK, TaskOps
<1>3. a \in Call
  BY <1>2, MovedIsCall
<1>4. a.op = "getNextExecutor" /\ a.task = f.task
  BY <1>2 DEF FrameType
<1>5. \/ taskInExec[f.task] # NoExec /\ Continue(th, <<>>) /\ UNCHANGED freezer
      \/ freezer' = RemoveFirst(freezer, f.task) /\ Continue(th, <<a>>)
  BY DEF DispatchTask, Return
<1>6. UNCHANGED <<qvars, svars, tasks, etask, connected, netvars, requests>>
  BY DEF DispatchTask
<1> HIDE DEF a
<1>7. QED
  BY <1>1, <1>2, <1>3, <1>4, <1>5, <1>6


LEMMA GetNextExecutorSeen ==
  ASSUME TypeInv, NEW th \in Thread, GetNextExecutor(th)
  PROVE  /\ At(th, "getNextExecutor") /\ Top(th).task \in Task
         /\ UNCHANGED <<qvars, svars, tasks, freezer, connected, netvars, requests>>
         /\ \A d \in Task : d # Top(th).task => etask'[d] = etask[d]
         /\ \/ \E a \in Call : /\ Continue(th, <<a>>)
                               /\ a.op \in {"freezeTask", "removeTask"}
                               /\ a.task = Top(th).task
            \/ /\ Top(th).task \in tasks
               /\ \E a, b \in Call :
                    /\ Continue(th, <<a, b>>)
                    /\ a.op = "pushTask" /\ a.task = Top(th).task
                    /\ a.type \in Type /\ a.type = etask'[Top(th).task].type
                    /\ b \in Fills
                    /\ \/ b.op = "unfreezeTasks" /\ b.loop = a.type
                       \/ b.op = "fillLoop" /\ b.type = a.type
<1> DEFINE f == Top(th)
           t == f.task
           next(y) == [etask EXCEPT ![t].type = y]
           done == Len(etask[t].path)
<1>1. At(th, "getNextExecutor")
  BY DEF GetNextExecutor
<1>2. t \in Task /\ f.flag \in BOOLEAN
  BY <1>1, TopIsCall, CallFields DEF CallOK, TaskOps
<1>3. UNCHANGED <<qvars, svars, tasks, freezer, connected, netvars, requests>>
  BY DEF GetNextExecutor
<1>4. etask \in [Task -> ETaskType]
  BY DEF TypeInv, MindTypeOK
<1>5. ASSUME NEW y \in Type \cup {NoType}
      PROVE  next(y)[t].type = y /\ \A d \in Task : d # t => next(y)[d] = etask[d]
  BY <1>2, <1>4 DEF ETaskType
<1> HIDE DEF next
<1>6. \/ Continue(th, <<DispatchFailed(t)>>) /\ UNCHANGED etask
      \/ Continue(th, <<CallTask("removeTask", t)>>) /\ etask' = next(NoType)
      \/ /\ t \in tasks
         /\ done < Len(Chain[t])
         /\ etask' = next(Chain[t][done + 1])
         /\ Continue(th, DispatchTo(t, Chain[t][done + 1], f.flag))
  BY DEF GetNextExecutor, next
<1>7. /\ CallTask("removeTask", t) \in Call
      /\ CallTask("removeTask", t).op = "removeTask" /\ CallTask("removeTask", t).task = t
  BY <1>2, CallTaskIsCall, CallTaskFields
<1>8. /\ DispatchFailed(t) \in Call
      /\ DispatchFailed(t).op \in {"freezeTask", "removeTask"} /\ DispatchFailed(t).task = t
  <2>1. DispatchFailed(t) \in Call
    BY <1>2, DispatchFailedIsCall
  <2>2. CASE FreezeOnFailedDispatch
    BY <2>1, <2>2, CallFreezeFields DEF DispatchFailed
  <2>3. CASE ~FreezeOnFailedDispatch
    BY <2>1, <2>3, <1>7 DEF DispatchFailed
  <2>4. QED
    BY <2>2, <2>3
<1>9. CASE Continue(th, <<DispatchFailed(t)>>) /\ UNCHANGED etask
  BY <1>1, <1>2, <1>3, <1>8, <1>9
<1>10. CASE Continue(th, <<CallTask("removeTask", t)>>) /\ etask' = next(NoType)
  BY <1>1, <1>2, <1>3, <1>5, <1>7, <1>10
<1>11. CASE /\ t \in tasks
            /\ done < Len(Chain[t])
            /\ etask' = next(Chain[t][done + 1])
            /\ Continue(th, DispatchTo(t, Chain[t][done + 1], f.flag))
  <2> DEFINE y == Chain[t][done + 1]
             push == CallPush(t, y, FALSE)
             freeze == CallFreeze(t, y, TRUE)
             fill == CallFill(y, f.flag)
  <2>1. y \in Type
    <3>1. etask[t].path \in Seq(Type) /\ Chain[t] \in Seq(Type)
      BY <1>2, <1>4, DispatcherAssumption DEF ETaskType
    <3>2. done + 1 \in 1 .. Len(Chain[t])
      BY <3>1, <1>11, LenProperties
    <3>3. QED
      BY <3>1, <3>2, ElementOfSeq
  <2> HIDE DEF y
  <2>2. etask'[t].type = y /\ \A d \in Task : d # t => etask'[d] = etask[d]
    BY <1>5, <1>11, <2>1 DEF y
  <2>3. Continue(th, DispatchTo(t, y, f.flag))
    BY <1>11 DEF y
  <2>4. \/ Continue(th, <<push, fill>>)
        \/ Continue(th, <<freeze>>)
        \/ Continue(th, <<CallTask("removeTask", t)>>)
    BY <2>3 DEF DispatchTo
  <2>5. push \in Call /\ push.op = "pushTask" /\ push.task = t /\ push.type = y
    <3>1. push \in Call
      BY <1>2, <2>1, CallPushIsCall
    <3>2. push.op = "pushTask" /\ push.task = t /\ push.type = y
      BY CallPushFields, Zenon
    <3>3. QED
      BY <3>1, <3>2
  <2>6. freeze \in Call /\ freeze.op = "freezeTask" /\ freeze.task = t
    BY <1>2, <2>1, CallFreezeIsCall, CallFreezeFields
  <2>7. /\ fill \in Fills
        /\ \/ fill.op = "unfreezeTasks" /\ fill.loop = y
           \/ fill.op = "fillLoop" /\ fill.type = y
    BY <1>2, <2>1, CallFillFills
  <2>8. fill \in Call
    BY <2>7 DEF Fills
  <2> HIDE DEF push, freeze, fill, t
  <2>9. QED
    BY <1>1, <1>2, <1>3, <1>7, <1>11, <2>1, <2>2, <2>4, <2>5, <2>6, <2>7, <2>8 DEF t
<1>12. QED
  BY <1>6, <1>9, <1>10, <1>11

LEMMA PushTaskStepSeen ==
  ASSUME TypeInv, NEW th \in Thread, PushTaskStep(th)
  PROVE  /\ At(th, "pushTask") /\ Top(th).task \in Task /\ Top(th).type \in Type
         /\ UNCHANGED <<svars, tasks, etask, freezer, connected, netvars, requests>>
         /\ Continue(th, <<>>)
         /\ \A d \in Task : taskInQueue'[d] =
              IF d = Top(th).task /\ ~Queued(d) THEN Top(th).type ELSE taskInQueue[d]
         /\ \A y \in Type : y # Top(th).type => queues'[y] = queues[y]
<1> DEFINE f == Top(th)
           t == f.task
           y == f.type
<1>1. At(th, "pushTask")
  BY DEF PushTaskStep
<1>2. t \in Task /\ y \in Type
  BY <1>1, TopIsCall, CallFields DEF CallOK, TaskOps, TypeOps
<1>3. PushTask(t, y, f.flag) /\ Continue(th, <<>>)
  BY DEF PushTaskStep, Return
<1>4. UNCHANGED <<svars, tasks, etask, freezer, connected, netvars, requests>>
  BY DEF PushTaskStep, mindvars
<1>5. QTypeOK
  BY DEF TypeInv, QInv
<1> HIDE DEF t, y
<1>6. /\ \A d \in Task : taskInQueue'[d] = IF d = t /\ ~Queued(d) THEN y ELSE taskInQueue[d]
      /\ \A x \in Type : x # y => queues'[x] = queues[x]
  <2>1. CASE Queued(t)
    BY <1>3, <2>1 DEF PushTask, Queued, qvars
  <2>2. CASE ~Queued(t)
    <3>1. taskInQueue' = [taskInQueue EXCEPT ![t] = y]
      BY <1>3, <2>2 DEF PushTask, Queued
    <3>2. \A x \in Type : x # y => queues'[x] = queues[x]
      BY <1>3, <1>5, <2>2 DEF PushTask, Queued, QTypeOK
    <3>3. QED
      BY <1>5, <2>2, <3>1, <3>2 DEF QTypeOK, Queued
  <2>3. QED
    BY <2>1, <2>2
<1>7. QED
  BY <1>1, <1>2, <1>3, <1>4, <1>6 DEF t, y

\* the calls that take a forgotten task out of the queue, the executor and the freezer
CleanUp(th, t) ==
    \E a, b, c \in Call, r \in Seq(Call) :
        /\ Continue(th, <<a, b, c>> \o r)
        /\ a.op = "removeQueued" /\ a.task = t
        /\ b.op = "removeRunning" /\ b.task = t
        /\ c.op = "removeFrozen" /\ c.task = t
        /\ \/ taskInExec[t] = NoExec /\ r = <<>>
           \/ \E d \in Call : r = <<d>> /\ d.op = "sendIfIdle" /\ d.exec = taskInExec[t]

LEMMA RemoveTaskSeen ==
  ASSUME TypeInv, NEW th \in Thread, RemoveTask(th)
  PROVE  /\ At(th, "removeTask") /\ Top(th).task \in Task
         /\ UNCHANGED <<qvars, svars, freezer, connected, netvars, requests>>
         /\ \A d \in Task : d # Top(th).task => etask'[d] = etask[d]
         /\ \/ Top(th).task \notin tasks /\ Continue(th, <<>>) /\ UNCHANGED <<tasks, etask>>
            \/ /\ Top(th).task \in tasks /\ tasks' = tasks \ {Top(th).task}
               /\ CleanUp(th, Top(th).task)
<1> DEFINE t == Top(th).task
           a == CallTask("removeQueued", t)
           b == CallTask("removeRunning", t)
           c == CallTask("removeFrozen", t)
           d == CallExec("sendIfIdle", taskInExec[t])
           r == IF taskInExec[t] = NoExec THEN <<>> ELSE <<d>>
<1>1. At(th, "removeTask")
  BY DEF RemoveTask
<1>2. t \in Task
  BY <1>1, TopIsCall DEF Call, CallOK, TaskOps
<1>3. UNCHANGED <<qvars, svars, freezer, connected, netvars, requests>>
  BY DEF RemoveTask
<1>4. \A x \in Task : x # t => etask'[x] = etask[x]
  BY DEF RemoveTask, TypeInv, MindTypeOK
<1>5. CASE t \notin tasks
  BY <1>1, <1>2, <1>3, <1>4, <1>5 DEF RemoveTask, Return
<1>6. CASE t \in tasks
  <2>1. tasks' = tasks \ {t} /\ Continue(th, <<a, b, c>> \o r)
    BY <1>6 DEF RemoveTask
  <2>2. /\ a \in Call /\ a.op = "removeQueued" /\ a.task = t
        /\ b \in Call /\ b.op = "removeRunning" /\ b.task = t
        /\ c \in Call /\ c.op = "removeFrozen" /\ c.task = t
    BY <1>2, CallTaskIsCall, CallTaskFields
  <2>3. taskInExec[t] # NoExec => d \in Call /\ d.op = "sendIfIdle" /\ d.exec = taskInExec[t]
    <3>1. taskInExec[t] \in Exec \cup {NoExec}
      BY <1>2 DEF TypeInv, STypeOK
    <3>2. QED
      BY <3>1, CallExecIsCall, CallExecFields
  <2> HIDE DEF a, b, c, d
  <2>4. /\ r \in Seq(Call)
        /\ \/ taskInExec[t] = NoExec /\ r = <<>>
           \/ d \in Call /\ r = <<d>> /\ d.op = "sendIfIdle" /\ d.exec = taskInExec[t]
    BY <2>3
  <2> HIDE DEF r
  <2>5. CleanUp(th, t)
    BY <2>1, <2>2, <2>4 DEF CleanUp
  <2>6. QED
    BY <1>1, <1>2, <1>3, <1>4, <1>6, <2>1, <2>5
<1>7. QED
  BY <1>5, <1>6

LEMMA RemoveQueuedSeen ==
  ASSUME TypeInv, NEW th \in Thread, RemoveQueued(th)
  PROVE  /\ At(th, "removeQueued") /\ Top(th).task \in Task
         /\ UNCHANGED <<svars, tasks, etask, freezer, connected, netvars, requests>>
         /\ Continue(th, <<>>)
         /\ \A d \in Task : taskInQueue'[d] = IF d = Top(th).task THEN NoType ELSE taskInQueue[d]
         /\ \A y \in Type : queues[y] = <<>> => queues'[y] = <<>>
<1> DEFINE t == Top(th).task
<1>1. At(th, "removeQueued")
  BY DEF RemoveQueued
<1>2. t \in Task
  BY <1>1, TopIsCall DEF Call, CallOK, TaskOps
<1>3. DeleteTask(t) /\ Continue(th, <<>>)
  BY DEF RemoveQueued, Return
<1>4. UNCHANGED <<svars, tasks, etask, freezer, connected, netvars, requests>>
  BY DEF RemoveQueued, mindvars
<1>5. QTypeOK
  BY DEF TypeInv, QInv
<1> HIDE DEF t
<1>6. /\ \A d \in Task : taskInQueue'[d] = IF d = t THEN NoType ELSE taskInQueue[d]
      /\ \A y \in Type : queues[y] = <<>> => queues'[y] = <<>>
  <2>1. CASE taskInQueue[t] = NoType
    BY <1>3, <2>1 DEF DeleteTask, qvars
  <2>2. CASE taskInQueue[t] # NoType
    <3>1. /\ taskInQueue' = [taskInQueue EXCEPT ![t] = NoType]
          /\ queues' = [queues EXCEPT ![taskInQueue[t]] = RemoveFirst(@, t)]
      BY <1>3, <2>2 DEF DeleteTask
    <3>2. RemoveFirst(<<>>, t) = <<>>
      BY RemoveFirstAbsent
    <3>3. \A y \in Type : queues[y] = <<>> => queues'[y] = <<>>
      BY <1>5, <3>1, <3>2 DEF QTypeOK
    <3>4. QED
      BY <1>2, <1>5, <3>1, <3>3 DEF QTypeOK
  <2>3. QED
    BY <2>1, <2>2
<1>7. QED
  BY <1>1, <1>2, <1>3, <1>4, <1>6 DEF t

LEMMA RemoveRunningSeen ==
  ASSUME TypeInv, NEW th \in Thread, RemoveRunning(th)
  PROVE  /\ At(th, "removeRunning") /\ Top(th).task \in Task
         /\ Top(th).loop \in Type \cup {NoType}
         /\ UNCHANGED <<qvars, tasks, etask, freezer, connected, netvars, requests>>
         /\ StateRemoveTask(Top(th).task)
         /\ Continue(th, Again(Top(th).loop))
<1>1. At(th, "removeRunning")
  BY DEF RemoveRunning
<1>2. Top(th).task \in Task /\ Top(th).loop \in Type \cup {NoType}
  BY <1>1, TopIsCall, CallFields DEF CallOK, TaskOps
<1>3. QED
  BY <1>1, <1>2 DEF RemoveRunning, mindvars

LEMMA RemoveFrozenSeen ==
  ASSUME TypeInv, NEW th \in Thread, RemoveFrozen(th)
  PROVE  /\ At(th, "removeFrozen") /\ Top(th).task \in Task
         /\ UNCHANGED <<qvars, svars, tasks, etask, connected, netvars, requests>>
         /\ freezer' = RemoveFirst(freezer, Top(th).task)
         /\ Continue(th, <<>>)
<1>1. At(th, "removeFrozen")
  BY DEF RemoveFrozen
<1>2. Top(th).task \in Task
  BY <1>1, TopIsCall, CallFields DEF CallOK, TaskOps
<1>3. QED
  BY <1>1, <1>2 DEF RemoveFrozen, Return

LEMMA FillLoopSeen ==
  ASSUME TypeInv, NEW th \in Thread, FillLoop(th)
  PROVE  /\ At(th, "fillLoop") /\ Top(th).type \in Type
         /\ UNCHANGED <<qvars, svars, tasks, etask, freezer, connected, netvars, requests>>
         /\ \/ IdleExecutors(Top(th).type) = {} /\ Continue(th, <<>>)
            \/ \E e \in IdleExecutors(Top(th).type), a \in Call :
                 /\ Continue(th, <<a>>)
                 /\ e \in Exec /\ a.op = "send" /\ a.exec = e
                 /\ a.type = Top(th).type /\ a.loop = Top(th).type
<1> DEFINE y == Top(th).type
           a(e) == [CallSend(e, y) EXCEPT !.loop = y]
<1>1. At(th, "fillLoop")
  BY DEF FillLoop
<1>2. y \in Type
  BY <1>1, TopIsCall DEF Call, CallOK, TypeOps
<1>3. UNCHANGED <<qvars, svars, tasks, etask, freezer, connected, netvars, requests>>
  BY DEF FillLoop, mindvars
<1>4. CASE IdleExecutors(y) = {} /\ Return(th)
  BY <1>1, <1>2, <1>3, <1>4 DEF Return
<1>5. ASSUME NEW e \in IdleExecutors(y), Continue(th, <<a(e)>>)
      PROVE  \E x \in IdleExecutors(y), c \in Call :
                 /\ Continue(th, <<c>>)
                 /\ x \in Exec /\ c.op = "send" /\ c.exec = x /\ c.type = y /\ c.loop = y
  <2>1. e \in Exec
    BY <1>2, IdleExecutorsAreExecutors DEF TypeInv
  <2>2. a(e) \in Call
    BY <1>2, <2>1, CallSendIsCall
  <2>3. a(e).op = "send" /\ a(e).exec = e /\ a(e).type = y /\ a(e).loop = y
    BY CallSendLoopFields
  <2> HIDE DEF a
  <2>4. QED
    BY <1>5, <2>1, <2>2, <2>3
<1>6. QED
  <2>1. \/ IdleExecutors(y) = {} /\ Return(th)
        \/ \E e \in IdleExecutors(y) : Continue(th, <<a(e)>>)
    BY DEF FillLoop
  <2> HIDE DEF a
  <2>2. QED
    BY <1>1, <1>2, <1>3, <1>4, <1>5, <2>1

LEMMA FillAllSeen ==
  ASSUME TypeInv, NEW th \in Thread, FillAll(th)
  PROVE  /\ At(th, "fillAll")
         /\ UNCHANGED <<qvars, svars, tasks, etask, freezer, connected, netvars, requests>>
         /\ \E g \in Seq(Fills) : Continue(th, g)
<1> DEFINE f == Top(th)
           size == IF f.pos = 0 THEN Len(execTypes) ELSE f.size
           call == CallFill(execTypes[f.pos + 1], TRUE)
           next == [f EXCEPT !.pos = @ + 1, !.size = size]
<1>1. At(th, "fillAll")
  BY DEF FillAll
<1>2. UNCHANGED <<qvars, svars, tasks, etask, freezer, connected, netvars, requests>>
  BY DEF FillAll, mindvars
<1>3. f \in Call /\ f.op = "fillAll" /\ f.pos \in Nat /\ f.size \in Nat /\ f.pos <= f.size
  BY <1>1, TopIsCall, CallFields DEF CallOK
<1>4. execTypes \in Seq(Type) /\ Len(execTypes) \in Nat
  BY LenProperties DEF TypeInv, MindTypeOK
<1>5. size \in Nat /\ f.pos <= size
  BY <1>3, <1>4
<1>6. CASE f.pos = size \/ size # Len(execTypes)
  <2>1. Continue(th, <<>>) /\ <<>> \in Seq(Fills)
    BY <1>6 DEF FillAll
  <2>2. QED
    BY <1>1, <1>2, <2>1
<1>7. CASE ~(f.pos = size \/ size # Len(execTypes))
  <2>1. Continue(th, <<call, next>>)
    BY <1>7 DEF FillAll
  <2>2. f.pos + 1 \in 1 .. Len(execTypes) /\ f.pos + 1 <= size
    BY <1>3, <1>4, <1>5, <1>7
  <2>3. call \in Fills
    BY <1>4, <2>2, ElementOfSeq, CallFillFills
  <2> HIDE DEF size, call
  <2>4. next \in Call
    BY <1>3, <1>5, <2>2, NextKeyIsCall
  <2>5. next.op = "fillAll"
    BY <1>3, CallFields DEF FrameType
  <2> HIDE DEF next
  <2>6. <<call, next>> \in Seq(Fills)
    BY <2>3, <2>4, <2>5 DEF Fills
  <2>7. QED
    BY <1>1, <1>2, <2>1, <2>6
<1>8. QED
  BY <1>6, <1>7


(***************************************************************************)
(* Lists that lose or gain an element.                                     *)
(***************************************************************************)
LEMMA HasRemoveAt ==
  ASSUME NEW T, NEW s \in Seq(T), NEW i \in 1 .. Len(s), NEW S
  PROVE  /\ Has(RemoveAt(s, i), S) => Has(s, S)
         /\ Has(s, S) => Has(RemoveAt(s, i), S) \/ s[i] \in S
         /\ AtMostOne(s, S) => /\ AtMostOne(RemoveAt(s, i), S)
                               /\ s[i] \in S => ~Has(RemoveAt(s, i), S)
<1> DEFINE r == RemoveAt(s, i)
           from(j) == IF j < i THEN j ELSE j + 1
<1>1. /\ r \in Seq(T) /\ Len(r) = Len(s) - 1
      /\ \A j \in 1 .. Len(s) - 1 : r[j] = IF j < i THEN s[j] ELSE s[j + 1]
  BY RemoveAtFacts
<1>2. Len(s) \in Nat /\ DOMAIN s = 1 .. Len(s) /\ DOMAIN r = 1 .. Len(s) - 1
  BY <1>1, LenProperties
<1> HIDE DEF r
<1>3. \A j \in DOMAIN r : from(j) \in DOMAIN s /\ from(j) # i /\ r[j] = s[from(j)]
  BY <1>1, <1>2
<1>4. \A j, k \in DOMAIN r : from(j) = from(k) => j = k
  BY <1>2
<1>5. \A k \in DOMAIN s : k = i \/ \E j \in DOMAIN r : r[j] = s[k]
  <2> SUFFICES ASSUME NEW k \in DOMAIN s, k # i PROVE \E j \in DOMAIN r : r[j] = s[k]
    OBVIOUS
  <2>1. CASE k < i
    <3>1. k \in DOMAIN r /\ r[k] = s[k]
      BY <1>1, <1>2, <2>1
    <3>2. QED
      BY <3>1
  <2>2. CASE ~(k < i)
    <3>1. k - 1 \in DOMAIN r /\ r[k - 1] = s[k]
      BY <1>1, <1>2, <2>2
    <3>2. QED
      BY <3>1
  <2>3. QED
    BY <2>1, <2>2
<1>6. i \in DOMAIN s
  BY <1>2
<1> HIDE DEF from
<1>7. Has(r, S) => Has(s, S)
  BY <1>3 DEF Has
<1>8. Has(s, S) => Has(r, S) \/ s[i] \in S
  BY <1>5 DEF Has
<1>9. AtMostOne(s, S) => AtMostOne(r, S)
  BY <1>3, <1>4 DEF AtMostOne
<1>10. AtMostOne(s, S) /\ s[i] \in S => ~Has(r, S)
  BY <1>3, <1>6 DEF AtMostOne, Has
<1>11. QED
  BY <1>7, <1>8, <1>9, <1>10 DEF r

LEMMA HasRemoveFirst ==
  ASSUME NEW T, NEW s \in Seq(T), NEW e, NEW S
  PROVE  /\ Has(RemoveFirst(s, e), S) => Has(s, S)
         /\ Has(s, S) => Has(RemoveFirst(s, e), S) \/ e \in S
         /\ AtMostOne(s, S) => /\ AtMostOne(RemoveFirst(s, e), S)
                               /\ e \in S => (Has(RemoveFirst(s, e), S) => ~Has(s, {e}))
<1>1. CASE \E i \in 1 .. Len(s) : s[i] = e
  <2>1. PICK i \in 1 .. Len(s) : s[i] = e /\ RemoveFirst(s, e) = RemoveAt(s, i)
    BY <1>1, RemoveFirstFinds
  <2>2. QED
    BY <2>1, HasRemoveAt
<1>2. CASE ~\E i \in 1 .. Len(s) : s[i] = e
  <2>1. RemoveFirst(s, e) = s
    BY <1>2, RemoveFirstAbsent
  <2>2. ~Has(s, {e})
    BY <1>2, LenProperties DEF Has
  <2>3. QED
    BY <2>1, <2>2
<1>3. QED
  BY <1>1, <1>2

LEMMA HasAppend ==
  ASSUME NEW T, NEW s \in Seq(T), NEW x \in T, NEW S
  PROVE  /\ Has(Append(s, x), S) <=> Has(s, S) \/ x \in S
         /\ AtMostOne(s, S) /\ ~(Has(s, S) /\ x \in S) => AtMostOne(Append(s, x), S)
<1> DEFINE r == Append(s, x)
<1>1. /\ Len(s) \in Nat /\ DOMAIN s = 1 .. Len(s)
      /\ r \in Seq(T) /\ Len(r) = Len(s) + 1 /\ DOMAIN r = 1 .. Len(s) + 1
      /\ \A i \in 1 .. Len(s) : r[i] = s[i]
      /\ r[Len(s) + 1] = x
  BY AppendProperties, LenProperties
<1> DEFINE n == Len(s) + 1
<1>2. /\ \A i \in DOMAIN s : i \in DOMAIN r /\ r[i] = s[i]
      /\ n \in DOMAIN r /\ r[n] = x
      /\ \A i \in DOMAIN r : i \in DOMAIN s \/ i = n
  BY <1>1
<1> HIDE DEF r, n
<1>3. Has(r, S) <=> Has(s, S) \/ x \in S
  BY <1>2 DEF Has
<1>4. AtMostOne(s, S) /\ ~(Has(s, S) /\ x \in S) => AtMostOne(r, S)
  BY <1>2 DEF Has, AtMostOne
<1>5. QED
  BY <1>3, <1>4 DEF r

LEMMA ToSetIsHas == ASSUME NEW s, NEW t PROVE t \in ToSet(s) <=> Has(s, {t})
BY DEF Has, ToSet

(***************************************************************************)
(* __sendTaskToExecutor looks at every type of the executor, and at no     *)
(* other but the one it was asked for.                                     *)
(***************************************************************************)
LEMMA SearchTypesCover ==
  ASSUME NEW e \in Exec, NEW y \in Type \cup {NoType, Unbound}
  PROVE  /\ \A x \in TypesOf(e) : Has(SearchTypes(e, y), {x})
         /\ \A i \in DOMAIN SearchTypes(e, y) :
              \/ SearchTypes(e, y)[i] \in TypesOf(e)
              \/ y # NoType /\ SearchTypes(e, y)[i] = y
<1> DEFINE s == ExecTypes[e]
           r == Reverse(s)
           z == RemoveFirst(r, y)
           T == Type \cup {NoType, Unbound}
<1>1. s \in Seq(Type) /\ Len(s) \in Nat /\ DOMAIN s = 1 .. Len(s)
  BY StateAssumption, LenProperties
<1>2. \A i \in 1 .. Len(s) : s[i] \in T
  BY <1>1, ElementOfSeq
<1>3. DOMAIN r = 1 .. Len(s) /\ \A i \in 1 .. Len(s) : r[i] = s[(Len(s) - i) + 1]
  BY DEF Reverse
<1>4. \A i \in 1 .. Len(s) : (Len(s) - i) + 1 \in 1 .. Len(s)
  BY <1>1
<1>5. r \in [1 .. Len(s) -> T]
  BY <1>2, <1>4 DEF Reverse
<1>6. r \in Seq(T)
  BY <1>1, <1>5, SeqDef
<1>7. \A x \in TypesOf(e) : Has(r, {x})
  <2> SUFFICES ASSUME NEW x \in TypesOf(e) PROVE Has(r, {x})
    OBVIOUS
  <2>1. PICK i \in DOMAIN s : s[i] = x
    BY DEF TypesOf
  <2>2. (Len(s) - i) + 1 \in 1 .. Len(s) /\ (Len(s) - ((Len(s) - i) + 1)) + 1 = i
    BY <1>1
  <2>3. r[(Len(s) - i) + 1] = x
    BY <1>3, <2>1, <2>2
  <2>4. QED
    BY <1>3, <2>2, <2>3 DEF Has
<1>8. \A i \in DOMAIN r : r[i] \in TypesOf(e)
  BY <1>1, <1>3, <1>4 DEF TypesOf
<1>9. CASE y = NoType
  <2>1. SearchTypes(e, y) = r
    BY <1>9 DEF SearchTypes
  <2>2. QED
    BY <1>7, <1>8, <2>1
<1>10. CASE y # NoType
  <2>1. SearchTypes(e, y) = Append(z, y)
    BY <1>10 DEF SearchTypes
  <2> HIDE DEF r, s
  <2>2. z \in Seq(T)
    BY <1>6, RemoveFirstIsSeq
  <2>3. \A x : Has(r, {x}) => Has(z, {x}) \/ y = x
    BY <1>6, HasRemoveFirst
  <2>4. \A x : Has(z, {x}) => Has(r, {x})
    BY <1>6, HasRemoveFirst
  <2> HIDE DEF z
  <2>5. y \in T
    OBVIOUS
  <2>6. \A x : Has(Append(z, y), {x}) <=> Has(z, {x}) \/ y = x
    <3> SUFFICES ASSUME NEW x PROVE Has(Append(z, y), {x}) <=> Has(z, {x}) \/ y \in {x}
      OBVIOUS
    <3> HIDE DEF T
    <3>1. QED
      BY <2>2, <2>5, HasAppend
  <2>7. \A x \in TypesOf(e) : Has(Append(z, y), {x})
    BY <1>7, <2>3, <2>6
  <2>8. ASSUME NEW i \in DOMAIN Append(z, y)
        PROVE  Append(z, y)[i] \in TypesOf(e) \/ Append(z, y)[i] = y
    <3> DEFINE x == Append(z, y)[i]
    <3>1. Has(Append(z, y), {x})
      BY DEF Has
    <3> HIDE DEF x
    <3>2. Has(r, {x}) \/ x = y
      BY <2>4, <2>6, <3>1
    <3>3. QED
      BY <1>8, <3>2 DEF x, Has
  <2>9. QED
    BY <1>10, <2>1, <2>7, <2>8
<1>11. QED
  BY <1>9, <1>10

LEMMA HandOverFields ==
  ASSUME NEW f \in FrameType, NEW y, NEW t
  PROVE  /\ [f EXCEPT !.op = "handOver", !.type = y, !.task = t].op = "handOver"
         /\ [f EXCEPT !.op = "handOver", !.type = y, !.task = t].type = y
         /\ [f EXCEPT !.op = "handOver", !.type = y, !.task = t].task = t
         /\ [f EXCEPT !.op = "handOver", !.type = y, !.task = t].exec = f.exec
         /\ [f EXCEPT !.op = "handOver", !.type = y, !.task = t].loop = f.loop
BY DEF FrameType

\* a task of the type y leaves the queues for the executor of the call f
Picked(th, f, y) ==
    /\ y \in Type
    /\ y \in TypesOf(f.exec) \/ (f.type # NoType /\ y = f.type)
    /\ queues[y] # <<>>
    /\ \A x \in Type : x # y => queues'[x] = queues[x]
    /\ \E a \in Call :
         /\ Continue(th, <<a>>)
         /\ a.op = "handOver" /\ a.exec = f.exec /\ a.type = y /\ a.loop = f.loop
         /\ a.task \in Task /\ taskInQueue[a.task] = y
         /\ \A d \in Task : taskInQueue'[d] = IF d = a.task THEN NoType ELSE taskInQueue[d]

LEMMA SendSeen ==
  ASSUME TypeInv, NEW th \in Thread, Send(th)
  PROVE  /\ At(th, "send") /\ Top(th).exec \in Exec /\ Top(th).loop \in Type \cup {NoType}
         /\ UNCHANGED <<svars, tasks, etask, freezer, connected, netvars, requests>>
         /\ \/ /\ Top(th).exec \notin connected /\ UNCHANGED qvars
               /\ Continue(th, Again(Top(th).loop))
            \/ /\ Top(th).exec \in connected /\ UNCHANGED qvars
               /\ \A y \in TypesOf(Top(th).exec) : queues[y] = <<>>
               /\ Continue(th, <<>>)
            \/ Top(th).exec \in connected /\ \E y \in Type : Picked(th, Top(th), y)
<1> DEFINE f == Top(th)
           types == SearchTypes(f.exec, f.type)
           handOver(y) == [f EXCEPT !.op = "handOver", !.type = y, !.task = Head(queues[y])]
<1>1. At(th, "send")
  BY DEF Send
<1>2. /\ f \in Call /\ f.op = "send" /\ f \in FrameType /\ f.exec \in Exec
      /\ f.loop \in Type \cup {NoType} /\ f.type \in Type \cup {NoType, Unbound}
  BY <1>1, TopIsCall, CallFields DEF CallOK, ExecOps
<1>3. UNCHANGED <<svars, tasks, etask, freezer, connected, netvars, requests>>
  BY DEF Send, mindvars
<1>4. /\ \A x \in TypesOf(f.exec) : Has(types, {x})
      /\ \A i \in DOMAIN types : types[i] \in TypesOf(f.exec) \/ (f.type # NoType /\ types[i] = f.type)
  BY <1>2, SearchTypesCover
<1>5. QInv /\ QTypeOK
  BY DEF TypeInv, QInv
<1>6. CASE f.exec \notin connected /\ Continue(th, Again(f.loop)) /\ UNCHANGED qvars
  BY <1>1, <1>2, <1>3, <1>6
<1>7. CASE f.exec \in connected /\ NothingWaits(types) /\ Return(th) /\ UNCHANGED qvars
  <2>1. \A y \in TypesOf(f.exec) : queues[y] = <<>>
    BY <1>4, <1>7 DEF NothingWaits, Has
  <2>2. QED
    BY <1>1, <1>2, <1>3, <1>7, <2>1 DEF Return
<1>8. ASSUME NEW y \in Type, f.exec \in connected, IsNextType(y, types), PopTask(y),
             Continue(th, <<handOver(y)>>)
      PROVE  Picked(th, f, y)
  <2> DEFINE t == Head(queues[y])
             a == handOver(y)
  <2>1. /\ queues[y] # <<>> /\ queues[y] \in Seq(Task)
        /\ queues' = [queues EXCEPT ![y] = Tail(@)]
        /\ taskInQueue' = [taskInQueue EXCEPT ![t] = NoType]
    BY <1>5, <1>8 DEF PopTask, QTypeOK
  <2>2. t \in Task /\ t = queues[y][1] /\ 1 \in DOMAIN queues[y]
    BY <2>1, HeadTailProperties, LenProperties, EmptySeq
  <2>3. taskInQueue[t] = y
    BY <1>5, <2>2 DEF QInv, QueueIndexConsistent, IndexSound
  <2>4. y \in TypesOf(f.exec) \/ (f.type # NoType /\ y = f.type)
    BY <1>4, <1>8 DEF IsNextType
  <2> HIDE DEF t
  <2>5. \A x \in Type : x # y => queues'[x] = queues[x]
    BY <1>5, <2>1 DEF QTypeOK
  <2>6. \A d \in Task : taskInQueue'[d] = IF d = t THEN NoType ELSE taskInQueue[d]
    BY <1>5, <2>1, <2>2 DEF QTypeOK
  <2>7. a \in Call
    BY <1>2, <2>2, HandOverIsCall DEF t
  <2>8. a.op = "handOver" /\ a.exec = f.exec /\ a.type = y /\ a.loop = f.loop /\ a.task = t
    BY <1>2, HandOverFields DEF t
  <2>9. Continue(th, <<a>>)
    BY <1>8
  <2> HIDE DEF a
  <2>10. taskInQueue[a.task] = y /\ a.task \in Task
    BY <2>2, <2>3, <2>8
  <2>11. \A d \in Task : taskInQueue'[d] = IF d = a.task THEN NoType ELSE taskInQueue[d]
    BY <2>6, <2>8
  <2> HIDE DEF f
  <2>12. \E b \in Call :
            /\ Continue(th, <<b>>)
            /\ b.op = "handOver" /\ b.exec = f.exec /\ b.type = y /\ b.loop = f.loop
            /\ b.task \in Task /\ taskInQueue[b.task] = y
            /\ \A d \in Task : taskInQueue'[d] = IF d = b.task THEN NoType ELSE taskInQueue[d]
    BY <2>7, <2>8, <2>9, <2>10, <2>11, Zenon
  <2>13. QED
    BY <2>1, <2>4, <2>5, <2>12, Zenon DEF Picked
<1>9. QED
  <2>1. \/ f.exec \notin connected /\ Continue(th, Again(f.loop)) /\ UNCHANGED qvars
        \/ f.exec \in connected /\ NothingWaits(types) /\ Return(th) /\ UNCHANGED qvars
        \/ /\ f.exec \in connected
           /\ \E y \in Type : /\ IsNextType(y, types)
                              /\ PopTask(y)
                              /\ Continue(th, <<handOver(y)>>)
    BY DEF Send
  <2> HIDE DEF types, handOver
  <2>2. QED
    BY <1>1, <1>2, <1>3, <1>6, <1>7, <1>8, <2>1

LEMMA SendIfIdleSeen ==
  ASSUME TypeInv, NEW th \in Thread, SendIfIdle(th)
  PROVE  /\ At(th, "sendIfIdle") /\ Top(th).exec \in Exec
         /\ UNCHANGED <<qvars, svars, tasks, etask, freezer, connected, netvars, requests>>
         /\ \/ FreeSlots(Top(th).exec) = 0 /\ Continue(th, <<>>)
            \/ \E a \in Call : /\ Continue(th, <<a>>)
                               /\ a.op = "send" /\ a.exec = Top(th).exec
                               /\ a.type = NoType /\ a.loop = NoType
<1> DEFINE e == Top(th).exec
           a == CallSend(e, NoType)
<1>1. At(th, "sendIfIdle")
  BY DEF SendIfIdle
<1>2. e \in Exec
  BY <1>1, TopIsCall DEF Call, CallOK, ExecOps
<1>3. UNCHANGED <<qvars, svars, tasks, etask, freezer, connected, netvars, requests>>
  BY DEF SendIfIdle, mindvars
<1>4. a \in Call /\ a.op = "send" /\ a.exec = e /\ a.type = NoType /\ a.loop = NoType
  BY <1>2, CallSendIsCall, CallSendFields
<1>5. (FreeSlots(e) = 0 /\ Continue(th, <<>>)) \/ Continue(th, <<a>>)
  BY DEF SendIfIdle
<1> HIDE DEF a
<1>6. QED
  BY <1>1, <1>2, <1>3, <1>4, <1>5

LEMMA HandOverSeen ==
  ASSUME TypeInv, NEW th \in Thread, HandOver(th)
  PROVE  /\ At(th, "handOver") /\ Top(th).exec \in Exec /\ Top(th).task \in Task
         /\ UNCHANGED <<qvars, tasks, etask, freezer, connected, netvars, requests>>
         /\ StateAddTask(Top(th).exec, Top(th).task)
         /\ \E a \in Call : /\ Continue(th, <<a>>)
                            /\ a.op = "message" /\ a.exec = Top(th).exec
                            /\ a.task = Top(th).task
                            /\ a.type = Top(th).type /\ a.loop = Top(th).loop
<1> DEFINE f == Top(th)
           a == [f EXCEPT !.op = "message"]
<1>1. At(th, "handOver")
  BY DEF HandOver
<1>2. f \in Call /\ f.op = "handOver" /\ f.exec \in Exec /\ f.task \in Task /\ f \in FrameType
  BY <1>1, TopIsCall, CallFields DEF CallOK, ExecOps, TaskOps
<1>3. UNCHANGED <<qvars, tasks, etask, freezer, connected, netvars, requests>>
  BY DEF HandOver, mindvars
<1>4. a \in Call
  BY <1>2, MovedIsCall
<1>5. a.op = "message" /\ a.exec = f.exec /\ a.task = f.task /\ a.type = f.type /\ a.loop = f.loop
  BY <1>2 DEF FrameType
<1>6. StateAddTask(f.exec, f.task) /\ Continue(th, <<a>>)
  BY DEF HandOver
<1> HIDE DEF a
<1>7. QED
  BY <1>1, <1>2, <1>3, <1>4, <1>5, <1>6


LEMMA MessageSeen ==
  ASSUME TypeInv, NEW th \in Thread, Message(th)
  PROVE  /\ At(th, "message") /\ Top(th).exec \in Exec /\ Top(th).task \in Task
         /\ Top(th).loop \in Type \cup {NoType}
         /\ UNCHANGED <<qvars, svars, tasks, etask, freezer, connected, transport, dropped, requests>>
         /\ \/ /\ Top(th).task \notin tasks /\ UNCHANGED work
               /\ \E a \in Call : /\ Continue(th, <<a>>)
                                  /\ a.op = "removeRunning" /\ a.task = Top(th).task
            \/ /\ Top(th).task \in tasks /\ transport[Top(th).exec] = "open"
               /\ \E w \in WorkType :
                    /\ w.task = Top(th).task
                    /\ work' = [work EXCEPT ![Top(th).exec] = Append(@, w)]
               /\ Continue(th, Again(Top(th).loop))
            \/ /\ Top(th).task \in tasks /\ UNCHANGED work
               /\ transport[Top(th).exec] = "closed" \/ "sendRefused" \in Faults
               /\ Continue(th, Again(Top(th).loop))
            \/ "sendException" \in Faults
<1> DEFINE f == Top(th)
           e == f.exec
           t == f.task
           w == [task |-> t, type |-> f.type]
           undo == [CallTask("removeRunning", t) EXCEPT !.loop = f.loop]
<1>1. At(th, "message")
  BY DEF Message
<1>2. /\ e \in Exec /\ t \in Task /\ f.type \in Type
      /\ f.loop \in Type \cup {NoType}
  BY <1>1, TopIsCall, CallFields DEF CallOK, ExecOps, TaskOps, TypeOps
<1>3. w \in WorkType /\ w.task = t
  BY <1>2 DEF WorkType
<1>4. undo \in Call /\ undo.op = "removeRunning" /\ undo.task = t
  BY <1>2, UndoIsCall, UndoFields
<1>5. UNCHANGED <<qvars, svars, tasks, etask, freezer, connected, transport, dropped, requests>>
  BY DEF Message, mindvars
<1>6. \/ t \notin tasks /\ UNCHANGED work /\ Continue(th, <<undo>>)
      \/ /\ t \in tasks /\ transport[e] = "open"
         /\ work' = [work EXCEPT ![e] = Append(@, w)]
         /\ Continue(th, Again(f.loop))
      \/ /\ t \in tasks /\ UNCHANGED work
         /\ transport[e] = "closed" \/ "sendRefused" \in Faults
         /\ Continue(th, Again(f.loop))
      \/ "sendException" \in Faults
  BY DEF Message
<1> HIDE DEF undo, w
<1>7. QED
  BY <1>1, <1>2, <1>3, <1>4, <1>5, <1>6

LEMMA TaskReturnedFields ==
  ASSUME NEW f \in FrameType, NEW y
  PROVE  /\ [f EXCEPT !.op = "taskReturned", !.type = y].op = "taskReturned"
         /\ [f EXCEPT !.op = "taskReturned", !.type = y].type = y
         /\ [f EXCEPT !.op = "taskReturned", !.type = y].task = f.task
         /\ [f EXCEPT !.op = "taskReturned", !.type = y].exec = f.exec
BY DEF FrameType

LEMMA TaskReceivedSeen ==
  ASSUME TypeInv, NEW th \in Thread, TaskReceived(th)
  PROVE  /\ At(th, "taskReceived") /\ Top(th).exec \in Exec /\ Top(th).task \in Task
         /\ UNCHANGED <<qvars, tasks, etask, freezer, connected, netvars, requests>>
         /\ \/ Top(th).task \notin tasks /\ UNCHANGED svars /\ Continue(th, <<>>)
            \/ /\ Top(th).task \in tasks
               /\ StateRemoveTaskFrom(Top(th).exec, Top(th).task)
               /\ \E a \in Call :
                    /\ Continue(th, <<a>>)
                    /\ a.exec = Top(th).exec
                    /\ \/ /\ RemoveSucceeds(Top(th).exec, Top(th).task)
                          /\ a.op = "taskReturned" /\ a.task = Top(th).task
                          /\ a.type = etask[Top(th).task].type
                       \/ /\ ~RemoveSucceeds(Top(th).exec, Top(th).task)
                          /\ a.op = "send" /\ a.type = NoType /\ a.loop = NoType
<1> DEFINE f == Top(th)
           e == f.exec
           t == f.task
           a == [f EXCEPT !.op = "taskReturned", !.type = etask[t].type]
           b == CallSend(e, NoType)
<1>1. At(th, "taskReceived")
  BY DEF TaskReceived
<1>2. f \in Call /\ f.op = "taskReceived" /\ e \in Exec /\ t \in Task /\ f \in FrameType
  BY <1>1, TopIsCall, CallFields DEF CallOK, ExecOps, TaskOps
<1>3. UNCHANGED <<qvars, tasks, etask, freezer, connected, netvars, requests>>
  BY DEF TaskReceived, mindvars
<1>4. a \in Call
  <2>1. etask[t].type \in Type \cup {NoType}
    BY <1>2 DEF TypeInv, MindTypeOK, ETaskType
  <2>2. QED
    BY <1>2, <2>1, TaskReturnedIsCall
<1>5. a.op = "taskReturned" /\ a.type = etask[t].type /\ a.task = t /\ a.exec = e
  <2> DEFINE y == etask[t].type
  <2> HIDE DEF y
  <2>1. [f EXCEPT !.op = "taskReturned", !.type = y].op = "taskReturned"
        /\ [f EXCEPT !.op = "taskReturned", !.type = y].type = y
        /\ [f EXCEPT !.op = "taskReturned", !.type = y].task = t
        /\ [f EXCEPT !.op = "taskReturned", !.type = y].exec = e
    BY <1>2, TaskReturnedFields
  <2>2. QED
    BY <2>1 DEF y
<1>6. b \in Call /\ b.op = "send" /\ b.exec = e /\ b.type = NoType /\ b.loop = NoType
  <2>1. b \in Call
    BY <1>2, CallSendIsCall
  <2>2. QED
    BY <2>1, CallSendFields, Zenon
<1>7. \/ t \notin tasks /\ UNCHANGED svars /\ Continue(th, <<>>)
      \/ t \in tasks /\ StateRemoveTaskFrom(e, t) /\ RemoveSucceeds(e, t) /\ Continue(th, <<a>>)
      \/ t \in tasks /\ StateRemoveTaskFrom(e, t) /\ ~RemoveSucceeds(e, t) /\ Continue(th, <<b>>)
  BY DEF TaskReceived, Return
<1> HIDE DEF a, b
<1>8. QED
  BY <1>1, <1>2, <1>3, <1>4, <1>5, <1>6, <1>7

LEMMA TaskReturnedSeen ==
  ASSUME TypeInv, NEW th \in Thread, TaskReturned(th)
  PROVE  /\ At(th, "taskReturned") /\ Top(th).exec \in Exec /\ Top(th).task \in Task
         /\ UNCHANGED <<qvars, svars, tasks, etask, freezer, connected, requests>>
         /\ \/ Top(th).exec \notin connected /\ Abort(th, Top(th).exec)
            \/ /\ Top(th).exec \in connected /\ UNCHANGED netvars
               /\ Top(th).type \notin TypesOf(Top(th).exec)
               /\ \E a, b \in Call :
                    /\ Continue(th, <<a, b>>)
                    /\ a.op = "removeExecutor" /\ a.exec = Top(th).exec
                    /\ b.op = "dispatchTask" /\ b.task = Top(th).task
            \/ /\ Top(th).exec \in connected /\ UNCHANGED netvars
               /\ Top(th).type \in TypesOf(Top(th).exec)
               /\ \E a \in Call :
                    /\ Continue(th, <<a>>)
                    /\ a.op = "storeTask" /\ a.exec = Top(th).exec
                    /\ a.task = Top(th).task /\ a.type = Top(th).type
            \/ /\ Top(th).exec \in connected /\ UNCHANGED netvars
               /\ "saveError" \in Faults
               /\ \E a \in Call, r \in Seq(Call) :
                    /\ Continue(th, <<a>> \o r)
                    /\ a.op = "send" /\ a.exec = Top(th).exec
                    /\ a.type = NoType /\ a.loop = NoType
                    /\ \/ r = <<>>
                       \/ \E b \in Call : r = <<b>> /\ b.op = "removeTask" /\ b.task = Top(th).task
<1> DEFINE f == Top(th)
           e == f.exec
           a == CallExec("removeExecutor", e)
           b == CallDispatch(f.task, TRUE)
           c == [f EXCEPT !.op = "storeTask"]
           d == CallSend(e, NoType)
           g == CallTask("removeTask", f.task)
           r == IF f.flag THEN <<g>> ELSE <<>>
<1>1. At(th, "taskReturned")
  BY DEF TaskReturned
<1>2. f \in Call /\ f.op = "taskReturned" /\ e \in Exec /\ f.task \in Task /\ f \in FrameType
  BY <1>1, TopIsCall, CallFields DEF CallOK, ExecOps, TaskOps
<1>3. UNCHANGED <<qvars, svars, tasks, etask, freezer, connected, requests>>
  BY DEF TaskReturned
<1>4. a \in Call /\ a.op = "removeExecutor" /\ a.exec = e
  BY <1>2, CallExecIsCall, CallExecFields
<1>5. b \in Call /\ b.op = "dispatchTask" /\ b.task = f.task
  BY <1>2, CallDispatchIsCall, CallDispatchFields
<1>6. f.type \in TypesOf(e) => c \in Call
  <2>1. f.type \in TypesOf(e) => f.type \in Type
    BY <1>2, StateAssumption, ElementOfSeq, LenProperties DEF TypesOf
  <2>2. QED
    BY <1>2, <2>1, MovedIsCall
<1>7. c.op = "storeTask" /\ c.exec = e /\ c.task = f.task /\ c.type = f.type
  BY <1>2 DEF FrameType
<1>8. d \in Call /\ d.op = "send" /\ d.exec = e /\ d.type = NoType /\ d.loop = NoType
  <2>1. d \in Call
    BY <1>2, CallSendIsCall
  <2>2. QED
    BY <2>1, CallSendFields, Zenon
<1>9. g \in Call /\ g.op = "removeTask" /\ g.task = f.task
  BY <1>2, CallTaskIsCall, CallTaskFields
<1>10. /\ \/ e \notin connected /\ Abort(th, e)
          \/ e \in connected /\ f.type \notin TypesOf(e) /\ Continue(th, <<a, b>>) /\ UNCHANGED netvars
          \/ e \in connected /\ f.type \in TypesOf(e) /\ Continue(th, <<c>>) /\ UNCHANGED netvars
          \/ /\ e \in connected /\ f.type \in TypesOf(e) /\ "saveError" \in Faults
             /\ Continue(th, SaveFailed(f)) /\ UNCHANGED netvars
  BY DEF TaskReturned
<1>11. SaveFailed(f) = <<d>> \o r
  BY DEF SaveFailed
<1> HIDE DEF a, b, c, d, g
<1>12. r \in Seq(Call) /\ (r = <<>> \/ r = <<g>>)
  BY <1>9
<1> HIDE DEF r
<1>13. CASE e \notin connected /\ Abort(th, e)
  BY <1>1, <1>2, <1>3, <1>13
<1>14. CASE /\ e \in connected /\ f.type \notin TypesOf(e)
            /\ Continue(th, <<a, b>>) /\ UNCHANGED netvars
  BY <1>1, <1>2, <1>3, <1>4, <1>5, <1>14
<1>15. CASE /\ e \in connected /\ f.type \in TypesOf(e)
            /\ Continue(th, <<c>>) /\ UNCHANGED netvars
  BY <1>1, <1>2, <1>3, <1>6, <1>7, <1>15
<1>16. CASE /\ e \in connected /\ f.type \in TypesOf(e) /\ "saveError" \in Faults
            /\ Continue(th, SaveFailed(f)) /\ UNCHANGED netvars
  BY <1>1, <1>2, <1>3, <1>8, <1>9, <1>11, <1>12, <1>16
<1>17. QED
  BY <1>10, <1>13, <1>14, <1>15, <1>16

LEMMA StoreTaskSeen ==
  ASSUME TypeInv, NEW th \in Thread, StoreTask(th)
  PROVE  /\ At(th, "storeTask") /\ Top(th).exec \in Exec /\ Top(th).task \in Task
         /\ Top(th).type \in Type
         /\ UNCHANGED <<qvars, svars, tasks, freezer, connected, netvars, requests>>
         /\ \A d \in Task : etask'[d].type = etask[d].type
         /\ \E b \in Call :
              /\ b.op = "send" /\ b.exec = Top(th).exec /\ b.type = Top(th).type
              /\ b.loop = NoType
              /\ \/ Top(th).task \notin tasks /\ Continue(th, <<b>>)
                 \/ /\ Top(th).task \in tasks
                    /\ \E a \in Call : /\ Continue(th, <<a, b>>)
                                       /\ a.op \in {"dispatchTask", "freezeTask"}
                                       /\ a.task = Top(th).task
<1> DEFINE f == Top(th)
           t == f.task
           b == CallSend(f.exec, f.type)
           c == CallDispatch(t, TRUE)
           d == CallFreeze(t, f.type, FALSE)
<1>1. At(th, "storeTask")
  BY DEF StoreTask
<1>2. f \in Call /\ f.exec \in Exec /\ t \in Task /\ f.type \in Type
  BY <1>1, TopIsCall, CallFields DEF CallOK, ExecOps, TaskOps, TypeOps
<1>3. UNCHANGED <<qvars, svars, tasks, freezer, connected, netvars, requests>>
  BY DEF StoreTask
<1>4. etask \in [Task -> ETaskType]
  BY DEF TypeInv, MindTypeOK
<1>5. \A x \in Task : etask'[x].type = etask[x].type
  <2>1. UNCHANGED etask \/ etask' = [etask EXCEPT ![t] = [etask[t] EXCEPT !.path = Append(@, f.type)]]
    BY DEF StoreTask
  <2>2. [etask[t] EXCEPT !.path = Append(@, f.type)].type = etask[t].type
    BY <1>2, <1>4 DEF ETaskType
  <2> DEFINE r == [etask[t] EXCEPT !.path = Append(@, f.type)]
  <2>3. UNCHANGED etask \/ etask' = [etask EXCEPT ![t] = r]
    BY <2>1
  <2> HIDE DEF r
  <2>4. QED
    BY <1>2, <1>4, <2>2, <2>3 DEF r
<1>6. /\ b \in Call /\ b.op = "send" /\ b.exec = f.exec /\ b.type = f.type /\ b.loop = NoType
      /\ c \in Call /\ c.op = "dispatchTask" /\ c.task = t
      /\ d \in Call /\ d.op = "freezeTask" /\ d.task = t
  <2>1. b \in Call /\ c \in Call /\ d \in Call
    BY <1>2, CallSendIsCall, CallDispatchIsCall, CallFreezeIsCall
  <2>2. b.op = "send" /\ b.exec = f.exec /\ b.type = f.type /\ b.loop = NoType
    BY CallSendFields
  <2>3. c.op = "dispatchTask" /\ c.task = t
    BY CallDispatchFields
  <2>4. d.op = "freezeTask" /\ d.task = t
    BY CallFreezeFields
  <2>5. QED
    BY <2>1, <2>2, <2>3, <2>4
<1>7. \/ t \notin tasks /\ Continue(th, <<b>>)
      \/ t \in tasks /\ Continue(th, <<c, b>>)
      \/ t \in tasks /\ Continue(th, <<d, b>>)
  BY DEF StoreTask
<1> HIDE DEF b, c, d
<1>8. QED
  BY <1>1, <1>2, <1>3, <1>5, <1>6, <1>7

(***************************************************************************)
(* The events, in the same form.                                           *)
(***************************************************************************)
Starts(th, g) == Idle(th) /\ stack' = [stack EXCEPT ![th] = g]

LEMMA ConnectSeen ==
  ASSUME TypeInv, NEW th \in Worker, NEW e \in Exec, Connect(th, e)
  PROVE  /\ UNCHANGED <<qvars, svars, tasks, etask, freezer, connected, dropped, work, requests>>
         /\ transport[e] = "none" /\ transport' = [transport EXCEPT ![e] = "open"]
         /\ \E a \in Call : Starts(th, <<a>>) /\ a.op = "addExecutor" /\ a.exec = e
<1>1. UNCHANGED <<qvars, svars, tasks, etask, freezer, connected, dropped, work, requests>>
  BY DEF Connect, mindvars
<1>2. /\ CallExec("addExecutor", e) \in Call
      /\ CallExec("addExecutor", e).op = "addExecutor" /\ CallExec("addExecutor", e).exec = e
  BY CallExecIsCall, CallExecFields
<1>3. QED
  BY <1>1, <1>2 DEF Connect, Start, Starts

LEMMA HandleDropSeen ==
  ASSUME TypeInv, NEW th \in Worker, NEW e \in Exec, HandleDrop(th, e)
  PROVE  /\ UNCHANGED <<qvars, svars, tasks, etask, freezer, connected, transport, work, requests>>
         /\ e \in dropped /\ dropped' = dropped \ {e}
         /\ \E a \in Call : Starts(th, <<a>>) /\ a.op = "removeExecutor" /\ a.exec = e
<1>1. UNCHANGED <<qvars, svars, tasks, etask, freezer, connected, transport, work, requests>>
  BY DEF HandleDrop, mindvars
<1>2. /\ CallExec("removeExecutor", e) \in Call
      /\ CallExec("removeExecutor", e).op = "removeExecutor"
      /\ CallExec("removeExecutor", e).exec = e
  BY CallExecIsCall, CallExecFields
<1>3. QED
  BY <1>1, <1>2 DEF HandleDrop, Start, Starts

\* what the message of an executor starts: it is done with t, failed on it, or failed
Answered(th, e, t) ==
    \/ \E a \in Call : /\ Starts(th, <<a>>)
                       /\ a.op = "taskReceived" /\ a.task = t /\ a.exec = e
    \/ \E a \in Call : Starts(th, <<a>>) /\ a.op = "removeTask" /\ a.task = t
    \/ /\ "ExecutorError" \in Replies
       /\ \E a, b \in Call : /\ Starts(th, <<a, b>>)
                             /\ a.op = "removeExecutor" /\ a.exec = e
                             /\ b.op = "closeTransport" /\ b.exec = e

LEMMA HandleReplySeen ==
  ASSUME TypeInv, NEW th \in Worker, NEW e \in Exec, NEW kind \in Replies,
         HandleReply(th, e, kind)
  PROVE  /\ UNCHANGED <<qvars, svars, tasks, etask, freezer, connected, transport, dropped, requests>>
         /\ transport[e] = "open"
         /\ \E i \in 1 .. Len(work[e]) :
              /\ work' = [work EXCEPT ![e] = RemoveAt(@, i)]
              /\ work[e][i].task \in Task
              /\ Answered(th, e, work[e][i].task)
<1>1. UNCHANGED <<qvars, svars, tasks, etask, freezer, connected, transport, dropped, requests>>
  BY DEF HandleReply, mindvars
<1>2. PICK i \in DOMAIN work[e] :
        /\ work' = [work EXCEPT ![e] = RemoveAt(@, i)]
        /\ Start(th, ReplyFrames(kind, e, work[e][i]))
  BY DEF HandleReply
<1>3. work[e] \in Seq(WorkType) /\ i \in 1 .. Len(work[e])
  BY LenProperties DEF TypeInv, NetTypeOK
<1>4. work[e][i].task \in Task
  <2>1. work[e][i] \in WorkType
    BY <1>3, ElementOfSeq
  <2>2. QED
    BY <2>1 DEF WorkType
<1> DEFINE w == work[e][i]
           t == w.task
<1>5. Starts(th, ReplyFrames(kind, e, w))
  BY <1>2 DEF Start, Starts
<1> HIDE DEF w
<1>6. Answered(th, e, t)
  <2>1. CASE kind \in {"TaskDone", "TaskFreeze"}
    <3> DEFINE done == (kind = "TaskDone")
               a == [CallTask("taskReceived", t) EXCEPT !.exec = e, !.flag = done]
    <3>1. done \in BOOLEAN
      OBVIOUS
    <3>2. ReplyFrames(kind, e, w) = <<a>>
      BY <2>1 DEF ReplyFrames
    <3> HIDE DEF done
    <3>3. a \in Call
      BY <1>4, <3>1, TaskReceivedIsCall DEF w
    <3>4. a.op = "taskReceived" /\ a.task = t /\ a.exec = e
      BY TaskReceivedFields
    <3> HIDE DEF a
    <3>5. QED
      BY <1>5, <3>2, <3>3, <3>4 DEF Answered
  <2>2. CASE kind = "TaskError"
    <3> DEFINE a == CallTask("removeTask", t)
    <3>1. ReplyFrames(kind, e, w) = <<a>>
      BY <2>2 DEF ReplyFrames
    <3>2. a \in Call /\ a.op = "removeTask" /\ a.task = t
      BY <1>4, CallTaskIsCall, CallTaskFields DEF w
    <3> HIDE DEF a
    <3>3. QED
      BY <1>5, <3>1, <3>2 DEF Answered
  <2>3. CASE kind = "ExecutorError"
    <3> DEFINE a == CallExec("removeExecutor", e)
               b == CallExec("closeTransport", e)
    <3>1. ReplyFrames(kind, e, w) = <<a, b>>
      BY <2>3 DEF ReplyFrames
    <3>2. /\ a \in Call /\ a.op = "removeExecutor" /\ a.exec = e
          /\ b \in Call /\ b.op = "closeTransport" /\ b.exec = e
      BY CallExecIsCall, CallExecFields
    <3> HIDE DEF a, b
    <3>3. QED
      BY <1>5, <2>3, <3>1, <3>2 DEF Answered
  <2>4. QED
    BY <2>1, <2>2, <2>3, DispatcherAssumption DEF ReplyKinds
<1>7. QED
  BY <1>1, <1>2, <1>3, <1>4, <1>6 DEF HandleReply, w

LEMMA RequestSeen ==
  ASSUME TypeInv, NEW th \in Worker, NEW t \in Task, NEW kind \in Requests,
         Request(th, t, kind)
  PROVE  /\ UNCHANGED <<qvars, svars, tasks, etask, freezer, connected, netvars>>
         /\ requests[t] < MaxRequests /\ requests' = [requests EXCEPT ![t] = @ + 1]
         /\ \E a \in Call :
              /\ a.op = "addTask" /\ a.task = t
              /\ \/ Starts(th, <<a>>)
                 \/ \E b \in Call : Starts(th, <<b, a>>) /\ b.op = "removeTask" /\ b.task = t
<1>1. UNCHANGED <<qvars, svars, tasks, etask, freezer, connected, netvars>>
  BY DEF Request, mindvars
<1> DEFINE a == CallTask("addTask", t)
           b == CallTask("removeTask", t)
<1>2. /\ a \in Call /\ a.op = "addTask" /\ a.task = t
      /\ b \in Call /\ b.op = "removeTask" /\ b.task = t
  BY CallTaskIsCall, CallTaskFields
<1>3. Starts(th, <<a>>) \/ Starts(th, <<b, a>>)
  BY DEF Request, Start, Starts
<1>4. requests[t] < MaxRequests /\ requests' = [requests EXCEPT ![t] = @ + 1]
  BY DEF Request
<1> HIDE DEF a, b
<1>5. QED
  BY <1>1, <1>2, <1>3, <1>4

LEMMA PeriodicSeen ==
  ASSUME TypeInv, Periodic
  PROVE  /\ UNCHANGED <<qvars, svars, tasks, etask, freezer, connected, netvars, requests>>
         /\ \E g \in Seq(Fills) : Starts(Scheduler, g)
<1>1. CallUnfreeze(NoType, NoType) \in Fills
  BY CallUnfreezeIsCall, CallUnfreezeFields DEF Fills
<1>2. Frame("fillAll") \in Fills
  BY FillAllIsCall DEF Fills, Frame
<1>3. <<CallUnfreeze(NoType, NoType), Frame("fillAll")>> \in Seq(Fills)
  BY <1>1, <1>2
<1>4. QED
  BY <1>3 DEF Periodic, Start, Starts, mindvars

LEMMA RipenSeen ==
  ASSUME TypeInv, NEW t \in Task, Ripen(t)
  PROVE  /\ UNCHANGED <<qvars, svars, tasks, freezer, connected, stack, netvars, requests>>
         /\ \A d \in Task : etask'[d].type = etask[d].type
<1> DEFINE r == [etask[t] EXCEPT !.ripe = TRUE]
<1>1. etask \in [Task -> ETaskType]
  BY DEF TypeInv, MindTypeOK
<1>2. etask' = [etask EXCEPT ![t] = r]
  BY DEF Ripen
<1>3. r.type = etask[t].type
  BY <1>1 DEF ETaskType
<1> HIDE DEF r
<1>4. \A d \in Task : etask'[d].type = etask[d].type
  BY <1>1, <1>2, <1>3
<1>5. QED
  BY <1>4 DEF Ripen

LEMMA DisconnectSeen ==
  ASSUME TypeInv, NEW e \in Exec, Disconnect(e)
  PROVE  /\ UNCHANGED <<qvars, svars, tasks, etask, freezer, connected, stack, requests>>
         /\ "drop" \in Faults
         /\ CloseTransport(e)
BY DEF Disconnect, mindvars


-----------------------------------------------------------------------------
(***************************************************************************)
(* A task has one token.  It lies in a queue, in the freezer or with an    *)
(* executor, or a thread carries it from one of these places to another:   *)
(* a call that is to place the task, or the loop over the tasks of a       *)
(* removed executor.  A task that nobody asked for has none.               *)
(***************************************************************************)
TokenOps == {"addTask", "dispatchTask", "getNextExecutor", "pushTask", "freezeTask",
             "handOver", "taskReturned", "storeTask"}

Carriers(t) == {f \in Call : \/ f.op \in TokenOps /\ f.task = t
                             \/ f.op = "requeue" /\ t \in f.todo}

Carried(t) == Somewhere(stack, Carriers(t))

Placed(t) == Queued(t) \/ Frozen(t) \/ \E e \in Exec : Held(t, e)

InOnePlace(t) ==
    /\ AtMostOne(freezer, {t})
    /\ Queued(t) => ~Frozen(t)
    /\ \A e \in Exec : Held(t, e) => ~Queued(t) /\ ~Frozen(t) /\ \A d \in Exec : Held(t, d) => d = e

Token(t) ==
    /\ InOnePlace(t)
    /\ Sole(stack, Carriers(t))
    /\ Carried(t) => ~Placed(t)
    /\ requests[t] = 0 => ~Carried(t) /\ ~Placed(t) /\ t \notin tasks

TokenInv == \A t \in Task : Token(t)

(***************************************************************************)
(* The tasks of a run of the mind are submitted once, and no message to an *)
(* executor raises an exception after it was put on the wire.              *)
(***************************************************************************)
Once == MaxRequests <= 1 /\ "sendException" \notin Faults

LEMMA StackIsStacks == ASSUME TypeInv PROVE stack \in Stacks
BY DEF TypeInv, Stacks

LEMMA SamePlaceFacts ==
  ASSUME NEW t \in Task, UNCHANGED <<taskInQueue, freezer, execTasks>>
  PROVE  (InOnePlace(t)' <=> InOnePlace(t)) /\ (Placed(t)' <=> Placed(t))
BY DEF InOnePlace, Placed, Queued, Frozen, Held

\* a call of a thread moves the token of t, or leaves it alone
LEMMA TokenMoves ==
  ASSUME TypeInv, NEW t \in Task, Token(t), NEW th \in Thread, stack[th] # <<>>,
         NEW g \in Seq(Call), Continue(th, g), UNCHANGED requests,
         InOnePlace(t)', AtMostOne(g, Carriers(t)),
         Placed(t)' => Placed(t) \/ Top(th) \in Carriers(t),
         Has(g, Carriers(t)) => ~Placed(t)' /\ (Placed(t) \/ Top(th) \in Carriers(t)),
         t \in tasks' => t \in tasks \/ Top(th) \in Carriers(t)
  PROVE  Token(t)'
<1> DEFINE S == Carriers(t)
           p == stack'
<1>1. p = Swap(stack, th, g)
  BY DEF Continue, Swap
<1>2. stack \in Stacks
  BY StackIsStacks
<1> HIDE DEF S, p
<1>3. /\ Head(stack[th]) \in S => Somewhere(stack, S)
      /\ Somewhere(p, S) => Somewhere(stack, S) \/ Has(g, S)
      /\ Sole(stack, S) /\ AtMostOne(g, S) /\ (Has(g, S) => Head(stack[th]) \in S \/ ~Somewhere(stack, S))
              => Sole(p, S)
      /\ Sole(stack, S) /\ Head(stack[th]) \in S /\ ~Has(g, S) => ~Somewhere(p, S)
  BY <1>1, <1>2, Replaced
<1>4. Carried(t)' <=> Somewhere(p, S)
  BY DEF Carried, S, p
<1>5. Sole(stack, Carriers(t))' <=> Sole(p, S)
  BY DEF S, p
<1>6. QED
  BY <1>3, <1>4, <1>5 DEF Token, Carried, S, Top

LEMMA TokenPasses ==
  ASSUME TypeInv, NEW t \in Task, Token(t), NEW th \in Thread, stack[th] # <<>>,
         NEW g \in Seq(Call), Continue(th, g), UNCHANGED <<taskInQueue, freezer, execTasks, requests>>,
         AtMostOne(g, Carriers(t)),
         Has(g, Carriers(t)) => Top(th) \in Carriers(t),
         t \in tasks' => t \in tasks \/ Top(th) \in Carriers(t)
  PROVE  Token(t)'
<1>1. (InOnePlace(t)' <=> InOnePlace(t)) /\ (Placed(t)' <=> Placed(t))
  BY SamePlaceFacts
<1>2. Top(th) \in Carriers(t) => ~Placed(t)
  <2>1. Head(stack[th]) \in Carriers(t) => Has(stack[th], Carriers(t))
    <3>1. stack[th] \in Seq(Call)
      BY DEF TypeInv
    <3>2. QED
      BY <3>1, HasHeadTail
  <2>2. QED
    BY <2>1 DEF Token, Carried, Somewhere, Top
<1>3. QED
  BY <1>1, <1>2, TokenMoves DEF Token

LEMMA TokenWaits ==
  ASSUME TypeInv, NEW t \in Task, Token(t), NEW th \in Thread, stack[th] # <<>>,
         NEW g \in Seq(Fills), Continue(th, g),
         UNCHANGED <<taskInQueue, freezer, execTasks, tasks, requests>>
  PROVE  Token(t)'
<1>1. g \in Seq(Call) /\ ~Has(g, Carriers(t)) /\ AtMostOne(g, Carriers(t))
  BY HasNoFill DEF Fills, Carriers, TokenOps
<1>2. QED
  BY <1>1, TokenPasses

\* a handler that begins brings no token but that of a task nobody asked for yet
LEMMA TokenStarts ==
  ASSUME TypeInv, NEW t \in Task, Token(t), NEW th \in Thread, NEW g \in Seq(Call), Starts(th, g),
         UNCHANGED <<taskInQueue, freezer, execTasks, tasks>>,
         AtMostOne(g, Carriers(t)),
         Has(g, Carriers(t)) => requests[t] = 0 /\ requests'[t] # 0,
         requests'[t] = 0 => requests[t] = 0
  PROVE  Token(t)'
<1> DEFINE S == Carriers(t)
           p == stack'
<1>1. p = [stack EXCEPT ![th] = g] /\ stack[th] = <<>>
  BY DEF Starts, Idle
<1>2. stack \in Stacks
  BY StackIsStacks
<1> HIDE DEF S, p
<1>3. /\ Somewhere(p, S) <=> Somewhere(stack, S) \/ Has(g, S)
      /\ Sole(stack, S) /\ AtMostOne(g, S) /\ ~(Has(g, S) /\ Somewhere(stack, S)) => Sole(p, S)
  BY <1>1, <1>2, Begun
<1>4. Carried(t)' <=> Somewhere(p, S)
  BY DEF Carried, S, p
<1>5. Sole(stack, Carriers(t))' <=> Sole(p, S)
  BY DEF S, p
<1>6. (InOnePlace(t)' <=> InOnePlace(t)) /\ (Placed(t)' <=> Placed(t))
  BY SamePlaceFacts
<1>7. QED
  BY <1>3, <1>4, <1>5, <1>6 DEF Token, Carried, S

\* an exception may drop the token
LEMMA TokenDrops ==
  ASSUME TypeInv, NEW t \in Task, Token(t), NEW th \in Thread,
         stack' = [stack EXCEPT ![th] = <<>>],
         UNCHANGED <<taskInQueue, freezer, execTasks, tasks, requests>>
  PROVE  Token(t)'
<1> DEFINE S == Carriers(t)
           p == stack'
<1>1. stack \in Stacks
  BY StackIsStacks
<1> HIDE DEF S, p
<1>2. (Somewhere(p, S) => Somewhere(stack, S)) /\ (Sole(stack, S) => Sole(p, S))
  <2>1. p = [stack EXCEPT ![th] = <<>>]
    BY DEF p
  <2>2. QED
    BY <1>1, <2>1, Ended
<1>3. Carried(t)' <=> Somewhere(p, S)
  BY DEF Carried, S, p
<1>4. Sole(stack, Carriers(t))' <=> Sole(p, S)
  BY DEF S, p
<1>5. (InOnePlace(t)' <=> InOnePlace(t)) /\ (Placed(t)' <=> Placed(t))
  BY SamePlaceFacts
<1>6. QED
  BY <1>2, <1>3, <1>4, <1>5 DEF Token, Carried, S

\* no step but a call, an event or an exception touches it
LEMMA TokenStays ==
  ASSUME NEW t \in Task, Token(t), UNCHANGED <<taskInQueue, freezer, execTasks, tasks, stack, requests>>
  PROVE  Token(t)'
BY DEF Token, InOnePlace, Placed, Queued, Frozen, Held, Carried


LEMMA Thawed ==
  ASSUME TypeInv, NEW i \in 1 .. Len(freezer), freezer' = RemoveAt(freezer, i), NEW t
  PROVE  /\ Frozen(t)' => Frozen(t)
         /\ t = freezer[i] => Frozen(t)
         /\ t # freezer[i] => (Frozen(t)' <=> Frozen(t))
         /\ AtMostOne(freezer, {t}) => /\ AtMostOne(freezer', {t})
                                       /\ t = freezer[i] => ~Frozen(t)'
<1>1. freezer \in Seq(Task) /\ DOMAIN freezer = 1 .. Len(freezer)
  BY LenProperties DEF TypeInv, MindTypeOK
<1>2. (Frozen(t) <=> Has(freezer, {t})) /\ (Frozen(t)' <=> Has(freezer', {t}))
  BY ToSetIsHas DEF Frozen
<1>3. /\ Has(freezer', {t}) => Has(freezer, {t})
      /\ Has(freezer, {t}) => Has(freezer', {t}) \/ freezer[i] \in {t}
      /\ AtMostOne(freezer, {t}) => /\ AtMostOne(freezer', {t})
                                    /\ freezer[i] \in {t} => ~Has(freezer', {t})
  BY <1>1, HasRemoveAt
<1>4. t = freezer[i] => Has(freezer, {t})
  BY <1>1 DEF Has
<1>5. QED
  BY <1>2, <1>3, <1>4

LEMMA Unfrozen ==
  ASSUME TypeInv, NEW d, freezer' = RemoveFirst(freezer, d), NEW t
  PROVE  /\ Frozen(t)' => Frozen(t)
         /\ t # d => (Frozen(t)' <=> Frozen(t))
         /\ AtMostOne(freezer, {t}) => AtMostOne(freezer', {t}) /\ (t = d => ~Frozen(t)')
<1>1. freezer \in Seq(Task)
  BY DEF TypeInv, MindTypeOK
<1>2. (Frozen(t) <=> Has(freezer, {t})) /\ (Frozen(t)' <=> Has(freezer', {t}))
  BY ToSetIsHas DEF Frozen
<1>3. /\ Has(freezer', {t}) => Has(freezer, {t})
      /\ Has(freezer, {t}) => Has(freezer', {t}) \/ d \in {t}
      /\ AtMostOne(freezer, {t}) => /\ AtMostOne(freezer', {t})
                                    /\ d \in {t} => (Has(freezer', {t}) => ~Has(freezer, {d}))
  BY <1>1, HasRemoveFirst
<1>4. QED
  BY <1>2, <1>3

LEMMA FreezerGains ==
  ASSUME TypeInv, NEW d \in Task, freezer' = Append(freezer, d), NEW t
  PROVE  /\ Frozen(t)' <=> Frozen(t) \/ t = d
         /\ AtMostOne(freezer, {t}) /\ ~(Frozen(t) /\ t = d) => AtMostOne(freezer', {t})
<1>1. freezer \in Seq(Task)
  BY DEF TypeInv, MindTypeOK
<1>2. (Frozen(t) <=> Has(freezer, {t})) /\ (Frozen(t)' <=> Has(freezer', {t}))
  BY ToSetIsHas DEF Frozen
<1>3. /\ Has(freezer', {t}) <=> Has(freezer, {t}) \/ d \in {t}
      /\ AtMostOne(freezer, {t}) /\ ~(Has(freezer, {t}) /\ d \in {t}) => AtMostOne(freezer', {t})
  BY <1>1, HasAppend
<1>4. QED
  BY <1>2, <1>3

(***************************************************************************)
(* Every step of the mind keeps the tokens.                                *)
(***************************************************************************)
LEMMA AddExecutorToken ==
  ASSUME TypeInv, NEW t \in Task, Token(t), NEW th \in Thread, AddExecutor(th) PROVE Token(t)'
<1>1. /\ stack[th] # <<>>
      /\ UNCHANGED <<taskInQueue, freezer, execTasks, tasks, requests>>
      /\ \E g \in Seq(Fills) : Continue(th, g)
  BY AddExecutorSeen DEF At, qvars
<1>2. QED
  BY <1>1, TokenWaits

LEMMA AnnounceTypesToken ==
  ASSUME TypeInv, NEW t \in Task, Token(t), NEW th \in Thread, AnnounceTypes(th) PROVE Token(t)'
<1>1. /\ stack[th] # <<>>
      /\ UNCHANGED <<taskInQueue, freezer, execTasks, tasks, requests>>
      /\ \E g \in Seq(Fills) : Continue(th, g)
  BY AnnounceTypesSeen DEF At, qvars, svars
<1>2. QED
  BY <1>1, TokenWaits

LEMMA FillAllToken ==
  ASSUME TypeInv, NEW t \in Task, Token(t), NEW th \in Thread, FillAll(th) PROVE Token(t)'
<1>1. /\ stack[th] # <<>>
      /\ UNCHANGED <<taskInQueue, freezer, execTasks, tasks, requests>>
      /\ \E g \in Seq(Fills) : Continue(th, g)
  BY FillAllSeen DEF At, qvars, svars
<1>2. QED
  BY <1>1, TokenWaits

\* one call that carries no token, or none
LEMMA TokenPassesOne ==
  ASSUME TypeInv, NEW t \in Task, Token(t), NEW th \in Thread, stack[th] # <<>>,
         UNCHANGED <<taskInQueue, freezer, execTasks, requests>>,
         \/ Continue(th, <<>>)
         \/ \E a \in Call : Continue(th, <<a>>) /\ (a \in Carriers(t) => Top(th) \in Carriers(t)),
         t \in tasks' => t \in tasks \/ Top(th) \in Carriers(t)
  PROVE  Token(t)'
<1>1. CASE Continue(th, <<>>)
  <2>1. <<>> \in Seq(Call) /\ ~Has(<<>>, Carriers(t)) /\ AtMostOne(<<>>, Carriers(t))
    BY HasNone
  <2>2. QED
    BY <1>1, <2>1, TokenPasses
<1>2. ASSUME NEW a \in Call, Continue(th, <<a>>), a \in Carriers(t) => Top(th) \in Carriers(t)
      PROVE  Token(t)'
  <2>1. <<a>> \in Seq(Call) /\ (Has(<<a>>, Carriers(t)) <=> a \in Carriers(t)) /\ AtMostOne(<<a>>, Carriers(t))
    BY HasSingle
  <2>2. QED
    BY <1>2, <2>1, TokenPasses
<1>3. QED
  BY <1>1, <1>2

\* two calls, of which at most one carries the token
LEMMA TokenPassesTwo ==
  ASSUME TypeInv, NEW t \in Task, Token(t), NEW th \in Thread, stack[th] # <<>>,
         UNCHANGED <<taskInQueue, freezer, execTasks, tasks, requests>>,
         NEW a \in Call, NEW b \in Call, Continue(th, <<a, b>>),
         ~(a \in Carriers(t) /\ b \in Carriers(t)),
         a \in Carriers(t) \/ b \in Carriers(t) => Top(th) \in Carriers(t)
  PROVE  Token(t)'
<1>1. /\ <<a, b>> \in Seq(Call)
      /\ Has(<<a, b>>, Carriers(t)) <=> a \in Carriers(t) \/ b \in Carriers(t)
      /\ AtMostOne(<<a, b>>, Carriers(t))
  BY HasPair
<1>2. QED
  BY <1>1, TokenPasses

LEMMA RemoveExecutorToken ==
  ASSUME TypeInv, NEW t \in Task, Token(t), NEW th \in Thread, RemoveExecutor(th) PROVE Token(t)'
<1>1. /\ stack[th] # <<>>
      /\ UNCHANGED <<taskInQueue, freezer, execTasks, tasks, requests>>
      /\ \/ Continue(th, <<>>)
         \/ \E a \in Call : Continue(th, <<a>>) /\ a.op = "dropState"
  BY RemoveExecutorSeen DEF At, qvars, svars
<1>2. \A a \in Call : a.op = "dropState" => a \notin Carriers(t)
  BY DEF Carriers, TokenOps
<1>3. QED
  BY <1>1, <1>2, TokenPassesOne

LEMMA DropStateToken ==
  ASSUME TypeInv, NEW t \in Task, Token(t), NEW th \in Thread, DropState(th) PROVE Token(t)'
<1> DEFINE e == Top(th).exec
<1>1. /\ stack[th] # <<>> /\ Top(th).op = "dropState" /\ e \in Exec
      /\ UNCHANGED <<taskInQueue, freezer, tasks, requests>>
  BY DropStateSeen DEF At, qvars
<1>2. CASE StateRemoveExecutorFails(e) /\ Abort(th, e)
  BY <1>1, <1>2, TokenDrops DEF StateRemoveExecutorFails, Abort
<1>3. ASSUME StateRemoveExecutor(e),
             NEW a \in Call, NEW b \in Call, NEW r \in Seq(Fills), Continue(th, <<a, b>> \o r),
             a.op = "requeue", a.todo = execTasks[e], b.op = "closeTransport"
      PROVE  Token(t)'
  <2> DEFINE g == <<a, b>>
             S == Carriers(t)
  <2>1. execTasks' = [execTasks EXCEPT ![e] = {}]
    BY <1>3 DEF StateRemoveExecutor
  <2>2. execTasks \in [Exec -> SUBSET Task]
    BY DEF TypeInv, STypeOK
  <2>3. \A d \in Exec : Held(t, d)' <=> Held(t, d) /\ d # e
    BY <1>1, <2>1, <2>2 DEF Held
  <2>4. /\ (a \in S <=> Held(t, e)) /\ b \notin S
        /\ Top(th) \notin S
    BY <1>1, <1>3 DEF Carriers, TokenOps, Held
  <2>5. r \in Seq(Call) /\ ~Has(r, S) /\ AtMostOne(r, S)
    BY HasNoFill DEF Fills, Carriers, TokenOps
  <2>6. g \in Seq(Call) /\ (Has(g, S) <=> a \in S) /\ AtMostOne(g, S)
    BY <2>4, HasPair
  <2> HIDE DEF g, S
  <2>7. g \o r \in Seq(Call) /\ (Has(g \o r, S) <=> Held(t, e)) /\ AtMostOne(g \o r, S)
    BY <2>4, <2>5, <2>6, HasConcat, ConcatProperties
  <2>8. InOnePlace(t)' /\ (Placed(t)' => Placed(t)) /\ (Held(t, e) => Placed(t) /\ ~Placed(t)')
    BY <1>1, <2>3 DEF Token, InOnePlace, Placed, Queued, Frozen
  <2>9. Continue(th, g \o r)
    BY <1>3 DEF g
  <2> DEFINE h == g \o r
  <2>10. h \in Seq(Call) /\ Continue(th, h) /\ (Has(h, S) <=> Held(t, e)) /\ AtMostOne(h, S)
    BY <2>7, <2>9
  <2> HIDE DEF h
  <2>11. QED
    BY <1>1, <2>8, <2>10, TokenMoves DEF S
<1>4. QED
  BY <1>2, <1>3, DropStateSeen

LEMMA RequeueToken ==
  ASSUME TypeInv, NEW t \in Task, Token(t), NEW th \in Thread, Requeue(th) PROVE Token(t)'
<1> DEFINE f == Top(th)
<1>1. /\ stack[th] # <<>> /\ f.op = "requeue" /\ f \in Call
      /\ UNCHANGED <<taskInQueue, freezer, execTasks, tasks, requests>>
  BY RequeueSeen, TopIsCall DEF At, qvars, svars
<1>2. CASE Continue(th, <<>>)
  BY <1>1, <1>2, TokenPassesOne
<1>3. CASE Abort(th, f.exec)
  BY <1>1, <1>3, TokenDrops DEF Abort
<1>4. ASSUME NEW d \in f.todo, NEW a \in Call, NEW b \in Call, Continue(th, <<a, b>>),
             b.op = "requeue", b.todo = f.todo \ {d},
             a.task = d, a.op \in {"dispatchTask", "pushTask"}
      PROVE  Token(t)'
  <2>1. /\ f \in Carriers(t) <=> t \in f.todo
        /\ a \in Carriers(t) <=> t = d
        /\ b \in Carriers(t) <=> t \in f.todo /\ t # d
    BY <1>1, <1>4 DEF Carriers, TokenOps
  <2>2. QED
    BY <1>1, <1>4, <2>1, TokenPassesTwo
<1>5. QED
  BY <1>2, <1>3, <1>4, RequeueSeen

LEMMA DisconnectClientToken ==
  ASSUME TypeInv, NEW t \in Task, Token(t), NEW th \in Thread, DisconnectClient(th)
  PROVE  Token(t)'
<1>1. /\ stack[th] # <<>>
      /\ UNCHANGED <<taskInQueue, freezer, execTasks, tasks, requests>>
      /\ Continue(th, <<>>)
  BY DisconnectClientSeen DEF At, qvars, svars
<1>2. QED
  BY <1>1, TokenPassesOne


LEMMA FreezeTaskToken ==
  ASSUME TypeInv, NEW t \in Task, Token(t), NEW th \in Thread, FreezeTask(th) PROVE Token(t)'
<1> DEFINE f == Top(th)
           d == f.task
<1>1. /\ stack[th] # <<>> /\ f.op = "freezeTask" /\ f \in Call /\ d \in Task
      /\ UNCHANGED <<taskInQueue, execTasks, tasks, requests>>
  BY FreezeTaskSeen, TopIsCall DEF At, qvars, svars
<1>2. CASE Continue(th, <<>>) /\ UNCHANGED freezer
  BY <1>1, <1>2, TokenPassesOne
<1>3. ASSUME UNCHANGED freezer, NEW a \in Call, Continue(th, <<a>>), a.op = "removeTask"
      PROVE  Token(t)'
  <2>1. a \notin Carriers(t)
    BY <1>3 DEF Carriers, TokenOps
  <2>2. QED
    BY <1>1, <1>3, <2>1, TokenPassesOne
<1>4. CASE ~Frozen(d) /\ Continue(th, <<>>) /\ freezer' = Append(freezer, d)
  <2>1. /\ Frozen(t)' <=> Frozen(t) \/ t = d
        /\ AtMostOne(freezer, {t}) => AtMostOne(freezer', {t})
    BY <1>1, <1>4, FreezerGains
  <2>2. t = d => f \in Carriers(t) /\ Carried(t)
    <3>1. t = d => f \in Carriers(t)
      BY <1>1 DEF Carriers, TokenOps
    <3>2. f \in Carriers(t) => Has(stack[th], Carriers(t))
      BY <1>1, HasHeadTail DEF TypeInv, Top
    <3>3. QED
      BY <3>1, <3>2 DEF Carried, Somewhere
  <2>3. (Queued(t)' <=> Queued(t)) /\ \A e \in Exec : Held(t, e)' <=> Held(t, e)
    BY <1>1 DEF Queued, Held
  <2>4. InOnePlace(t)' /\ (Placed(t)' => Placed(t) \/ f \in Carriers(t))
    BY <2>1, <2>2, <2>3 DEF Token, InOnePlace, Placed
  <2>5. <<>> \in Seq(Call) /\ ~Has(<<>>, Carriers(t)) /\ AtMostOne(<<>>, Carriers(t))
    BY HasNone
  <2>6. QED
    BY <1>1, <1>4, <2>4, <2>5, TokenMoves
<1>5. QED
  BY <1>2, <1>3, <1>4, FreezeTaskSeen

LEMMA UnfreezeTasksToken ==
  ASSUME TypeInv, NEW t \in Task, Token(t), NEW th \in Thread, UnfreezeTasks(th) PROVE Token(t)'
<1> DEFINE f == Top(th)
<1>1. /\ stack[th] # <<>> /\ f.op = "unfreezeTasks" /\ f \in Call /\ f \in Fills
      /\ UNCHANGED <<taskInQueue, execTasks, tasks, requests>>
  BY UnfreezeTasksSeen, TopIsCall DEF At, qvars, svars
<1>2. f \notin Carriers(t) /\ \A a \in Fills : a \in Call /\ a \notin Carriers(t)
  BY <1>1 DEF Fills, Carriers, TokenOps
<1>3. CASE Continue(th, Again(f.loop)) /\ UNCHANGED freezer
  <2>1. Again(f.loop) \in Seq(Fills)
    BY <1>1, CallFields, AgainFills
  <2>2. QED
    BY <1>1, <1>3, <2>1, TokenWaits
<1>4. ASSUME UNCHANGED freezer, NEW a \in Fills, Continue(th, <<a>>) PROVE Token(t)'
  BY <1>1, <1>2, <1>4, TokenPassesOne
<1>5. ASSUME NEW i \in 1 .. Len(freezer), freezer' = RemoveAt(freezer, i),
             NEW g \in Seq(Call), Continue(th, g), AtMostOne(g, Carriers(t)),
             Has(g, Carriers(t)) => t = freezer[i]
      PROVE  Token(t)'
  <2>1. /\ Frozen(t)' => Frozen(t)
        /\ t = freezer[i] => Frozen(t)
        /\ t # freezer[i] => (Frozen(t)' <=> Frozen(t))
        /\ AtMostOne(freezer, {t}) => /\ AtMostOne(freezer', {t})
                                      /\ t = freezer[i] => ~Frozen(t)'
    BY <1>5, Thawed
  <2>2. (Queued(t)' <=> Queued(t)) /\ \A e \in Exec : Held(t, e)' <=> Held(t, e)
    BY <1>1 DEF Queued, Held
  <2>3. /\ InOnePlace(t)' /\ (Placed(t)' => Placed(t))
        /\ t = freezer[i] => Placed(t) /\ ~Placed(t)'
    BY <2>1, <2>2 DEF Token, InOnePlace, Placed
  <2>4. QED
    BY <1>1, <1>5, <2>3, TokenMoves
<1>6. ASSUME NEW i \in 1 .. Len(freezer), freezer' = RemoveAt(freezer, i), Continue(th, <<f>>)
      PROVE  Token(t)'
  <2>1. <<f>> \in Seq(Call) /\ ~Has(<<f>>, Carriers(t)) /\ AtMostOne(<<f>>, Carriers(t))
    BY <1>1, <1>2, HasSingle
  <2>2. QED
    BY <1>5, <1>6, <2>1
<1>7. ASSUME NEW i \in 1 .. Len(freezer), freezer' = RemoveAt(freezer, i),
             NEW a \in Call, Continue(th, <<a, f>>), a.op = "dispatchTask", a.task = freezer[i]
      PROVE  Token(t)'
  <2>1. a \in Carriers(t) => t = freezer[i]
    BY <1>7 DEF Carriers, TokenOps
  <2>2. <<a, f>> \in Seq(Call) /\ (Has(<<a, f>>, Carriers(t)) => a \in Carriers(t)) /\ AtMostOne(<<a, f>>, Carriers(t))
    BY <1>1, <1>2, HasPair
  <2>3. QED
    BY <1>5, <1>7, <2>1, <2>2
<1>8. QED
  BY <1>3, <1>4, <1>6, <1>7, UnfreezeTasksSeen

LEMMA AddTaskToken ==
  ASSUME TypeInv, NEW t \in Task, Token(t), NEW th \in Thread, AddTask(th) PROVE Token(t)'
<1> DEFINE d == Top(th).task
<1>1. /\ stack[th] # <<>> /\ Top(th).op = "addTask" /\ Top(th) \in Call /\ d \in Task
      /\ UNCHANGED <<taskInQueue, freezer, execTasks, requests>>
  BY AddTaskSeen, TopIsCall DEF At, qvars, svars
<1>2. ASSUME UNCHANGED tasks, NEW g \in Seq(Fills), Continue(th, g) PROVE Token(t)'
  BY <1>1, <1>2, TokenWaits
<1>3. ASSUME tasks' = tasks \cup {d},
             NEW a \in Call, Continue(th, <<a>>), a.op = "dispatchTask", a.task = d
      PROVE  Token(t)'
  <2>1. /\ Top(th) \in Carriers(t) <=> t = d
        /\ a \in Carriers(t) => t = d
    BY <1>1, <1>3 DEF Carriers, TokenOps
  <2>2. QED
    BY <1>1, <1>3, <2>1, TokenPassesOne
<1>4. QED
  BY <1>2, <1>3, AddTaskSeen

LEMMA DispatchTaskToken ==
  ASSUME TypeInv, NEW t \in Task, Token(t), NEW th \in Thread, DispatchTask(th) PROVE Token(t)'
<1> DEFINE d == Top(th).task
<1>1. /\ stack[th] # <<>> /\ Top(th).op = "dispatchTask" /\ Top(th) \in Call /\ d \in Task
      /\ UNCHANGED <<taskInQueue, execTasks, tasks, requests>>
  BY DispatchTaskSeen, TopIsCall DEF At, qvars, svars
<1>2. CASE Continue(th, <<>>) /\ UNCHANGED freezer
  BY <1>1, <1>2, TokenPassesOne
<1>3. ASSUME freezer' = RemoveFirst(freezer, d),
             NEW a \in Call, Continue(th, <<a>>), a.op = "getNextExecutor", a.task = d
      PROVE  Token(t)'
  <2>1. /\ Top(th) \in Carriers(t) <=> t = d
        /\ a \in Carriers(t) <=> t = d
    BY <1>1, <1>3 DEF Carriers, TokenOps
  <2>2. /\ Frozen(t)' => Frozen(t)
        /\ t # d => (Frozen(t)' <=> Frozen(t))
        /\ AtMostOne(freezer, {t}) => AtMostOne(freezer', {t})
    BY <1>3, Unfrozen
  <2>3. (Queued(t)' <=> Queued(t)) /\ \A e \in Exec : Held(t, e)' <=> Held(t, e)
    BY <1>1 DEF Queued, Held
  <2>4. t = d => ~Placed(t)
    <3>1. Top(th) \in Carriers(t) => Has(stack[th], Carriers(t))
      BY <1>1, HasHeadTail DEF TypeInv, Top
    <3>2. QED
      BY <2>1, <3>1 DEF Token, Carried, Somewhere
  <2>5. InOnePlace(t)' /\ (Placed(t)' => Placed(t))
    BY <2>2, <2>3 DEF Token, InOnePlace, Placed
  <2>6. <<a>> \in Seq(Call) /\ (Has(<<a>>, Carriers(t)) <=> t = d) /\ AtMostOne(<<a>>, Carriers(t))
    BY <2>1, HasSingle
  <2>7. QED
    BY <1>1, <1>3, <2>1, <2>4, <2>5, <2>6, TokenMoves
<1>4. QED
  BY <1>2, <1>3, DispatchTaskSeen

LEMMA GetNextExecutorToken ==
  ASSUME TypeInv, NEW t \in Task, Token(t), NEW th \in Thread, GetNextExecutor(th)
  PROVE  Token(t)'
<1> DEFINE d == Top(th).task
<1>1. /\ stack[th] # <<>> /\ Top(th).op = "getNextExecutor" /\ Top(th) \in Call /\ d \in Task
      /\ UNCHANGED <<taskInQueue, freezer, execTasks, tasks, requests>>
  BY GetNextExecutorSeen, TopIsCall DEF At, qvars, svars
<1>2. Top(th) \in Carriers(t) <=> t = d
  BY <1>1 DEF Carriers, TokenOps
<1>3. ASSUME NEW a \in Call, Continue(th, <<a>>), a.op \in {"freezeTask", "removeTask"}, a.task = d
      PROVE  Token(t)'
  <2>1. a \in Carriers(t) => t = d
    BY <1>3 DEF Carriers, TokenOps
  <2>2. QED
    BY <1>1, <1>2, <1>3, <2>1, TokenPassesOne
<1>4. ASSUME NEW a \in Call, NEW b \in Call, Continue(th, <<a, b>>),
             a.op = "pushTask", a.task = d, b \in Fills
      PROVE  Token(t)'
  <2>1. (a \in Carriers(t) => t = d) /\ b \notin Carriers(t)
    BY <1>4 DEF Carriers, TokenOps, Fills
  <2>2. QED
    BY <1>1, <1>2, <1>4, <2>1, TokenPassesTwo
<1>5. QED
  BY <1>3, <1>4, GetNextExecutorSeen

LEMMA PushTaskStepToken ==
  ASSUME TypeInv, NEW t \in Task, Token(t), NEW th \in Thread, PushTaskStep(th) PROVE Token(t)'
<1> DEFINE d == Top(th).task
<1>1. /\ stack[th] # <<>> /\ Top(th).op = "pushTask" /\ Top(th) \in Call /\ d \in Task
      /\ UNCHANGED <<freezer, execTasks, tasks, requests>>
      /\ Continue(th, <<>>)
      /\ t # d => (Queued(t)' <=> Queued(t))
  BY PushTaskStepSeen, TopIsCall DEF At, svars, Queued
<1>2. Top(th) \in Carriers(t) <=> t = d
  BY <1>1 DEF Carriers, TokenOps
<1>3. t = d => ~Placed(t)
  <2>1. Top(th) \in Carriers(t) => Has(stack[th], Carriers(t))
    BY <1>1, HasHeadTail DEF TypeInv, Top
  <2>2. QED
    BY <1>2, <2>1 DEF Token, Carried, Somewhere
<1>4. (Frozen(t)' <=> Frozen(t)) /\ \A e \in Exec : Held(t, e)' <=> Held(t, e)
  BY <1>1 DEF Frozen, Held
<1>5. InOnePlace(t)' /\ (Placed(t)' => Placed(t) \/ t = d)
  BY <1>1, <1>3, <1>4 DEF Token, InOnePlace, Placed
<1>6. <<>> \in Seq(Call) /\ ~Has(<<>>, Carriers(t)) /\ AtMostOne(<<>>, Carriers(t))
  BY HasNone
<1>7. QED
  BY <1>1, <1>2, <1>5, <1>6, TokenMoves

LEMMA RemoveTaskToken ==
  ASSUME TypeInv, NEW t \in Task, Token(t), NEW th \in Thread, RemoveTask(th) PROVE Token(t)'
<1> DEFINE d == Top(th).task
<1>1. /\ stack[th] # <<>>
      /\ UNCHANGED <<taskInQueue, freezer, execTasks, requests>>
      /\ tasks' \subseteq tasks
      /\ Continue(th, <<>>) \/ CleanUp(th, d)
  BY RemoveTaskSeen DEF At, qvars, svars
<1>2. CASE Continue(th, <<>>)
  BY <1>1, <1>2, TokenPassesOne
<1>3. CASE CleanUp(th, d)
  <2>1. PICK a \in Call, b \in Call, c \in Call, r \in Seq(Call) :
           /\ Continue(th, <<a, b, c>> \o r)
           /\ a.op = "removeQueued" /\ a.task = d
           /\ b.op = "removeRunning" /\ b.task = d
           /\ c.op = "removeFrozen" /\ c.task = d
           /\ \/ taskInExec[d] = NoExec /\ r = <<>>
              \/ \E x \in Call : r = <<x>> /\ x.op = "sendIfIdle" /\ x.exec = taskInExec[d]
    BY <1>3, Zenon DEF CleanUp
  <2> DEFINE g == <<a, b, c>>
             S == Carriers(t)
             h == g \o r
  <2>2. a \notin S /\ b \notin S /\ c \notin S /\ \A x \in Call : x.op = "sendIfIdle" => x \notin S
    BY <2>1 DEF Carriers, TokenOps
  <2> HIDE DEF S
  <2>3. ~Has(r, S) /\ AtMostOne(r, S)
    BY <2>1, <2>2, HasNone, HasSingle
  <2>4. g \in Seq(Call) /\ ~Has(g, S) /\ AtMostOne(g, S)
    BY <2>2, HasTriple
  <2>5. Continue(th, h)
    BY <2>1
  <2> HIDE DEF g
  <2>6. h \in Seq(Call) /\ ~Has(h, S) /\ AtMostOne(h, S)
    BY <2>3, <2>4, HasConcat, ConcatProperties
  <2> HIDE DEF h
  <2>7. QED
    BY <1>1, <2>5, <2>6, TokenPasses DEF S
<1>4. QED
  BY <1>1, <1>2, <1>3

\* a step that only takes t out of a place
LEMMA TokenLeaves ==
  ASSUME TypeInv, NEW t \in Task, Token(t), NEW th \in Thread, stack[th] # <<>>,
         NEW g \in Seq(Fills), Continue(th, g), UNCHANGED <<tasks, requests>>,
         Queued(t)' => Queued(t), Frozen(t)' => Frozen(t),
         AtMostOne(freezer, {t}) => AtMostOne(freezer', {t}),
         \A e \in Exec : Held(t, e)' => Held(t, e)
  PROVE  Token(t)'
<1>1. g \in Seq(Call) /\ ~Has(g, Carriers(t)) /\ AtMostOne(g, Carriers(t))
  BY HasNoFill DEF Fills, Carriers, TokenOps
<1>2. InOnePlace(t)' /\ (Placed(t)' => Placed(t))
  BY DEF Token, InOnePlace, Placed
<1>3. QED
  BY <1>1, <1>2, TokenMoves

LEMMA RemoveQueuedToken ==
  ASSUME TypeInv, NEW t \in Task, Token(t), NEW th \in Thread, RemoveQueued(th) PROVE Token(t)'
<1>1. /\ stack[th] # <<>> /\ UNCHANGED <<freezer, execTasks, tasks, requests>>
      /\ Continue(th, <<>>)
      /\ Queued(t)' => Queued(t)
  BY RemoveQueuedSeen DEF At, svars, Queued
<1>2. (Frozen(t)' => Frozen(t)) /\ \A e \in Exec : Held(t, e)' => Held(t, e)
  BY <1>1 DEF Frozen, Held
<1>3. <<>> \in Seq(Fills)
  OBVIOUS
<1>4. QED
  BY <1>1, <1>2, <1>3, TokenLeaves

LEMMA LessHeld ==
  ASSUME TypeInv, NEW d \in Task, NEW e \in Exec, StateRemoveTaskFrom(e, d), NEW t, NEW c \in Exec
  PROVE  Held(t, c)' <=> Held(t, c) /\ ~(HoldsTask(e, d) /\ t = d /\ c = e)
<1>1. execTasks \in [Exec -> SUBSET Task]
  BY DEF TypeInv, STypeOK
<1>2. CASE HoldsTask(e, d)
  BY <1>1, <1>2 DEF StateRemoveTaskFrom, Held
<1>3. CASE ~HoldsTask(e, d)
  BY <1>3 DEF StateRemoveTaskFrom, Held, svars
<1>4. QED
  BY <1>2, <1>3

LEMMA RemoveRunningToken ==
  ASSUME TypeInv, NEW t \in Task, Token(t), NEW th \in Thread, RemoveRunning(th) PROVE Token(t)'
<1> DEFINE d == Top(th).task
<1>1. /\ stack[th] # <<>> /\ d \in Task /\ UNCHANGED <<taskInQueue, freezer, tasks, requests>>
      /\ Continue(th, Again(Top(th).loop))
      /\ Again(Top(th).loop) \in Seq(Fills)
      /\ StateRemoveTask(d)
  BY RemoveRunningSeen, AgainFills DEF At, qvars
<1>2. (Queued(t)' => Queued(t)) /\ (Frozen(t)' => Frozen(t))
  BY <1>1 DEF Queued, Frozen
<1>3. \A e \in Exec : Held(t, e)' => Held(t, e)
  <2>1. CASE taskInExec[d] # NoExec
    <3>1. taskInExec[d] \in Exec /\ StateRemoveTaskFrom(taskInExec[d], d)
      BY <1>1, <2>1 DEF StateRemoveTask, TypeInv, STypeOK
    <3>2. QED
      BY <1>1, <3>1, LessHeld
  <2>2. CASE taskInExec[d] = NoExec
    BY <1>1, <2>2 DEF StateRemoveTask, svars, Held
  <2>3. QED
    BY <2>1, <2>2
<1>4. QED
  BY <1>1, <1>2, <1>3, TokenLeaves

LEMMA RemoveFrozenToken ==
  ASSUME TypeInv, NEW t \in Task, Token(t), NEW th \in Thread, RemoveFrozen(th) PROVE Token(t)'
<1>1. /\ stack[th] # <<>> /\ UNCHANGED <<taskInQueue, execTasks, tasks, requests>>
      /\ Continue(th, <<>>)
      /\ freezer' = RemoveFirst(freezer, Top(th).task)
  BY RemoveFrozenSeen DEF At, qvars, svars
<1>2. (Frozen(t)' => Frozen(t)) /\ (AtMostOne(freezer, {t}) => AtMostOne(freezer', {t}))
  BY <1>1, Unfrozen
<1>3. (Queued(t)' => Queued(t)) /\ \A e \in Exec : Held(t, e)' => Held(t, e)
  BY <1>1 DEF Queued, Held
<1>4. <<>> \in Seq(Fills)
  OBVIOUS
<1>5. QED
  BY <1>1, <1>2, <1>3, <1>4, TokenLeaves


LEMMA FillLoopToken ==
  ASSUME TypeInv, NEW t \in Task, Token(t), NEW th \in Thread, FillLoop(th) PROVE Token(t)'
<1>1. /\ stack[th] # <<>>
      /\ UNCHANGED <<taskInQueue, freezer, execTasks, tasks, requests>>
  BY FillLoopSeen DEF At, qvars, svars
<1>2. CASE Continue(th, <<>>)
  BY <1>1, <1>2, TokenPassesOne
<1>3. ASSUME NEW a \in Call, Continue(th, <<a>>), a.op = "send" PROVE Token(t)'
  <2>1. a \notin Carriers(t)
    BY <1>3 DEF Carriers, TokenOps
  <2>2. QED
    BY <1>1, <1>3, <2>1, TokenPassesOne
<1>4. QED
  BY <1>2, <1>3, FillLoopSeen

LEMMA SendIfIdleToken ==
  ASSUME TypeInv, NEW t \in Task, Token(t), NEW th \in Thread, SendIfIdle(th) PROVE Token(t)'
<1>1. /\ stack[th] # <<>>
      /\ UNCHANGED <<taskInQueue, freezer, execTasks, tasks, requests>>
  BY SendIfIdleSeen DEF At, qvars, svars
<1>2. CASE Continue(th, <<>>)
  BY <1>1, <1>2, TokenPassesOne
<1>3. ASSUME NEW a \in Call, Continue(th, <<a>>), a.op = "send" PROVE Token(t)'
  <2>1. a \notin Carriers(t)
    BY <1>3 DEF Carriers, TokenOps
  <2>2. QED
    BY <1>1, <1>3, <2>1, TokenPassesOne
<1>4. QED
  BY <1>2, <1>3, SendIfIdleSeen

\* the call on top of a stack is a call of the stacks
LEMMA TopCarries ==
  ASSUME TypeInv, NEW t \in Task, NEW th \in Thread, stack[th] # <<>>, Top(th) \in Carriers(t)
  PROVE  Carried(t)
<1>1. Has(stack[th], Carriers(t))
  BY HasHeadTail DEF TypeInv, Top
<1>2. QED
  BY <1>1 DEF Carried, Somewhere

LEMMA PickedToken ==
  ASSUME TypeInv, NEW t \in Task, Token(t), NEW th \in Thread, stack[th] # <<>>,
         Top(th).op = "send",
         UNCHANGED <<freezer, execTasks, tasks, requests>>,
         NEW y \in Type, Picked(th, Top(th), y)
  PROVE  Token(t)'
<1>1. PICK a \in Call :
         /\ Continue(th, <<a>>)
         /\ a.op = "handOver" /\ a.exec = Top(th).exec /\ a.type = y /\ a.loop = Top(th).loop
         /\ a.task \in Task /\ taskInQueue[a.task] = y
         /\ \A d \in Task : taskInQueue'[d] = IF d = a.task THEN NoType ELSE taskInQueue[d]
  BY Zenon DEF Picked
<1> DEFINE d == a.task
<1>2. a \in Carriers(t) <=> t = d
  BY <1>1 DEF Carriers, TokenOps
<1>3. Queued(d) /\ ~Queued(d)' /\ (t # d => (Queued(t)' <=> Queued(t)))
  <2>1. y # NoType
    BY IdAssumption
  <2>2. QED
    BY <1>1, <2>1 DEF Queued
<1>4. (Frozen(t)' <=> Frozen(t)) /\ \A e \in Exec : Held(t, e)' <=> Held(t, e)
  BY DEF Frozen, Held
<1>5. <<a>> \in Seq(Call) /\ (Has(<<a>>, Carriers(t)) <=> t = d) /\ AtMostOne(<<a>>, Carriers(t))
  BY <1>2, HasSingle
<1>6. InOnePlace(t)' /\ (Placed(t)' => Placed(t)) /\ (t = d => Placed(t) /\ ~Placed(t)')
  BY <1>3, <1>4 DEF Token, InOnePlace, Placed
<1> DEFINE g == <<a>>
<1>7. g \in Seq(Call) /\ Continue(th, g)
      /\ (Has(g, Carriers(t)) <=> t = d) /\ AtMostOne(g, Carriers(t))
  BY <1>1, <1>5
<1> HIDE DEF g, d
<1>8. QED
  BY <1>6, <1>7, TokenMoves

LEMMA SendToken ==
  ASSUME TypeInv, NEW t \in Task, Token(t), NEW th \in Thread, Send(th) PROVE Token(t)'
<1>1. /\ stack[th] # <<>> /\ Top(th).op = "send" /\ Top(th).loop \in Type \cup {NoType}
      /\ UNCHANGED <<freezer, execTasks, tasks, requests>>
  BY SendSeen DEF At, svars
<1>2. CASE UNCHANGED qvars /\ Continue(th, Again(Top(th).loop))
  <2>1. Again(Top(th).loop) \in Seq(Fills)
    BY <1>1, AgainFills
  <2>2. QED
    BY <1>1, <1>2, <2>1, TokenWaits DEF qvars
<1>3. CASE UNCHANGED qvars /\ Continue(th, <<>>)
  BY <1>1, <1>3, TokenPassesOne DEF qvars
<1>4. ASSUME NEW y \in Type, Picked(th, Top(th), y) PROVE Token(t)'
  BY <1>1, <1>4, PickedToken
<1>5. QED
  BY <1>2, <1>3, <1>4, SendSeen

LEMMA HandOverToken ==
  ASSUME TypeInv, NEW t \in Task, Token(t), NEW th \in Thread, HandOver(th) PROVE Token(t)'
<1> DEFINE d == Top(th).task
           e == Top(th).exec
<1>1. /\ stack[th] # <<>> /\ Top(th).op = "handOver" /\ Top(th) \in Call /\ d \in Task /\ e \in Exec
      /\ UNCHANGED <<taskInQueue, freezer, tasks, requests>>
      /\ StateAddTask(e, d)
  BY HandOverSeen, TopIsCall DEF At, qvars
<1>2. PICK a \in Call : Continue(th, <<a>>) /\ a.op = "message"
  BY HandOverSeen
<1>3. Top(th) \in Carriers(t) <=> t = d
  BY <1>1 DEF Carriers, TokenOps
<1>4. a \notin Carriers(t)
  BY <1>2 DEF Carriers, TokenOps
<1>5. \A c \in Exec : Held(t, c)' => Held(t, c) \/ (t = d /\ c = e)
  BY <1>1 DEF StateAddTask, Held, TypeInv, STypeOK
<1>6. t = d => ~Placed(t)
  BY <1>1, <1>3, TopCarries DEF Token
<1>7. (Queued(t)' <=> Queued(t)) /\ (Frozen(t)' <=> Frozen(t))
  BY <1>1 DEF Queued, Frozen
<1> HIDE DEF d, e
<1>8. InOnePlace(t)' /\ (Placed(t)' => Placed(t) \/ t = d)
  BY <1>1, <1>5, <1>6, <1>7 DEF Token, InOnePlace, Placed
<1>9. <<a>> \in Seq(Call) /\ ~Has(<<a>>, Carriers(t)) /\ AtMostOne(<<a>>, Carriers(t))
  BY <1>4, HasSingle
<1>10. QED
  BY <1>1, <1>2, <1>3, <1>8, <1>9, TokenMoves

LEMMA MessageToken ==
  ASSUME TypeInv, Once, NEW t \in Task, Token(t), NEW th \in Thread, Message(th) PROVE Token(t)'
<1>1. /\ stack[th] # <<>> /\ Top(th).loop \in Type \cup {NoType}
      /\ UNCHANGED <<taskInQueue, freezer, execTasks, tasks, requests>>
  BY MessageSeen DEF At, qvars, svars
<1>2. ASSUME NEW a \in Call, Continue(th, <<a>>), a.op = "removeRunning" PROVE Token(t)'
  <2>1. a \notin Carriers(t)
    BY <1>2 DEF Carriers, TokenOps
  <2>2. QED
    BY <1>1, <1>2, <2>1, TokenPassesOne
<1>3. CASE Continue(th, Again(Top(th).loop))
  <2>1. Again(Top(th).loop) \in Seq(Fills)
    BY <1>1, AgainFills
  <2>2. QED
    BY <1>1, <1>3, <2>1, TokenWaits
<1>4. QED
  BY <1>2, <1>3, MessageSeen DEF Once


LEMMA TaskReceivedToken ==
  ASSUME TypeInv, NEW t \in Task, Token(t), NEW th \in Thread, TaskReceived(th) PROVE Token(t)'
<1> DEFINE d == Top(th).task
           e == Top(th).exec
<1>1. /\ stack[th] # <<>> /\ d \in Task /\ e \in Exec
      /\ UNCHANGED <<taskInQueue, freezer, tasks, requests>>
  BY TaskReceivedSeen DEF At, qvars
<1>2. CASE UNCHANGED svars /\ Continue(th, <<>>)
  BY <1>1, <1>2, TokenPassesOne DEF svars
<1>3. ASSUME NEW a \in Call, Continue(th, <<a>>), StateRemoveTaskFrom(e, d),
             \/ RemoveSucceeds(e, d) /\ a.op = "taskReturned" /\ a.task = d
             \/ ~RemoveSucceeds(e, d) /\ a.op = "send"
      PROVE  Token(t)'
  <2>1. \A c \in Exec : Held(t, c)' <=> Held(t, c) /\ ~(HoldsTask(e, d) /\ t = d /\ c = e)
    BY <1>1, <1>3, LessHeld
  <2>2. a \in Carriers(t) => t = d /\ HoldsTask(e, d)
    BY <1>3 DEF Carriers, TokenOps, RemoveSucceeds
  <2>3. HoldsTask(e, d) => Held(d, e)
    BY DEF HoldsTask, Held
  <2>4. (Queued(t)' <=> Queued(t)) /\ (Frozen(t)' <=> Frozen(t))
    BY <1>1 DEF Queued, Frozen
  <2> HIDE DEF d, e
  <2>5. InOnePlace(t)' /\ (Placed(t)' => Placed(t)) /\ (a \in Carriers(t) => Placed(t) /\ ~Placed(t)')
    BY <1>1, <2>1, <2>2, <2>3, <2>4 DEF Token, InOnePlace, Placed
  <2>6. <<a>> \in Seq(Call) /\ (Has(<<a>>, Carriers(t)) <=> a \in Carriers(t))
        /\ AtMostOne(<<a>>, Carriers(t))
    BY HasSingle
  <2> DEFINE g == <<a>>
  <2>7. /\ g \in Seq(Call) /\ Continue(th, g) /\ AtMostOne(g, Carriers(t))
        /\ Has(g, Carriers(t)) => Placed(t) /\ ~Placed(t)'
    BY <1>3, <2>5, <2>6
  <2> HIDE DEF g
  <2>8. QED
    BY <1>1, <2>5, <2>7, TokenMoves
<1>4. QED
  BY <1>2, <1>3, TaskReceivedSeen

LEMMA TaskReturnedToken ==
  ASSUME TypeInv, NEW t \in Task, Token(t), NEW th \in Thread, TaskReturned(th) PROVE Token(t)'
<1> DEFINE f == Top(th)
           d == f.task
           e == f.exec
<1>1. /\ stack[th] # <<>> /\ f.op = "taskReturned" /\ f \in Call /\ d \in Task
      /\ UNCHANGED <<taskInQueue, freezer, execTasks, tasks, requests>>
  BY TaskReturnedSeen, TopIsCall DEF At, qvars, svars
<1>2. f \in Carriers(t) <=> t = d
  BY <1>1 DEF Carriers, TokenOps
<1>3. CASE Abort(th, e)
  BY <1>1, <1>3, TokenDrops DEF Abort
<1>4. ASSUME NEW a \in Call, NEW b \in Call, Continue(th, <<a, b>>),
             a.op = "removeExecutor", b.op = "dispatchTask", b.task = d
      PROVE  Token(t)'
  <2>1. a \notin Carriers(t) /\ (b \in Carriers(t) => t = d)
    BY <1>4 DEF Carriers, TokenOps
  <2>2. QED
    BY <1>1, <1>2, <1>4, <2>1, TokenPassesTwo
<1>5. ASSUME NEW a \in Call, Continue(th, <<a>>), a.op = "storeTask", a.task = d PROVE Token(t)'
  <2>1. a \in Carriers(t) => t = d
    BY <1>5 DEF Carriers, TokenOps
  <2>2. QED
    BY <1>1, <1>2, <1>5, <2>1, TokenPassesOne
<1>6. ASSUME NEW a \in Call, NEW r \in Seq(Call), Continue(th, <<a>> \o r), a.op = "send",
             r = <<>> \/ \E b \in Call : r = <<b>> /\ b.op = "removeTask"
      PROVE  Token(t)'
  <2>1. a \notin Carriers(t) /\ \A b \in Call : b.op = "removeTask" => b \notin Carriers(t)
    BY <1>6 DEF Carriers, TokenOps
  <2> DEFINE S == Carriers(t)
             g == <<a>>
             h == g \o r
  <2>2. /\ ~Has(r, S) /\ AtMostOne(r, S)
        /\ g \in Seq(Call) /\ ~Has(g, S) /\ AtMostOne(g, S)
    BY <1>6, <2>1, HasNone, HasSingle
  <2>3. Continue(th, h)
    BY <1>6
  <2> HIDE DEF g, S
  <2>4. h \in Seq(Call) /\ ~Has(h, S) /\ AtMostOne(h, S)
    BY <1>6, <2>2, HasConcat, ConcatProperties
  <2> HIDE DEF h
  <2>5. QED
    BY <1>1, <2>3, <2>4, TokenPasses DEF S
<1>7. QED
  BY <1>3, <1>4, <1>5, <1>6, TaskReturnedSeen

LEMMA StoreTaskToken ==
  ASSUME TypeInv, NEW t \in Task, Token(t), NEW th \in Thread, StoreTask(th) PROVE Token(t)'
<1> DEFINE d == Top(th).task
<1>1. /\ stack[th] # <<>> /\ Top(th).op = "storeTask" /\ Top(th) \in Call
      /\ UNCHANGED <<taskInQueue, freezer, execTasks, tasks, requests>>
  BY StoreTaskSeen, TopIsCall DEF At, qvars, svars
<1>2. Top(th) \in Carriers(t) <=> t = d
  BY <1>1 DEF Carriers, TokenOps
<1>3. ASSUME NEW b \in Call, b.op = "send", Continue(th, <<b>>) PROVE Token(t)'
  <2>1. b \notin Carriers(t)
    BY <1>3 DEF Carriers, TokenOps
  <2>2. QED
    BY <1>1, <1>3, <2>1, TokenPassesOne
<1>4. ASSUME NEW a \in Call, NEW b \in Call, b.op = "send", Continue(th, <<a, b>>),
             a.op \in {"dispatchTask", "freezeTask"}, a.task = d
      PROVE  Token(t)'
  <2>1. b \notin Carriers(t) /\ (a \in Carriers(t) => t = d)
    BY <1>4 DEF Carriers, TokenOps
  <2>2. QED
    BY <1>1, <1>2, <1>4, <2>1, TokenPassesTwo
<1>5. QED
  BY <1>3, <1>4, StoreTaskSeen

LEMMA ThreadStepToken ==
  ASSUME TypeInv, Once, NEW t \in Task, Token(t), NEW th \in Thread, ThreadStep(th)
  PROVE  Token(t)'
BY AddExecutorToken, AnnounceTypesToken, RemoveExecutorToken, DropStateToken, RequeueToken,
   DisconnectClientToken, FreezeTaskToken, UnfreezeTasksToken, AddTaskToken, DispatchTaskToken,
   GetNextExecutorToken, PushTaskStepToken, RemoveTaskToken, RemoveQueuedToken,
   RemoveRunningToken, RemoveFrozenToken, FillLoopToken, FillAllToken, SendToken,
   SendIfIdleToken, HandOverToken, MessageToken, TaskReceivedToken, TaskReturnedToken,
   StoreTaskToken DEF ThreadStep

\* a handler that brings no token
LEMMA TokenAside ==
  ASSUME TypeInv, NEW t \in Task, Token(t), NEW th \in Thread, NEW g \in Seq(Call), Starts(th, g),
         UNCHANGED <<taskInQueue, freezer, execTasks, tasks, requests>>, ~Has(g, Carriers(t))
  PROVE  Token(t)'
<1>1. AtMostOne(g, Carriers(t))
  BY DEF Has, AtMostOne
<1>2. QED
  BY <1>1, TokenStarts

LEMMA ConnectToken ==
  ASSUME TypeInv, NEW t \in Task, Token(t), NEW th \in Worker, NEW e \in Exec, Connect(th, e)
  PROVE  Token(t)'
<1>1. UNCHANGED <<taskInQueue, freezer, execTasks, tasks, requests>> /\ th \in Thread
  BY ConnectSeen DEF qvars, svars, Thread
<1>2. PICK a \in Call : Starts(th, <<a>>) /\ a.op = "addExecutor"
  BY ConnectSeen
<1>3. a \notin Carriers(t)
  BY <1>2 DEF Carriers, TokenOps
<1>4. <<a>> \in Seq(Call) /\ ~Has(<<a>>, Carriers(t))
  BY <1>3, HasSingle
<1>5. QED
  BY <1>1, <1>2, <1>4, TokenAside

LEMMA HandleDropToken ==
  ASSUME TypeInv, NEW t \in Task, Token(t), NEW th \in Worker, NEW e \in Exec, HandleDrop(th, e)
  PROVE  Token(t)'
<1>1. UNCHANGED <<taskInQueue, freezer, execTasks, tasks, requests>> /\ th \in Thread
  BY HandleDropSeen DEF qvars, svars, Thread
<1>2. PICK a \in Call : Starts(th, <<a>>) /\ a.op = "removeExecutor"
  BY HandleDropSeen
<1>3. a \notin Carriers(t)
  BY <1>2 DEF Carriers, TokenOps
<1>4. <<a>> \in Seq(Call) /\ ~Has(<<a>>, Carriers(t))
  BY <1>3, HasSingle
<1>5. QED
  BY <1>1, <1>2, <1>4, TokenAside

LEMMA HandleReplyToken ==
  ASSUME TypeInv, NEW t \in Task, Token(t), NEW th \in Worker, NEW e \in Exec, NEW kind \in Replies,
         HandleReply(th, e, kind)
  PROVE  Token(t)'
<1>1. UNCHANGED <<taskInQueue, freezer, execTasks, tasks, requests>> /\ th \in Thread
  BY HandleReplySeen DEF qvars, svars, Thread
<1>2. ASSUME NEW a \in Call, Starts(th, <<a>>), a.op \in {"taskReceived", "removeTask"}
      PROVE  Token(t)'
  <2>1. a \notin Carriers(t)
    BY <1>2 DEF Carriers, TokenOps
  <2>2. <<a>> \in Seq(Call) /\ ~Has(<<a>>, Carriers(t))
    BY <2>1, HasSingle
  <2>3. QED
    BY <1>1, <1>2, <2>2, TokenAside
<1>3. ASSUME NEW a \in Call, NEW b \in Call, Starts(th, <<a, b>>),
             a.op = "removeExecutor", b.op = "closeTransport"
      PROVE  Token(t)'
  <2>1. a \notin Carriers(t) /\ b \notin Carriers(t)
    BY <1>3 DEF Carriers, TokenOps
  <2>2. <<a, b>> \in Seq(Call) /\ ~Has(<<a, b>>, Carriers(t))
    BY <2>1, HasPair
  <2>3. QED
    BY <1>1, <1>3, <2>2, TokenAside
<1>4. QED
  BY <1>2, <1>3, HandleReplySeen DEF Answered

LEMMA RequestToken ==
  ASSUME TypeInv, Once, NEW t \in Task, Token(t),
         NEW th \in Worker, NEW d \in Task, NEW kind \in Requests, Request(th, d, kind)
  PROVE  Token(t)'
<1>1. /\ UNCHANGED <<taskInQueue, freezer, execTasks, tasks>> /\ th \in Thread
      /\ requests[d] < MaxRequests /\ requests' = [requests EXCEPT ![d] = @ + 1]
  BY RequestSeen DEF qvars, svars, Thread
<1>2. requests \in [Task -> Nat] /\ MaxRequests \in Nat
  BY DispatcherAssumption DEF TypeInv
<1>3. /\ t = d => requests[t] = 0 /\ requests'[t] # 0
      /\ t # d => requests'[t] = requests[t]
  BY <1>1, <1>2 DEF Once
<1>4. ASSUME NEW a \in Call, a.op = "addTask", a.task = d, Starts(th, <<a>>) PROVE Token(t)'
  <2>1. a \in Carriers(t) => t = d
    BY <1>4 DEF Carriers, TokenOps
  <2>2. <<a>> \in Seq(Call) /\ (Has(<<a>>, Carriers(t)) => t = d) /\ AtMostOne(<<a>>, Carriers(t))
    BY <2>1, HasSingle
  <2>3. QED
    BY <1>1, <1>3, <1>4, <2>2, TokenStarts
<1>5. ASSUME NEW a \in Call, a.op = "addTask", a.task = d,
             NEW b \in Call, Starts(th, <<b, a>>), b.op = "removeTask"
      PROVE  Token(t)'
  <2>1. b \notin Carriers(t) /\ (a \in Carriers(t) => t = d)
    BY <1>5 DEF Carriers, TokenOps
  <2>2. <<b, a>> \in Seq(Call) /\ (Has(<<b, a>>, Carriers(t)) => t = d)
        /\ AtMostOne(<<b, a>>, Carriers(t))
    BY <2>1, HasPair
  <2>3. QED
    BY <1>1, <1>3, <1>5, <2>2, TokenStarts
<1>6. QED
  BY <1>4, <1>5, RequestSeen

LEMMA PeriodicToken ==
  ASSUME TypeInv, NEW t \in Task, Token(t), Periodic PROVE Token(t)'
<1>1. UNCHANGED <<taskInQueue, freezer, execTasks, tasks, requests>> /\ Scheduler \in Thread
  BY PeriodicSeen DEF qvars, svars, Thread
<1>2. PICK g \in Seq(Fills) : Starts(Scheduler, g)
  BY PeriodicSeen
<1>3. g \in Seq(Call) /\ ~Has(g, Carriers(t))
  BY HasNoFill DEF Fills, Carriers, TokenOps
<1>4. QED
  BY <1>1, <1>2, <1>3, TokenAside


LEMMA NextToken ==
  ASSUME TypeInv, Once, NEW t \in Task, Token(t), [Next]_vars PROVE Token(t)'
<1>1. ASSUME NEW e \in Exec, Disconnect(e) PROVE Token(t)'
  BY <1>1, DisconnectSeen, TokenStays DEF qvars, svars
<1>2. ASSUME NEW d \in Task, Ripen(d) PROVE Token(t)'
  BY <1>2, RipenSeen, TokenStays DEF qvars, svars
<1>3. CASE UNCHANGED vars
  BY <1>3, TokenStays DEF vars, qvars, svars, mindvars
<1>4. CASE Next
  BY <1>1, <1>2, <1>4, ConnectToken, HandleDropToken, HandleReplyToken, RequestToken,
     PeriodicToken, ThreadStepToken DEF Next
<1>5. QED
  BY <1>3, <1>4

LEMMA InitToken == Init => TokenInv
<1> SUFFICES ASSUME Init, NEW t \in Task PROVE Token(t)
  BY DEF TokenInv
<1>1. /\ taskInQueue[t] = NoType /\ freezer = <<>> /\ \A e \in Exec : execTasks[e] = {}
      /\ tasks = {}
      /\ \A th \in Thread : stack[th] = <<>>
  BY DEF Init, QInit, SInit
<1>2. ~Placed(t) /\ InOnePlace(t)
  BY <1>1 DEF Placed, InOnePlace, Queued, Frozen, Held, ToSet, AtMostOne
<1>3. ~Carried(t) /\ Sole(stack, Carriers(t))
  BY <1>1 DEF Carried, Sole, Somewhere, Has, AtMostOne
<1>4. QED
  BY <1>1, <1>2, <1>3 DEF Token

LEMMA SpecToken == ASSUME Once PROVE Spec => []TokenInv
<1>1. TypeInv /\ TokenInv /\ [Next]_vars => TokenInv'
  BY NextToken DEF TokenInv
<1>2. QED
  BY <1>1, InitToken, SpecTypeInv, PTL DEF Spec

LEMMA InOnePlaceMeans ==
  ASSUME NEW t \in Task, InOnePlace(t) PROVE Cardinality(Places(t)) <= 1
<1>1. \A x, y \in Places(t) : x = y
  BY DEF Places, InOnePlace, Queued, Frozen, Held
<1>2. CASE Places(t) = {}
  BY <1>2, FS_EmptySet
<1>3. ASSUME NEW x \in Places(t) PROVE Cardinality(Places(t)) <= 1
  <2>1. Places(t) = {x}
    BY <1>1, <1>3
  <2>2. QED
    BY <2>1, FS_Singleton
<1>4. QED
  BY <1>2, <1>3

(***************************************************************************)
(* A task is in one queue, in the freezer or with one executor, and in one *)
(* of them only, whatever the threads are in the middle of: the dispatches *)
(* of __dispatchTask, __taskReceived, __freezeTask and removeExecutor,     *)
(* which run without a common lock, never race for the same task.          *)
(***************************************************************************)
THEOREM TasksInOnePlace == Once => (Spec => []OnePlace)
<1> SUFFICES ASSUME Once PROVE Spec => []OnePlace
  OBVIOUS
<1>1. TokenInv => OnePlace
  BY InOnePlaceMeans DEF TokenInv, Token, OnePlace
<1>2. QED
  BY <1>1, SpecToken, PTL

-----------------------------------------------------------------------------
(***************************************************************************)
(* What the calls may rely on.  A task is sent to an executor of its type, *)
(* so the executor that returns a task serves the type; and an executor is *)
(* only removed when its connection is gone.                               *)
(***************************************************************************)
Fit(f) ==
    /\ f.op = "send" => f.type = NoType \/ f.type \in TypesOf(f.exec)
    /\ f.op \in {"handOver", "taskReturned", "storeTask"} => f.type \in TypesOf(f.exec)

Open(e) == transport[e] = "open"

Wired(f) ==
    /\ f.op \in {"removeExecutor", "dropState", "requeue", "closeTransport"}
         => transport[f.exec] = "closed"
    /\ f.op \in {"addExecutor", "handOver", "message", "taskReceived"}
         => transport[f.exec] # "none"
    /\ f.op = "handOver" /\ Open(f.exec) => f.exec \in registered

Astray == {f \in Call : ~(Fit(f) /\ Wired(f))}

Net(e) ==
    /\ e \in dropped => transport[e] = "closed"
    /\ ~Open(e) => work[e] = <<>>
    /\ e \in connected => transport[e] # "none"
    /\ e \in connected /\ Open(e) => e \in registered

TypesServed == \A y \in Type, e \in Exec : e \in typeToId[y] => y \in TypesOf(e)

Tidy ==
    /\ TypesServed
    /\ ~Somewhere(stack, Astray)
    /\ \A e \in Exec : Net(e)

\* the calls that are to put t in a queue or with an executor under a type it has not
Misfits(t) == {f \in Call : /\ f.op \in {"pushTask", "handOver"} /\ f.task = t
                            /\ f.type # etask[t].type}

Match(t) ==
    t \in tasks =>
        /\ ~Somewhere(stack, Misfits(t))
        /\ Queued(t) => etask[t].type = taskInQueue[t]
        /\ \A e \in Exec : Held(t, e) => etask[t].type \in TypesOf(e)

MatchInv == \A t \in Task : Match(t)

LEMMA TopFits ==
  ASSUME TypeInv, Tidy, NEW th \in Thread, stack[th] # <<>>
  PROVE  Top(th) \in Call /\ Fit(Top(th)) /\ Wired(Top(th))
<1>1. Head(stack[th]) \in Astray => Has(stack[th], Astray)
  BY HasHeadTail DEF TypeInv
<1>2. Top(th) \in Call
  BY HeadTailProperties DEF TypeInv, Top
<1>3. QED
  BY <1>1, <1>2 DEF Tidy, Somewhere, Top, Astray

LEMMA TidyMoves ==
  ASSUME TypeInv, Tidy, NEW th \in Thread, stack[th] # <<>>, NEW g \in Seq(Call), Continue(th, g),
         TypesServed', \A e \in Exec : Net(e)',
         \A f \in Call : Wired(f) => Wired(f)',
         ~Has(g, Astray')
  PROVE  Tidy'
<1> DEFINE S == Astray'
<1>1. S \subseteq Astray
  BY DEF Astray, Fit, TypesOf
<1>2. stack' = Swap(stack, th, g)
  BY DEF Continue, Swap
<1> HIDE DEF S
<1>3. Somewhere(stack', S) => Somewhere(stack, S) \/ Has(g, S)
  BY <1>2, Replaced, StackIsStacks
<1>4. Somewhere(stack, S) => Somewhere(stack, Astray)
  BY <1>1 DEF Somewhere, Has
<1>5. QED
  BY <1>3, <1>4 DEF Tidy, S

LEMMA SameTidyFacts ==
  ASSUME Tidy, UNCHANGED <<typeToId, registered, connected, transport, dropped, work>>
  PROVE  /\ TypesServed' /\ Astray' = Astray
         /\ \A e \in Exec : Net(e)'
         /\ \A f \in Call : Wired(f) <=> Wired(f)'
<1>1. TypesServed'
  BY DEF Tidy, TypesServed, TypesOf
<1>2. \A e \in Exec : Net(e)'
  BY DEF Tidy, Net, Open
<1>3. \A f \in Call : Wired(f) <=> Wired(f)'
  BY DEF Wired, Open
<1>4. Astray' = Astray
  BY <1>3 DEF Astray, Fit, TypesOf
<1>5. QED
  BY <1>1, <1>2, <1>3, <1>4

LEMMA TidyPasses ==
  ASSUME TypeInv, Tidy, NEW th \in Thread, stack[th] # <<>>, NEW g \in Seq(Call), Continue(th, g),
         UNCHANGED <<typeToId, registered, connected, transport, dropped, work>>,
         ~Has(g, Astray)
  PROVE  Tidy'
BY SameTidyFacts, TidyMoves

LEMMA FillsFit == \A f \in Fills : Fit(f) /\ Wired(f) /\ f \notin Astray
BY DEF Fills, Fit, Wired, Astray

LEMMA TidyWaits ==
  ASSUME TypeInv, Tidy, NEW th \in Thread, stack[th] # <<>>, NEW g \in Seq(Fills), Continue(th, g),
         UNCHANGED <<typeToId, registered, connected, transport, dropped, work>>
  PROVE  Tidy'
<1>1. g \in Seq(Call) /\ ~Has(g, Astray)
  BY HasNoFill, FillsFit
<1>2. QED
  BY <1>1, TidyPasses

LEMMA TidyPassesOne ==
  ASSUME TypeInv, Tidy, NEW th \in Thread, stack[th] # <<>>,
         UNCHANGED <<typeToId, registered, connected, transport, dropped, work>>,
         \/ Continue(th, <<>>)
         \/ \E a \in Call : Continue(th, <<a>>) /\ Fit(a) /\ Wired(a)
  PROVE  Tidy'
<1>1. CASE Continue(th, <<>>)
  <2>1. <<>> \in Seq(Call) /\ ~Has(<<>>, Astray)
    BY HasNone
  <2>2. QED
    BY <1>1, <2>1, TidyPasses
<1>2. ASSUME NEW a \in Call, Continue(th, <<a>>), Fit(a), Wired(a) PROVE Tidy'
  <2>1. a \notin Astray
    BY <1>2 DEF Astray
  <2>2. <<a>> \in Seq(Call) /\ ~Has(<<a>>, Astray)
    BY <2>1, HasSingle
  <2>3. QED
    BY <1>2, <2>2, TidyPasses
<1>3. QED
  BY <1>1, <1>2

LEMMA TidyPassesTwo ==
  ASSUME TypeInv, Tidy, NEW th \in Thread, stack[th] # <<>>,
         UNCHANGED <<typeToId, registered, connected, transport, dropped, work>>,
         NEW a \in Call, NEW b \in Call, Continue(th, <<a, b>>),
         Fit(a), Wired(a), Fit(b), Wired(b)
  PROVE  Tidy'
<1>1. a \notin Astray /\ b \notin Astray
  BY DEF Astray
<1>2. <<a, b>> \in Seq(Call) /\ ~Has(<<a, b>>, Astray)
  BY <1>1, HasPair
<1>3. QED
  BY <1>2, TidyPasses


LEMMA WiredStays ==
  ASSUME NEW f \in Call, Wired(f),
         \A e \in Exec : /\ transport[e] = "closed" => transport'[e] = "closed"
                         /\ transport[e] # "none" => transport'[e] # "none"
                         /\ transport[e] # "none" /\ transport'[e] = "open" => transport[e] = "open"
                         /\ e \in registered /\ transport'[e] = "open" => e \in registered'
  PROVE  Wired(f)'
<1>1. f.op \in ExecOps => f.exec \in Exec
  BY DEF Call, CallOK
<1>2. CASE f.op \in {"removeExecutor", "dropState", "requeue", "closeTransport"}
  BY <1>1, <1>2 DEF Wired, ExecOps
<1>3. CASE f.op \in {"addExecutor", "handOver", "message", "taskReceived"}
  BY <1>1, <1>3 DEF Wired, ExecOps, Open
<1>4. QED
  BY <1>2, <1>3 DEF Wired

LEMMA TidyEnds ==
  ASSUME TypeInv, Tidy,
         stack' = stack \/ \E th \in Thread : stack' = [stack EXCEPT ![th] = <<>>],
         TypesServed', \A e \in Exec : Net(e)',
         \A f \in Call : Wired(f) => Wired(f)'
  PROVE  Tidy'
<1> DEFINE S == Astray'
<1>1. S \subseteq Astray
  BY DEF Astray, Fit, TypesOf
<1> HIDE DEF S
<1>2. Somewhere(stack', S) => Somewhere(stack, S)
  BY Ended, StackIsStacks
<1>3. Somewhere(stack, S) => Somewhere(stack, Astray)
  BY <1>1 DEF Somewhere, Has
<1>4. QED
  BY <1>2, <1>3 DEF Tidy, S

LEMMA TidyStarts ==
  ASSUME TypeInv, Tidy, NEW th \in Thread, NEW g \in Seq(Call), Starts(th, g),
         TypesServed', \A e \in Exec : Net(e)',
         \A f \in Call : Wired(f) => Wired(f)',
         \A i \in DOMAIN g : g[i] \in Call /\ Fit(g[i]) /\ Wired(g[i])'
  PROVE  Tidy'
<1> DEFINE S == Astray'
<1>1. S \subseteq Astray
  BY DEF Astray, Fit, TypesOf
<1>2. ~Has(g, S)
  BY DEF Has, Astray, Fit, TypesOf
<1> HIDE DEF S
<1>3. Somewhere(stack', S) => Somewhere(stack, S)
  BY <1>2, Begun, StackIsStacks DEF Starts, Idle
<1>4. Somewhere(stack, S) => Somewhere(stack, Astray)
  BY <1>1 DEF Somewhere, Has
<1>5. QED
  BY <1>3, <1>4 DEF Tidy, S

LEMMA CloseSeen ==
  ASSUME TypeInv, NEW e \in Exec, CloseTransport(e)
  PROVE  /\ \A c \in Exec : transport'[c] = IF c = e /\ Open(e) THEN "closed" ELSE transport[c]
         /\ \A c \in Exec : work'[c] = IF c = e /\ Open(e) THEN <<>> ELSE work[c]
         /\ dropped' = IF Open(e) THEN dropped \cup {e} ELSE dropped
<1>1. CASE transport[e] = "open"
  BY <1>1 DEF CloseTransport, TypeInv, NetTypeOK, Open
<1>2. CASE transport[e] # "open"
  BY <1>2 DEF CloseTransport, Open, netvars
<1>3. QED
  BY <1>1, <1>2

LEMMA TidyCloses ==
  ASSUME TypeInv, Tidy, NEW e \in Exec, CloseTransport(e), UNCHANGED <<registered, connected>>,
         stack' = stack \/ \E th \in Thread : stack' = [stack EXCEPT ![th] = <<>>],
         typeToId' = typeToId \/ ForgetTypes(e)
  PROVE  Tidy'
<1>1. /\ \A c \in Exec : transport'[c] = IF c = e /\ Open(e) THEN "closed" ELSE transport[c]
      /\ \A c \in Exec : work'[c] = IF c = e /\ Open(e) THEN <<>> ELSE work[c]
      /\ dropped' = IF Open(e) THEN dropped \cup {e} ELSE dropped
  BY CloseSeen
<1>2. \A f \in Call : Wired(f) => Wired(f)'
  BY <1>1, WiredStays DEF Open
<1>3. ASSUME NEW c \in Exec PROVE Net(c)'
  <2>1. Net(c)
    BY DEF Tidy
  <2>2. CASE c = e /\ Open(e)
    BY <1>1, <2>1, <2>2 DEF Net, Open
  <2>3. CASE ~(c = e /\ Open(e))
    BY <1>1, <2>1, <2>3 DEF Net, Open
  <2>4. QED
    BY <2>2, <2>3
<1>4. TypesServed'
  <2>1. typeToId \in [Type -> SUBSET Exec] /\ TypesServed
    BY DEF TypeInv, STypeOK, Tidy
  <2>2. CASE typeToId' = typeToId
    BY <2>1, <2>2 DEF TypesServed, TypesOf
  <2>3. CASE ForgetTypes(e)
    BY <2>1, <2>3 DEF TypesServed, TypesOf, ForgetTypes
  <2>4. QED
    BY <2>2, <2>3
<1>5. QED
  BY <1>2, <1>3, <1>4, TidyEnds

(***************************************************************************)
(* Every step keeps that.                                                  *)
(***************************************************************************)
LEMMA AddExecutorTidy ==
  ASSUME TypeInv, Tidy, NEW th \in Thread, AddExecutor(th) PROVE Tidy'
<1> DEFINE e == Top(th).exec
<1>1. /\ stack[th] # <<>> /\ e \in Exec /\ UNCHANGED netvars /\ Top(th).op = "addExecutor"
  BY AddExecutorSeen DEF At
<1>2. transport[e] # "none"
  BY <1>1, TopFits DEF Wired
<1>3. ASSUME NEW g \in Seq(Fills), Continue(th, g), e \notin connected,
             connected' = connected \cup {e}, StateAddExecutor(e)
      PROVE  Tidy'
  <2>1. registered' = registered \cup {e}
    BY <1>3 DEF StateAddExecutor
  <2>2. \A f \in Call : Wired(f) => Wired(f)'
    BY <1>1, <2>1, WiredStays DEF netvars
  <2>3. \A c \in Exec : Net(c)'
    BY <1>1, <1>2, <1>3, <2>1 DEF Tidy, Net, Open, netvars
  <2>4. TypesServed'
    BY <1>3 DEF Tidy, TypesServed, TypesOf, StateAddExecutor, TypeInv, STypeOK
  <2>5. g \in Seq(Call) /\ ~Has(g, Astray')
    BY HasNoFill DEF Fills, Astray, Fit, Wired
  <2>6. QED
    BY <1>1, <1>3, <2>2, <2>3, <2>4, <2>5, TidyMoves
<1>4. ASSUME NEW g \in Seq(Fills), Continue(th, g), UNCHANGED <<typeToId, registered, connected>>
      PROVE  Tidy'
  BY <1>1, <1>4, TidyWaits DEF netvars
<1>5. QED
  BY <1>3, <1>4, AddExecutorSeen

LEMMA AnnounceTypesTidy ==
  ASSUME TypeInv, Tidy, NEW th \in Thread, AnnounceTypes(th) PROVE Tidy'
<1>1. PICK g \in Seq(Fills) : Continue(th, g)
  BY AnnounceTypesSeen
<1>2. QED
  BY <1>1, AnnounceTypesSeen, TidyWaits DEF At, svars, netvars

LEMMA FillAllTidy ==
  ASSUME TypeInv, Tidy, NEW th \in Thread, FillAll(th) PROVE Tidy'
<1>1. PICK g \in Seq(Fills) : Continue(th, g)
  BY FillAllSeen
<1>2. QED
  BY <1>1, FillAllSeen, TidyWaits DEF At, svars, netvars

LEMMA RemoveExecutorTidy ==
  ASSUME TypeInv, Tidy, NEW th \in Thread, RemoveExecutor(th) PROVE Tidy'
<1> DEFINE e == Top(th).exec
<1>1. /\ stack[th] # <<>> /\ e \in Exec /\ UNCHANGED <<typeToId, registered, transport, dropped, work>>
      /\ Top(th).op = "removeExecutor"
  BY RemoveExecutorSeen DEF At, svars, netvars
<1>2. transport[e] = "closed"
  BY <1>1, TopFits DEF Wired
<1>3. CASE Continue(th, <<>>) /\ UNCHANGED connected
  BY <1>1, <1>3, TidyPassesOne
<1>4. ASSUME NEW a \in Call, Continue(th, <<a>>), a.op = "dropState", a.exec = e,
             connected' = connected \ {e}
      PROVE  Tidy'
  <2>1. \A f \in Call : Wired(f) => Wired(f)'
    BY <1>1 DEF Wired, Open
  <2>2. \A c \in Exec : Net(c)'
    BY <1>1, <1>4 DEF Tidy, Net, Open
  <2>3. TypesServed'
    BY <1>1 DEF Tidy, TypesServed, TypesOf
  <2>4. a \notin Astray'
    BY <1>1, <1>2, <1>4 DEF Astray, Fit, Wired
  <2>5. <<a>> \in Seq(Call) /\ ~Has(<<a>>, Astray')
    BY <2>4, HasSingle
  <2>6. QED
    BY <1>1, <1>4, <2>1, <2>2, <2>3, <2>5, TidyMoves
<1>5. QED
  BY <1>3, <1>4, RemoveExecutorSeen

LEMMA DropStateTidy ==
  ASSUME TypeInv, Tidy, NEW th \in Thread, DropState(th) PROVE Tidy'
<1> DEFINE e == Top(th).exec
<1>1. /\ stack[th] # <<>> /\ e \in Exec /\ UNCHANGED connected /\ Top(th).op = "dropState"
  BY DropStateSeen DEF At
<1>2. transport[e] = "closed"
  BY <1>1, TopFits DEF Wired
<1>3. ASSUME StateRemoveExecutorFails(e), Abort(th, e) PROVE Tidy'
  BY <1>1, <1>3, TidyCloses DEF StateRemoveExecutorFails, Abort
<1>4. ASSUME StateRemoveExecutor(e), UNCHANGED netvars,
             NEW a \in Call, NEW b \in Call, NEW r \in Seq(Fills), Continue(th, <<a, b>> \o r),
             a.op = "requeue", a.exec = e, b.op = "closeTransport", b.exec = e
      PROVE  Tidy'
  <2> DEFINE S == Astray'
             g == <<a, b>>
             h == g \o r
  <2>1. /\ registered' = registered \ {e} /\ UNCHANGED <<transport, dropped, work>>
        /\ ForgetTypes(e)
    BY <1>4 DEF StateRemoveExecutor, netvars
  <2>2. \A f \in Call : Wired(f) => Wired(f)'
    BY <1>2, <2>1, WiredStays
  <2>3. \A c \in Exec : Net(c)'
    BY <1>1, <1>2, <2>1 DEF Tidy, Net, Open
  <2>4. TypesServed'
    BY <2>1 DEF Tidy, TypesServed, TypesOf, ForgetTypes, TypeInv, STypeOK
  <2>5. a \notin S /\ b \notin S
    BY <1>2, <1>4, <2>1 DEF Astray, Fit, Wired
  <2>6. r \in Seq(Call) /\ ~Has(r, S)
    BY HasNoFill DEF Fills, Astray, Fit, Wired
  <2>7. Continue(th, h)
    BY <1>4
  <2> HIDE DEF S
  <2>8. g \in Seq(Call) /\ ~Has(g, S)
    BY <2>5, HasPair
  <2> HIDE DEF g
  <2>9. h \in Seq(Call) /\ ~Has(h, S)
    BY <2>6, <2>8, HasConcat, ConcatProperties
  <2> HIDE DEF h
  <2>10. QED
    BY <1>1, <2>2, <2>3, <2>4, <2>7, <2>9, TidyMoves DEF S
<1>5. QED
  BY <1>3, <1>4, DropStateSeen

LEMMA RequeueTidy ==
  ASSUME TypeInv, Tidy, NEW th \in Thread, Requeue(th) PROVE Tidy'
<1> DEFINE e == Top(th).exec
<1>1. /\ stack[th] # <<>> /\ e \in Exec /\ UNCHANGED <<typeToId, registered, connected>>
      /\ Top(th).op = "requeue"
  BY RequeueSeen DEF At, svars
<1>2. transport[e] = "closed"
  BY <1>1, TopFits DEF Wired
<1>3. CASE Abort(th, e)
  BY <1>1, <1>3, TidyCloses DEF Abort
<1>4. CASE Continue(th, <<>>) /\ UNCHANGED netvars
  BY <1>1, <1>4, TidyPassesOne DEF netvars
<1>5. ASSUME UNCHANGED netvars, NEW a \in Call, NEW b \in Call, Continue(th, <<a, b>>),
             b.op = "requeue", b.exec = e, a.op \in {"dispatchTask", "pushTask"}
      PROVE  Tidy'
  <2>1. Fit(a) /\ Wired(a) /\ Fit(b) /\ Wired(b)
    BY <1>2, <1>5 DEF Fit, Wired
  <2>2. QED
    BY <1>1, <1>5, <2>1, TidyPassesTwo DEF netvars
<1>6. QED
  BY <1>3, <1>4, <1>5, RequeueSeen


\* calls that rely on nothing
LightOps == {"announceTypes", "freezeTask", "unfreezeTasks", "addTask", "dispatchTask",
             "getNextExecutor", "pushTask", "removeTask", "removeQueued", "removeRunning",
             "removeFrozen", "fillLoop", "fillAll", "sendIfIdle"}

LEMMA LightFits == ASSUME NEW f \in Call, f.op \in LightOps PROVE Fit(f) /\ Wired(f)
BY DEF LightOps, Fit, Wired

LEMMA DisconnectClientTidy ==
  ASSUME TypeInv, Tidy, NEW th \in Thread, DisconnectClient(th) PROVE Tidy'
<1> DEFINE e == Top(th).exec
<1>1. /\ stack[th] # <<>> /\ e \in Exec /\ UNCHANGED <<typeToId, registered, connected>>
      /\ Top(th).op = "closeTransport" /\ CloseTransport(e) /\ Continue(th, <<>>)
  BY DisconnectClientSeen DEF At, svars
<1>2. transport[e] = "closed"
  BY <1>1, TopFits DEF Wired
<1>3. UNCHANGED netvars
  BY <1>1, <1>2 DEF CloseTransport
<1>4. QED
  BY <1>1, <1>3, TidyPassesOne DEF netvars

LEMMA FreezeTaskTidy ==
  ASSUME TypeInv, Tidy, NEW th \in Thread, FreezeTask(th) PROVE Tidy'
<1>1. /\ stack[th] # <<>>
      /\ UNCHANGED <<typeToId, registered, connected, transport, dropped, work>>
  BY FreezeTaskSeen DEF At, svars, netvars
<1>2. CASE Continue(th, <<>>)
  BY <1>1, <1>2, TidyPassesOne
<1>3. ASSUME NEW a \in Call, Continue(th, <<a>>), a.op = "removeTask" PROVE Tidy'
  BY <1>1, <1>3, LightFits, TidyPassesOne DEF LightOps
<1>4. QED
  BY <1>2, <1>3, FreezeTaskSeen

LEMMA UnfreezeTasksTidy ==
  ASSUME TypeInv, Tidy, NEW th \in Thread, UnfreezeTasks(th) PROVE Tidy'
<1>1. /\ stack[th] # <<>> /\ Top(th) \in Fills /\ Top(th) \in Call
      /\ UNCHANGED <<typeToId, registered, connected, transport, dropped, work>>
  BY UnfreezeTasksSeen DEF At, svars, netvars, Fills
<1>2. CASE Continue(th, Again(Top(th).loop))
  <2>1. Top(th).loop \in Type \cup {NoType}
    BY <1>1 DEF Fills, Call, FrameType
  <2>2. QED
    BY <1>1, <1>2, <2>1, AgainFills, TidyWaits
<1>3. ASSUME NEW a \in Fills, Continue(th, <<a>>) PROVE Tidy'
  <2>1. a \in Call
    BY DEF Fills
  <2>2. QED
    BY <1>1, <1>3, <2>1, FillsFit, TidyPassesOne
<1>4. ASSUME NEW a \in Call, Continue(th, <<a, Top(th)>>), a.op = "dispatchTask" PROVE Tidy'
  <2>1. Fit(a) /\ Wired(a)
    BY <1>4, LightFits DEF LightOps
  <2>2. QED
    BY <1>1, <1>4, <2>1, FillsFit, TidyPassesTwo
<1>5. QED
  BY <1>1, <1>2, <1>3, <1>4, UnfreezeTasksSeen

LEMMA AddTaskTidy ==
  ASSUME TypeInv, Tidy, NEW th \in Thread, AddTask(th) PROVE Tidy'
<1>1. /\ stack[th] # <<>>
      /\ UNCHANGED <<typeToId, registered, connected, transport, dropped, work>>
  BY AddTaskSeen DEF At, svars, netvars
<1>2. ASSUME NEW g \in Seq(Fills), Continue(th, g) PROVE Tidy'
  BY <1>1, <1>2, TidyWaits
<1>3. ASSUME NEW a \in Call, Continue(th, <<a>>), a.op = "dispatchTask" PROVE Tidy'
  BY <1>1, <1>3, LightFits, TidyPassesOne DEF LightOps
<1>4. QED
  BY <1>2, <1>3, AddTaskSeen

LEMMA DispatchTaskTidy ==
  ASSUME TypeInv, Tidy, NEW th \in Thread, DispatchTask(th) PROVE Tidy'
<1>1. /\ stack[th] # <<>>
      /\ UNCHANGED <<typeToId, registered, connected, transport, dropped, work>>
  BY DispatchTaskSeen DEF At, svars, netvars
<1>2. CASE Continue(th, <<>>)
  BY <1>1, <1>2, TidyPassesOne
<1>3. ASSUME NEW a \in Call, Continue(th, <<a>>), a.op = "getNextExecutor" PROVE Tidy'
  BY <1>1, <1>3, LightFits, TidyPassesOne DEF LightOps
<1>4. QED
  BY <1>2, <1>3, DispatchTaskSeen

LEMMA GetNextExecutorTidy ==
  ASSUME TypeInv, Tidy, NEW th \in Thread, GetNextExecutor(th) PROVE Tidy'
<1>1. /\ stack[th] # <<>>
      /\ UNCHANGED <<typeToId, registered, connected, transport, dropped, work>>
  BY GetNextExecutorSeen DEF At, svars, netvars
<1>2. ASSUME NEW a \in Call, Continue(th, <<a>>), a.op \in {"freezeTask", "removeTask"} PROVE Tidy'
  BY <1>1, <1>2, LightFits, TidyPassesOne DEF LightOps
<1>3. ASSUME NEW a \in Call, NEW b \in Call, Continue(th, <<a, b>>), a.op = "pushTask", b \in Fills
      PROVE  Tidy'
  <2>1. Fit(a) /\ Wired(a)
    BY <1>3, LightFits DEF LightOps
  <2>2. QED
    BY <1>1, <1>3, <2>1, FillsFit, TidyPassesTwo
<1>4. QED
  BY <1>2, <1>3, GetNextExecutorSeen

LEMMA PushTaskStepTidy ==
  ASSUME TypeInv, Tidy, NEW th \in Thread, PushTaskStep(th) PROVE Tidy'
BY PushTaskStepSeen, TidyPassesOne DEF At, svars, netvars

LEMMA RemoveTaskTidy ==
  ASSUME TypeInv, Tidy, NEW th \in Thread, RemoveTask(th) PROVE Tidy'
<1> DEFINE d == Top(th).task
<1>1. /\ stack[th] # <<>>
      /\ UNCHANGED <<typeToId, registered, connected, transport, dropped, work>>
      /\ Continue(th, <<>>) \/ CleanUp(th, d)
  BY RemoveTaskSeen DEF At, svars, netvars
<1>2. CASE Continue(th, <<>>)
  BY <1>1, <1>2, TidyPassesOne
<1>3. CASE CleanUp(th, d)
  <2>1. PICK a \in Call, b \in Call, c \in Call, r \in Seq(Call) :
           /\ Continue(th, <<a, b, c>> \o r)
           /\ a.op = "removeQueued" /\ a.task = d
           /\ b.op = "removeRunning" /\ b.task = d
           /\ c.op = "removeFrozen" /\ c.task = d
           /\ \/ taskInExec[d] = NoExec /\ r = <<>>
              \/ \E x \in Call : r = <<x>> /\ x.op = "sendIfIdle" /\ x.exec = taskInExec[d]
    BY <1>3, Zenon DEF CleanUp
  <2> DEFINE g == <<a, b, c>>
             S == Astray
             h == g \o r
  <2>2. a \notin S /\ b \notin S /\ c \notin S /\ \A x \in Call : x.op = "sendIfIdle" => x \notin S
    BY <2>1, LightFits DEF LightOps, Astray
  <2> HIDE DEF S
  <2>3. ~Has(r, S)
    BY <2>1, <2>2, HasNone, HasSingle
  <2>4. g \in Seq(Call) /\ ~Has(g, S)
    BY <2>2, HasTriple
  <2>5. Continue(th, h)
    BY <2>1
  <2> HIDE DEF g
  <2>6. h \in Seq(Call) /\ ~Has(h, S)
    BY <2>3, <2>4, HasConcat, ConcatProperties
  <2> HIDE DEF h
  <2>7. QED
    BY <1>1, <2>5, <2>6, TidyPasses DEF S
<1>4. QED
  BY <1>1, <1>2, <1>3

LEMMA RemoveQueuedTidy ==
  ASSUME TypeInv, Tidy, NEW th \in Thread, RemoveQueued(th) PROVE Tidy'
BY RemoveQueuedSeen, TidyPassesOne DEF At, svars, netvars

LEMMA RemoveFrozenTidy ==
  ASSUME TypeInv, Tidy, NEW th \in Thread, RemoveFrozen(th) PROVE Tidy'
BY RemoveFrozenSeen, TidyPassesOne DEF At, svars, netvars

LEMMA RemoveRunningTidy ==
  ASSUME TypeInv, Tidy, NEW th \in Thread, RemoveRunning(th) PROVE Tidy'
<1>1. /\ stack[th] # <<>> /\ UNCHANGED <<connected, transport, dropped, work>>
      /\ StateRemoveTask(Top(th).task)
      /\ Continue(th, Again(Top(th).loop)) /\ Again(Top(th).loop) \in Seq(Fills)
  BY RemoveRunningSeen, AgainFills DEF At, netvars
<1>2. UNCHANGED <<typeToId, registered>>
  BY <1>1 DEF StateRemoveTask, StateRemoveTaskFrom, svars
<1>3. QED
  BY <1>1, <1>2, TidyWaits

LEMMA FillLoopTidy ==
  ASSUME TypeInv, Tidy, NEW th \in Thread, FillLoop(th) PROVE Tidy'
<1> DEFINE y == Top(th).type
<1>1. /\ stack[th] # <<>> /\ y \in Type
      /\ UNCHANGED <<typeToId, registered, connected, transport, dropped, work>>
  BY FillLoopSeen DEF At, svars, netvars
<1>2. CASE Continue(th, <<>>)
  BY <1>1, <1>2, TidyPassesOne
<1>3. ASSUME NEW e \in IdleExecutors(y), e \in Exec, NEW a \in Call, Continue(th, <<a>>), a.op = "send",
             a.exec = e, a.type = y
      PROVE  Tidy'
  <2>1. y \in TypesOf(e)
    BY <1>1, <1>3 DEF IdleExecutors, Tidy, TypesServed
  <2>2. Fit(a) /\ Wired(a)
    BY <1>3, <2>1 DEF Fit, Wired
  <2>3. QED
    BY <1>1, <1>3, <2>2, TidyPassesOne
<1>4. QED
  BY <1>2, <1>3, FillLoopSeen

LEMMA SendTidy ==
  ASSUME TypeInv, Tidy, NEW th \in Thread, Send(th) PROVE Tidy'
<1> DEFINE f == Top(th)
<1>1. /\ stack[th] # <<>> /\ f.op = "send" /\ f.exec \in Exec
      /\ f.loop \in Type \cup {NoType}
      /\ UNCHANGED <<typeToId, registered, connected, transport, dropped, work>>
  BY SendSeen DEF At, svars, netvars
<1>2. CASE Continue(th, Again(f.loop))
  BY <1>1, <1>2, AgainFills, TidyWaits
<1>3. CASE Continue(th, <<>>)
  BY <1>1, <1>3, TidyPassesOne
<1>4. ASSUME f.exec \in connected, NEW y \in Type, Picked(th, f, y) PROVE Tidy'
  <2>1. PICK a \in Call : /\ Continue(th, <<a>>)
                          /\ a.op = "handOver" /\ a.exec = f.exec /\ a.type = y /\ a.loop = f.loop
                          /\ a.task \in Task /\ taskInQueue[a.task] = y
                          /\ \A d \in Task : taskInQueue'[d] = IF d = a.task THEN NoType ELSE taskInQueue[d]
    BY <1>4, Zenon DEF Picked
  <2>2. y \in TypesOf(f.exec)
    BY <1>1, <1>4, TopFits DEF Picked, Fit
  <2>3. Fit(a) /\ Wired(a)
    BY <1>1, <1>4, <2>1, <2>2 DEF Fit, Wired, Tidy, Net, Open
  <2>4. QED
    BY <1>1, <2>1, <2>3, TidyPassesOne
<1>5. QED
  BY <1>2, <1>3, <1>4, SendSeen

LEMMA SendIfIdleTidy ==
  ASSUME TypeInv, Tidy, NEW th \in Thread, SendIfIdle(th) PROVE Tidy'
<1>1. /\ stack[th] # <<>>
      /\ UNCHANGED <<typeToId, registered, connected, transport, dropped, work>>
  BY SendIfIdleSeen DEF At, svars, netvars
<1>2. CASE Continue(th, <<>>)
  BY <1>1, <1>2, TidyPassesOne
<1>3. ASSUME NEW a \in Call, Continue(th, <<a>>), a.op = "send", a.type = NoType PROVE Tidy'
  <2>1. Fit(a) /\ Wired(a)
    BY <1>3 DEF Fit, Wired
  <2>2. QED
    BY <1>1, <1>3, <2>1, TidyPassesOne
<1>4. QED
  BY <1>2, <1>3, SendIfIdleSeen


LEMMA HandOverTidy ==
  ASSUME TypeInv, Tidy, NEW th \in Thread, HandOver(th) PROVE Tidy'
<1> DEFINE e == Top(th).exec
<1>1. /\ stack[th] # <<>> /\ e \in Exec /\ Top(th).op = "handOver"
      /\ UNCHANGED <<typeToId, registered, connected, transport, dropped, work>>
  BY HandOverSeen DEF At, netvars, StateAddTask
<1>2. PICK a \in Call : Continue(th, <<a>>) /\ a.op = "message" /\ a.exec = e
  BY HandOverSeen
<1>3. transport[e] # "none"
  BY <1>1, TopFits DEF Wired
<1>4. Fit(a) /\ Wired(a)
  BY <1>2, <1>3 DEF Fit, Wired
<1>5. QED
  BY <1>1, <1>2, <1>4, TidyPassesOne

LEMMA MessageTidy ==
  ASSUME TypeInv, Tidy, Once, NEW th \in Thread, Message(th) PROVE Tidy'
<1> DEFINE e == Top(th).exec
           loop == Top(th).loop
<1>1. /\ stack[th] # <<>> /\ e \in Exec /\ loop \in Type \cup {NoType}
      /\ UNCHANGED <<typeToId, registered, connected, transport, dropped>>
  BY MessageSeen DEF At, svars
<1>2. ASSUME UNCHANGED work, NEW a \in Call, Continue(th, <<a>>), a.op = "removeRunning" PROVE Tidy'
  BY <1>1, <1>2, LightFits, TidyPassesOne DEF LightOps
<1>3. CASE UNCHANGED work /\ Continue(th, Again(loop))
  BY <1>1, <1>3, AgainFills, TidyWaits
<1>4. ASSUME transport[e] = "open", NEW w, work' = [work EXCEPT ![e] = Append(@, w)],
             Continue(th, Again(loop))
      PROVE  Tidy'
  <2>1. \A c \in Exec : c # e => work'[c] = work[c]
    BY <1>1, <1>4 DEF TypeInv, NetTypeOK
  <2>2. \A c \in Exec : Net(c)'
    BY <1>1, <1>4, <2>1 DEF Tidy, Net, Open
  <2>3. TypesServed'
    BY <1>1 DEF Tidy, TypesServed, TypesOf
  <2>4. \A f \in Call : Wired(f) => Wired(f)'
    BY <1>1 DEF Wired, Open
  <2>5. Again(loop) \in Seq(Call) /\ ~Has(Again(loop), Astray')
    <3>1. \A f \in Fills : f \notin Astray'
      BY DEF Fills, Astray, Fit, Wired
    <3>2. QED
      BY <1>1, <3>1, AgainFills, HasNoFill
  <2>6. QED
    BY <1>1, <1>4, <2>2, <2>3, <2>4, <2>5, TidyMoves
<1>5. QED
  BY <1>2, <1>3, <1>4, MessageSeen DEF Once

LEMMA TaskReceivedTidy ==
  ASSUME TypeInv, Tidy, MatchInv, NEW th \in Thread, TaskReceived(th) PROVE Tidy'
<1> DEFINE e == Top(th).exec
           t == Top(th).task
<1>1. /\ stack[th] # <<>> /\ e \in Exec /\ t \in Task
      /\ UNCHANGED <<connected, transport, dropped, work>>
  BY TaskReceivedSeen DEF At, netvars
<1>2. CASE UNCHANGED svars /\ Continue(th, <<>>)
  BY <1>1, <1>2, TidyPassesOne DEF svars
<1>3. ASSUME t \in tasks, StateRemoveTaskFrom(e, t), NEW a \in Call, Continue(th, <<a>>), a.exec = e,
             \/ RemoveSucceeds(e, t) /\ a.op = "taskReturned" /\ a.type = etask[t].type
             \/ a.op = "send" /\ a.type = NoType
      PROVE  Tidy'
  <2>1. UNCHANGED <<typeToId, registered>>
    BY <1>3 DEF StateRemoveTaskFrom, svars
  <2>2. RemoveSucceeds(e, t) => etask[t].type \in TypesOf(e)
    BY <1>1, <1>3 DEF MatchInv, Match, RemoveSucceeds, HoldsTask, Held
  <2>3. Fit(a) /\ Wired(a)
    BY <1>3, <2>2 DEF Fit, Wired
  <2>4. QED
    BY <1>1, <1>3, <2>1, <2>3, TidyPassesOne
<1>4. QED
  BY <1>2, <1>3, TaskReceivedSeen

LEMMA TaskReturnedTidy ==
  ASSUME TypeInv, Tidy, NEW th \in Thread, TaskReturned(th) PROVE Tidy'
<1> DEFINE f == Top(th)
           e == f.exec
<1>1. /\ stack[th] # <<>> /\ e \in Exec /\ f.op = "taskReturned"
      /\ UNCHANGED <<typeToId, registered, connected>>
  BY TaskReturnedSeen DEF At, svars
<1>2. f.type \in TypesOf(e)
  BY <1>1, TopFits DEF Fit
<1>3. CASE Abort(th, e)
  BY <1>1, <1>3, TidyCloses DEF Abort
<1>4. ASSUME UNCHANGED netvars, NEW a \in Call, Continue(th, <<a>>), a.op = "storeTask", a.exec = e,
             a.type = f.type
      PROVE  Tidy'
  <2>1. Fit(a) /\ Wired(a)
    BY <1>2, <1>4 DEF Fit, Wired
  <2>2. QED
    BY <1>1, <1>4, <2>1, TidyPassesOne DEF netvars
<1>5. ASSUME UNCHANGED netvars, NEW a \in Call, NEW r \in Seq(Call), Continue(th, <<a>> \o r),
             a.op = "send", a.type = NoType,
             r = <<>> \/ \E b \in Call : r = <<b>> /\ b.op = "removeTask"
      PROVE  Tidy'
  <2> DEFINE S == Astray
             g == <<a>>
             h == g \o r
  <2>1. a \notin S /\ \A b \in Call : b.op = "removeTask" => b \notin S
    BY <1>5, LightFits DEF Astray, Fit, Wired, LightOps
  <2> HIDE DEF S
  <2>2. ~Has(r, S) /\ g \in Seq(Call) /\ ~Has(g, S)
    BY <1>5, <2>1, HasNone, HasSingle
  <2>3. Continue(th, h)
    BY <1>5
  <2> HIDE DEF g
  <2>4. h \in Seq(Call) /\ ~Has(h, S)
    BY <1>5, <2>2, HasConcat, ConcatProperties
  <2> HIDE DEF h
  <2>5. QED
    BY <1>1, <1>5, <2>3, <2>4, TidyPasses DEF S, netvars
<1>6. QED
  BY <1>2, <1>3, <1>4, <1>5, TaskReturnedSeen

LEMMA StoreTaskTidy ==
  ASSUME TypeInv, Tidy, NEW th \in Thread, StoreTask(th) PROVE Tidy'
<1> DEFINE f == Top(th)
<1>1. /\ stack[th] # <<>> /\ f.op = "storeTask"
      /\ UNCHANGED <<typeToId, registered, connected, transport, dropped, work>>
  BY StoreTaskSeen DEF At, svars, netvars
<1>2. f.type \in TypesOf(f.exec)
  BY <1>1, TopFits DEF Fit
<1>3. ASSUME NEW b \in Call, b.op = "send", b.exec = f.exec, b.type = f.type
      PROVE  Fit(b) /\ Wired(b)
  BY <1>2, <1>3 DEF Fit, Wired
<1>4. ASSUME NEW b \in Call, b.op = "send", b.exec = f.exec, b.type = f.type, Continue(th, <<b>>)
      PROVE  Tidy'
  BY <1>1, <1>3, <1>4, TidyPassesOne
<1>5. ASSUME NEW b \in Call, b.op = "send", b.exec = f.exec, b.type = f.type,
             NEW a \in Call, Continue(th, <<a, b>>), a.op \in {"dispatchTask", "freezeTask"}
      PROVE  Tidy'
  <2>1. Fit(a) /\ Wired(a)
    BY <1>5, LightFits DEF LightOps
  <2>2. QED
    BY <1>1, <1>3, <1>5, <2>1, TidyPassesTwo
<1>6. QED
  BY <1>4, <1>5, StoreTaskSeen

(***************************************************************************)
(* No executor gives up altogether: none sends ExecutorError.  A service   *)
(* that removes an executor whose connection is still open lets another    *)
(* thread go on sending tasks to it.                                       *)
(***************************************************************************)
Trusty == Once /\ "ExecutorError" \notin Replies

LEMMA ThreadStepTidy ==
  ASSUME TypeInv, Tidy, MatchInv, Once, NEW th \in Thread, ThreadStep(th) PROVE Tidy'
BY AddExecutorTidy, AnnounceTypesTidy, RemoveExecutorTidy, DropStateTidy, RequeueTidy,
   DisconnectClientTidy, FreezeTaskTidy, UnfreezeTasksTidy, AddTaskTidy, DispatchTaskTidy,
   GetNextExecutorTidy, PushTaskStepTidy, RemoveTaskTidy, RemoveQueuedTidy,
   RemoveRunningTidy, RemoveFrozenTidy, FillLoopTidy, FillAllTidy, SendTidy,
   SendIfIdleTidy, HandOverTidy, MessageTidy, TaskReceivedTidy, TaskReturnedTidy,
   StoreTaskTidy DEF ThreadStep

\* a handler that begins with calls that rely on nothing
LEMMA TidyAside ==
  ASSUME TypeInv, Tidy, NEW th \in Thread, NEW g \in Seq(Call), Starts(th, g),
         UNCHANGED <<typeToId, registered, connected, transport, dropped, work>>,
         ~Has(g, Astray)
  PROVE  Tidy'
<1>1. \A i \in DOMAIN g : g[i] \in Call /\ Fit(g[i]) /\ Wired(g[i])'
  <2>1. \A i \in DOMAIN g : g[i] \in Call
    OBVIOUS
  <2>2. \A i \in DOMAIN g : Fit(g[i]) /\ Wired(g[i])
    BY <2>1 DEF Has, Astray
  <2>3. QED
    BY <2>1, <2>2, SameTidyFacts
<1>2. QED
  BY <1>1, SameTidyFacts, TidyStarts

LEMMA ConnectTidy ==
  ASSUME TypeInv, Tidy, NEW th \in Worker, NEW e \in Exec, Connect(th, e) PROVE Tidy'
<1>1. /\ UNCHANGED <<typeToId, registered, connected, dropped, work>> /\ th \in Thread
      /\ transport[e] = "none" /\ transport' = [transport EXCEPT ![e] = "open"]
  BY ConnectSeen DEF svars, Thread
<1>2. PICK a \in Call : Starts(th, <<a>>) /\ a.op = "addExecutor" /\ a.exec = e
  BY ConnectSeen
<1>3. transport'[e] = "open" /\ \A c \in Exec : c # e => transport'[c] = transport[c]
  BY <1>1 DEF TypeInv, NetTypeOK
<1>4. \A f \in Call : Wired(f) => Wired(f)'
  BY <1>1, <1>3, WiredStays
<1>5. \A c \in Exec : Net(c)'
  BY <1>1, <1>3 DEF Tidy, Net, Open
<1>6. TypesServed'
  BY <1>1 DEF Tidy, TypesServed, TypesOf
<1>7. Fit(a) /\ Wired(a)'
  BY <1>2, <1>3 DEF Fit, Wired
<1> DEFINE g == <<a>>
<1>8. g \in Seq(Call) /\ \A i \in DOMAIN g : g[i] \in Call /\ Fit(g[i]) /\ Wired(g[i])'
  BY <1>7
<1>9. Starts(th, g)
  BY <1>2
<1> HIDE DEF g
<1>10. QED
  BY <1>1, <1>4, <1>5, <1>6, <1>8, <1>9, TidyStarts

LEMMA HandleDropTidy ==
  ASSUME TypeInv, Tidy, NEW th \in Worker, NEW e \in Exec, HandleDrop(th, e) PROVE Tidy'
<1>1. /\ UNCHANGED <<typeToId, registered, connected, transport, work>> /\ th \in Thread
      /\ e \in dropped /\ dropped' = dropped \ {e}
  BY HandleDropSeen DEF svars, Thread
<1>2. PICK a \in Call : Starts(th, <<a>>) /\ a.op = "removeExecutor" /\ a.exec = e
  BY HandleDropSeen
<1>3. transport[e] = "closed"
  BY <1>1 DEF Tidy, Net
<1>4. \A f \in Call : Wired(f) => Wired(f)'
  BY <1>1 DEF Wired, Open
<1>5. \A c \in Exec : Net(c)'
  BY <1>1 DEF Tidy, Net, Open
<1>6. TypesServed'
  BY <1>1 DEF Tidy, TypesServed, TypesOf
<1>7. Fit(a) /\ Wired(a)'
  BY <1>1, <1>2, <1>3 DEF Fit, Wired
<1> DEFINE g == <<a>>
<1>8. g \in Seq(Call) /\ \A i \in DOMAIN g : g[i] \in Call /\ Fit(g[i]) /\ Wired(g[i])'
  BY <1>7
<1>9. Starts(th, g)
  BY <1>2
<1> HIDE DEF g
<1>10. QED
  BY <1>1, <1>4, <1>5, <1>6, <1>8, <1>9, TidyStarts

LEMMA HandleReplyTidy ==
  ASSUME TypeInv, Tidy, Trusty, NEW th \in Worker, NEW e \in Exec, NEW kind \in Replies,
         HandleReply(th, e, kind)
  PROVE  Tidy'
<1>1. /\ UNCHANGED <<typeToId, registered, connected, transport, dropped>> /\ th \in Thread
      /\ transport[e] = "open"
  BY HandleReplySeen DEF svars, Thread
<1>2. \A c \in Exec : c # e => work'[c] = work[c]
  BY HandleReplySeen DEF TypeInv, NetTypeOK
<1>3. \A f \in Call : Wired(f) <=> Wired(f)'
  BY <1>1 DEF Wired, Open
<1>4. \A c \in Exec : Net(c)'
  BY <1>1, <1>2 DEF Tidy, Net, Open
<1>5. TypesServed'
  BY <1>1 DEF Tidy, TypesServed, TypesOf
<1>6. ASSUME NEW a \in Call, Starts(th, <<a>>),
             \/ a.op = "taskReceived" /\ a.exec = e
             \/ a.op = "removeTask"
      PROVE  Tidy'
  <2>1. Fit(a) /\ Wired(a)'
    BY <1>1, <1>6 DEF Fit, Wired
  <2> DEFINE g == <<a>>
  <2>2. g \in Seq(Call) /\ \A i \in DOMAIN g : g[i] \in Call /\ Fit(g[i]) /\ Wired(g[i])'
    BY <2>1
  <2>3. Starts(th, g)
    BY <1>6
  <2> HIDE DEF g
  <2>4. QED
    BY <1>1, <1>3, <1>4, <1>5, <2>2, <2>3, TidyStarts
<1>7. QED
  BY <1>6, HandleReplySeen DEF Answered, Trusty

LEMMA RequestTidy ==
  ASSUME TypeInv, Tidy, NEW th \in Worker, NEW t \in Task, NEW kind \in Requests,
         Request(th, t, kind)
  PROVE  Tidy'
<1>1. /\ UNCHANGED <<typeToId, registered, connected, transport, dropped, work>> /\ th \in Thread
  BY RequestSeen DEF svars, netvars, Thread
<1>2. ASSUME NEW a \in Call, a.op \in LightOps PROVE a \notin Astray
  BY <1>2, LightFits DEF Astray
<1>3. ASSUME NEW a \in Call, a.op = "addTask", Starts(th, <<a>>) PROVE Tidy'
  <2>1. <<a>> \in Seq(Call) /\ ~Has(<<a>>, Astray)
    BY <1>2, <1>3, HasSingle DEF LightOps
  <2>2. QED
    BY <1>1, <1>3, <2>1, TidyAside
<1>4. ASSUME NEW a \in Call, a.op = "addTask", NEW b \in Call, b.op = "removeTask", Starts(th, <<b, a>>)
      PROVE  Tidy'
  <2>1. <<b, a>> \in Seq(Call) /\ ~Has(<<b, a>>, Astray)
    BY <1>2, <1>4, HasPair DEF LightOps
  <2>2. QED
    BY <1>1, <1>4, <2>1, TidyAside
<1>5. QED
  BY <1>3, <1>4, RequestSeen

LEMMA PeriodicTidy == ASSUME TypeInv, Tidy, Periodic PROVE Tidy'
<1>1. /\ UNCHANGED <<typeToId, registered, connected, transport, dropped, work>>
      /\ Scheduler \in Thread
  BY PeriodicSeen DEF svars, netvars, Thread
<1>2. PICK g \in Seq(Fills) : Starts(Scheduler, g)
  BY PeriodicSeen
<1>3. g \in Seq(Call) /\ ~Has(g, Astray)
  BY HasNoFill, FillsFit
<1>4. QED
  BY <1>1, <1>2, <1>3, TidyAside

LEMMA TidyStays ==
  ASSUME Tidy, UNCHANGED <<typeToId, registered, connected, transport, dropped, work, stack>>
  PROVE  Tidy'
BY SameTidyFacts DEF Tidy, Somewhere

LEMMA NextTidy == ASSUME TypeInv, Tidy, MatchInv, Trusty, [Next]_vars PROVE Tidy'
<1>1. ASSUME NEW e \in Exec, Disconnect(e) PROVE Tidy'
  BY <1>1, DisconnectSeen, TidyCloses DEF svars
<1>2. ASSUME NEW d \in Task, Ripen(d) PROVE Tidy'
  BY <1>2, RipenSeen, TidyStays DEF svars, netvars
<1>3. CASE UNCHANGED vars
  BY <1>3, TidyStays DEF vars, svars, mindvars, netvars
<1>4. CASE Next
  BY <1>1, <1>2, <1>4, ConnectTidy, HandleDropTidy, HandleReplyTidy, RequestTidy,
     PeriodicTidy, ThreadStepTidy DEF Next, Trusty
<1>5. QED
  BY <1>3, <1>4

LEMMA InitTidy == Init => Tidy
<1> SUFFICES ASSUME Init PROVE Tidy
  OBVIOUS
<1>1. TypesServed
  BY DEF Init, SInit, TypesServed
<1>2. ~Somewhere(stack, Astray)
  BY DEF Init, Somewhere, Has
<1>3. \A e \in Exec : Net(e)
  BY DEF Init, Net, Open
<1>4. QED
  BY <1>1, <1>2, <1>3 DEF Tidy


(***************************************************************************)
(* The type a task waits or is handed over under is the one it has.        *)
(***************************************************************************)
LEMMA MatchMoves ==
  ASSUME TypeInv, NEW t \in Task, Match(t), NEW th \in Thread, stack[th] # <<>>,
         NEW g \in Seq(Call), Continue(th, g),
         t \in tasks' => /\ t \in tasks /\ etask'[t].type = etask[t].type
                         /\ ~Has(g, Misfits(t))
                         /\ Queued(t)' => taskInQueue'[t] = etask[t].type
                         /\ \A e \in Exec : Held(t, e)' => Held(t, e) \/ etask[t].type \in TypesOf(e)
  PROVE  Match(t)'
<1> SUFFICES ASSUME t \in tasks'
             PROVE  /\ ~Somewhere(stack', Misfits(t)')
                    /\ Queued(t)' => etask'[t].type = taskInQueue'[t]
                    /\ \A e \in Exec : Held(t, e)' => etask'[t].type \in TypesOf(e)
  BY DEF Match, TypesOf
<1>1. stack' = Swap(stack, th, g)
  BY DEF Continue, Swap
<1>2. Misfits(t)' = Misfits(t)
  BY DEF Misfits
<1>3. ~Somewhere(stack', Misfits(t))
  BY <1>1, Replaced, StackIsStacks DEF Match
<1>4. QED
  BY <1>2, <1>3 DEF Match

LEMMA MatchPasses ==
  ASSUME TypeInv, NEW t \in Task, Match(t), NEW th \in Thread, stack[th] # <<>>,
         NEW g \in Seq(Call), Continue(th, g), UNCHANGED taskInQueue,
         \A e \in Exec : Held(t, e)' => Held(t, e),
         t \in tasks' => t \in tasks /\ etask'[t].type = etask[t].type,
         t \in tasks' => ~Has(g, Misfits(t))
  PROVE  Match(t)'
<1>1. t \in tasks' /\ Queued(t)' => taskInQueue'[t] = etask[t].type
  BY DEF Match, Queued
<1>2. QED
  BY <1>1, MatchMoves

\* a step that changes the type of a task, or takes it in
LEMMA MatchTurns ==
  ASSUME TypeInv, NEW t \in Task, Token(t), NEW th \in Thread, stack[th] # <<>>,
         Top(th) \in Carriers(t),
         NEW g \in Seq(Call), Continue(th, g), UNCHANGED <<taskInQueue, execTasks>>,
         ~Has(g, Misfits(t)')
  PROVE  Match(t)'
<1>1. Carried(t)
  BY TopCarries
<1>2. ~Placed(t)
  BY <1>1 DEF Token
<1>3. ~Queued(t)' /\ \A e \in Exec : ~Held(t, e)'
  BY <1>2 DEF Placed, Queued, Held
<1>4. stack' = Swap(stack, th, g)
  BY DEF Continue, Swap
<1> DEFINE S == Misfits(t)'
<1>5. S \subseteq Carriers(t)
  BY DEF Misfits, Carriers, TokenOps
<1> HIDE DEF S
<1>6. Somewhere(stack', S) => Has(g, S)
  BY <1>4, <1>5, OnlyNew, StackIsStacks DEF Token, Top
<1>7. QED
  BY <1>3, <1>6 DEF Match, S

LEMMA MatchEnds ==
  ASSUME TypeInv, NEW t \in Task, Match(t),
         stack' = stack \/ \E th \in Thread : stack' = [stack EXCEPT ![th] = <<>>],
         UNCHANGED <<taskInQueue, execTasks, tasks>>, etask'[t].type = etask[t].type
  PROVE  Match(t)'
<1>1. Misfits(t)' = Misfits(t)
  BY DEF Misfits
<1>2. Somewhere(stack', Misfits(t)) => Somewhere(stack, Misfits(t))
  BY Ended, StackIsStacks
<1>3. QED
  BY <1>1, <1>2 DEF Match, Queued, Held, TypesOf

LEMMA MatchStarts ==
  ASSUME TypeInv, NEW t \in Task, Match(t), NEW th \in Thread, NEW g \in Seq(Call), Starts(th, g),
         UNCHANGED <<taskInQueue, execTasks, tasks, etask>>, ~Has(g, Misfits(t))
  PROVE  Match(t)'
<1>1. Misfits(t)' = Misfits(t)
  BY DEF Misfits
<1>2. Somewhere(stack', Misfits(t)) => Somewhere(stack, Misfits(t))
  BY Begun, StackIsStacks DEF Starts, Idle
<1>3. QED
  BY <1>1, <1>2 DEF Match, Queued, Held, TypesOf

LEMMA MatchWaits ==
  ASSUME TypeInv, NEW t \in Task, Match(t), NEW th \in Thread, stack[th] # <<>>,
         NEW g \in Seq(Fills), Continue(th, g),
         UNCHANGED <<taskInQueue, tasks>>, etask'[t].type = etask[t].type,
         \A e \in Exec : Held(t, e)' => Held(t, e)
  PROVE  Match(t)'
<1>1. g \in Seq(Call) /\ ~Has(g, Misfits(t))
  BY HasNoFill DEF Fills, Misfits
<1>2. QED
  BY <1>1, MatchPasses

LEMMA MatchPassesOne ==
  ASSUME TypeInv, NEW t \in Task, Match(t), NEW th \in Thread, stack[th] # <<>>,
         \/ Continue(th, <<>>)
         \/ \E a \in Call : Continue(th, <<a>>) /\ a \notin Misfits(t),
         UNCHANGED taskInQueue,
         \A e \in Exec : Held(t, e)' => Held(t, e),
         t \in tasks' => t \in tasks /\ etask'[t].type = etask[t].type
  PROVE  Match(t)'
<1>1. CASE Continue(th, <<>>)
  <2>1. <<>> \in Seq(Call) /\ ~Has(<<>>, Misfits(t))
    BY HasNone
  <2>2. QED
    BY <1>1, <2>1, MatchPasses
<1>2. ASSUME NEW a \in Call, Continue(th, <<a>>), a \notin Misfits(t) PROVE Match(t)'
  <2>1. <<a>> \in Seq(Call) /\ ~Has(<<a>>, Misfits(t))
    BY <1>2, HasSingle
  <2>2. QED
    BY <1>2, <2>1, MatchPasses
<1>3. QED
  BY <1>1, <1>2

LEMMA MatchPassesTwo ==
  ASSUME TypeInv, NEW t \in Task, Match(t), NEW th \in Thread, stack[th] # <<>>,
         NEW a \in Call, NEW b \in Call, Continue(th, <<a, b>>),
         t \in tasks => a \notin Misfits(t) /\ b \notin Misfits(t),
         UNCHANGED <<taskInQueue, tasks, execTasks>>,
         t \in tasks => etask'[t].type = etask[t].type
  PROVE  Match(t)'
<1>1. <<a, b>> \in Seq(Call) /\ (t \in tasks => ~Has(<<a, b>>, Misfits(t)))
  BY HasPair
<1>2. \A e \in Exec : Held(t, e)' => Held(t, e)
  BY DEF Held
<1>3. QED
  BY <1>1, <1>2, MatchPasses


LEMMA StateRemoveTaskHolds ==
  ASSUME TypeInv, NEW d \in Task, StateRemoveTask(d), NEW t, NEW e \in Exec, Held(t, e)'
  PROVE  Held(t, e)
<1>1. CASE taskInExec[d] # NoExec
  <2>1. taskInExec[d] \in Exec /\ StateRemoveTaskFrom(taskInExec[d], d)
    BY <1>1 DEF StateRemoveTask, TypeInv, STypeOK
  <2>2. QED
    BY <2>1, LessHeld
<1>2. CASE taskInExec[d] = NoExec
  BY <1>2 DEF StateRemoveTask, svars, Held
<1>3. QED
  BY <1>1, <1>2

LEMMA AnnounceTypesMatch ==
  ASSUME TypeInv, NEW t \in Task, Match(t), NEW th \in Thread, AnnounceTypes(th) PROVE Match(t)'
<1>1. stack[th] # <<>> /\ UNCHANGED <<taskInQueue, execTasks, tasks, etask>>
  BY AnnounceTypesSeen DEF At, qvars, svars
<1>2. PICK g \in Seq(Fills) : Continue(th, g)
  BY AnnounceTypesSeen
<1>3. QED
  BY <1>1, <1>2, MatchWaits DEF Held

LEMMA FillAllMatch ==
  ASSUME TypeInv, NEW t \in Task, Match(t), NEW th \in Thread, FillAll(th) PROVE Match(t)'
<1>1. stack[th] # <<>> /\ UNCHANGED <<taskInQueue, execTasks, tasks, etask>>
  BY FillAllSeen DEF At, qvars, svars
<1>2. PICK g \in Seq(Fills) : Continue(th, g)
  BY FillAllSeen
<1>3. QED
  BY <1>1, <1>2, MatchWaits DEF Held

LEMMA AddExecutorMatch ==
  ASSUME TypeInv, NEW t \in Task, Match(t), NEW th \in Thread, AddExecutor(th) PROVE Match(t)'
<1>1. stack[th] # <<>> /\ UNCHANGED <<taskInQueue, execTasks, tasks, etask>>
  BY AddExecutorSeen DEF At, qvars
<1>2. ASSUME NEW g \in Seq(Fills), Continue(th, g) PROVE Match(t)'
  BY <1>1, <1>2, MatchWaits DEF Held
<1>3. QED
  BY <1>2, AddExecutorSeen

LEMMA RemoveExecutorMatch ==
  ASSUME TypeInv, NEW t \in Task, Match(t), NEW th \in Thread, RemoveExecutor(th) PROVE Match(t)'
<1>1. stack[th] # <<>> /\ UNCHANGED <<taskInQueue, execTasks, tasks, etask>>
  BY RemoveExecutorSeen DEF At, qvars, svars
<1>2. CASE Continue(th, <<>>)
  BY <1>1, <1>2, MatchPassesOne DEF Held
<1>3. ASSUME NEW a \in Call, Continue(th, <<a>>), a.op = "dropState" PROVE Match(t)'
  <2>1. a \notin Misfits(t)
    BY <1>3 DEF Misfits
  <2>2. QED
    BY <1>1, <1>3, <2>1, MatchPassesOne DEF Held
<1>4. QED
  BY <1>2, <1>3, RemoveExecutorSeen

LEMMA DropStateMatch ==
  ASSUME TypeInv, NEW t \in Task, Match(t), NEW th \in Thread, DropState(th) PROVE Match(t)'
<1> DEFINE e == Top(th).exec
<1>1. stack[th] # <<>> /\ e \in Exec /\ UNCHANGED <<taskInQueue, tasks, etask>>
  BY DropStateSeen DEF At, qvars
<1>2. ASSUME StateRemoveExecutorFails(e), Abort(th, e) PROVE Match(t)'
  BY <1>1, <1>2, MatchEnds DEF StateRemoveExecutorFails, Abort
<1>3. ASSUME StateRemoveExecutor(e),
             NEW a \in Call, NEW b \in Call, NEW r \in Seq(Fills), Continue(th, <<a, b>> \o r),
             a.op = "requeue", b.op = "closeTransport"
      PROVE  Match(t)'
  <2> DEFINE S == Misfits(t)
             g == <<a, b>>
             h == g \o r
  <2>1. \A c \in Exec : Held(t, c)' => Held(t, c)
    BY <1>1, <1>3 DEF StateRemoveExecutor, TypeInv, STypeOK, Held
  <2>2. a \notin S /\ b \notin S
    BY <1>3 DEF Misfits
  <2>3. r \in Seq(Call) /\ ~Has(r, S)
    BY HasNoFill DEF Fills, Misfits
  <2>4. Continue(th, h)
    BY <1>3
  <2> HIDE DEF S
  <2>5. g \in Seq(Call) /\ ~Has(g, S)
    BY <2>2, HasPair
  <2> HIDE DEF g
  <2>6. h \in Seq(Call) /\ ~Has(h, S)
    BY <2>3, <2>5, HasConcat, ConcatProperties
  <2> HIDE DEF h
  <2>7. QED
    BY <1>1, <2>1, <2>4, <2>6, MatchPasses DEF S
<1>4. QED
  BY <1>2, <1>3, DropStateSeen

LEMMA RequeueMatch ==
  ASSUME TypeInv, NEW t \in Task, Match(t), NEW th \in Thread, Requeue(th) PROVE Match(t)'
<1> DEFINE e == Top(th).exec
<1>1. stack[th] # <<>> /\ UNCHANGED <<taskInQueue, execTasks, tasks, etask>>
  BY RequeueSeen DEF At, qvars, svars
<1>2. CASE Continue(th, <<>>)
  BY <1>1, <1>2, MatchPassesOne DEF Held
<1>3. CASE Abort(th, e)
  BY <1>1, <1>3, MatchEnds DEF Abort
<1>4. ASSUME NEW d \in Top(th).todo, NEW a \in Call, NEW b \in Call, Continue(th, <<a, b>>),
             b.op = "requeue", a.task = d,
             a.op = "dispatchTask" \/ (a.op = "pushTask" /\ (d \in tasks => a.type = etask[d].type))
      PROVE  Match(t)'
  <2>1. t \in tasks => a \notin Misfits(t) /\ b \notin Misfits(t)
    BY <1>4 DEF Misfits
  <2>2. QED
    BY <1>1, <1>4, <2>1, MatchPassesTwo
<1>5. QED
  BY <1>2, <1>3, <1>4, RequeueSeen

LEMMA DisconnectClientMatch ==
  ASSUME TypeInv, NEW t \in Task, Match(t), NEW th \in Thread, DisconnectClient(th) PROVE Match(t)'
BY DisconnectClientSeen, MatchPassesOne DEF At, qvars, svars, Held

LEMMA FreezeTaskMatch ==
  ASSUME TypeInv, NEW t \in Task, Match(t), Token(t), NEW th \in Thread, FreezeTask(th) PROVE Match(t)'
<1> DEFINE d == Top(th).task
<1>1. /\ stack[th] # <<>> /\ Top(th).op = "freezeTask" /\ Top(th) \in Call
      /\ UNCHANGED <<taskInQueue, execTasks, tasks>>
      /\ t # d => etask'[t] = etask[t]
  BY FreezeTaskSeen, TopIsCall DEF At, qvars, svars
<1>2. t = d => Top(th) \in Carriers(t)
  BY <1>1 DEF Carriers, TokenOps
<1>3. CASE Continue(th, <<>>)
  <2>1. <<>> \in Seq(Call) /\ ~Has(<<>>, Misfits(t)')
    BY HasNone
  <2>2. QED
    BY <1>1, <1>2, <1>3, <2>1, MatchTurns, MatchPassesOne DEF Held
<1>4. ASSUME NEW a \in Call, Continue(th, <<a>>), a.op = "removeTask" PROVE Match(t)'
  <2>1. a \notin Misfits(t) /\ a \notin Misfits(t)'
    BY <1>4 DEF Misfits
  <2>2. <<a>> \in Seq(Call) /\ ~Has(<<a>>, Misfits(t)')
    BY <2>1, HasSingle
  <2>3. QED
    BY <1>1, <1>2, <1>4, <2>1, <2>2, MatchTurns, MatchPassesOne DEF Held
<1>5. QED
  BY <1>3, <1>4, FreezeTaskSeen

LEMMA UnfreezeTasksMatch ==
  ASSUME TypeInv, NEW t \in Task, Match(t), NEW th \in Thread, UnfreezeTasks(th) PROVE Match(t)'
<1>1. /\ stack[th] # <<>> /\ Top(th) \in Fills /\ Top(th) \in Call
      /\ UNCHANGED <<taskInQueue, execTasks, tasks, etask>>
  BY UnfreezeTasksSeen DEF At, qvars, svars, Fills
<1>2. \A a \in Fills : a \notin Misfits(t)
  BY DEF Fills, Misfits
<1>3. CASE Continue(th, Again(Top(th).loop))
  <2>1. Top(th).loop \in Type \cup {NoType}
    BY <1>1 DEF Fills, Call, FrameType
  <2>2. QED
    BY <1>1, <1>3, <2>1, AgainFills, MatchWaits DEF Held
<1>4. ASSUME NEW a \in Fills, Continue(th, <<a>>) PROVE Match(t)'
  <2>1. a \in Call
    BY DEF Fills
  <2>2. QED
    BY <1>1, <1>2, <1>4, <2>1, MatchPassesOne DEF Held
<1>5. ASSUME NEW a \in Call, Continue(th, <<a, Top(th)>>), a.op = "dispatchTask" PROVE Match(t)'
  <2>1. a \notin Misfits(t)
    BY <1>5 DEF Misfits
  <2>2. QED
    BY <1>1, <1>2, <1>5, <2>1, MatchPassesTwo
<1>6. QED
  BY <1>1, <1>3, <1>4, <1>5, UnfreezeTasksSeen

LEMMA AddTaskMatch ==
  ASSUME TypeInv, NEW t \in Task, Match(t), Token(t), NEW th \in Thread, AddTask(th) PROVE Match(t)'
<1> DEFINE d == Top(th).task
<1>1. /\ stack[th] # <<>> /\ Top(th).op = "addTask" /\ Top(th) \in Call
      /\ UNCHANGED <<taskInQueue, execTasks, etask>>
  BY AddTaskSeen, TopIsCall DEF At, qvars, svars
<1>2. ASSUME UNCHANGED tasks, NEW g \in Seq(Fills), Continue(th, g) PROVE Match(t)'
  BY <1>1, <1>2, MatchWaits DEF Held
<1>3. ASSUME tasks' = tasks \cup {d}, NEW a \in Call, Continue(th, <<a>>), a.op = "dispatchTask"
      PROVE  Match(t)'
  <2>1. t = d => Top(th) \in Carriers(t)
    BY <1>1 DEF Carriers, TokenOps
  <2>2. a \notin Misfits(t) /\ a \notin Misfits(t)'
    BY <1>3 DEF Misfits
  <2>3. <<a>> \in Seq(Call) /\ ~Has(<<a>>, Misfits(t)')
    BY <2>2, HasSingle
  <2>4. QED
    BY <1>1, <1>3, <2>1, <2>2, <2>3, MatchTurns, MatchPassesOne DEF Held
<1>4. QED
  BY <1>2, <1>3, AddTaskSeen

LEMMA DispatchTaskMatch ==
  ASSUME TypeInv, NEW t \in Task, Match(t), NEW th \in Thread, DispatchTask(th) PROVE Match(t)'
<1>1. stack[th] # <<>> /\ UNCHANGED <<taskInQueue, execTasks, tasks, etask>>
  BY DispatchTaskSeen DEF At, qvars, svars
<1>2. CASE Continue(th, <<>>)
  BY <1>1, <1>2, MatchPassesOne DEF Held
<1>3. ASSUME NEW a \in Call, Continue(th, <<a>>), a.op = "getNextExecutor" PROVE Match(t)'
  <2>1. a \notin Misfits(t)
    BY <1>3 DEF Misfits
  <2>2. QED
    BY <1>1, <1>3, <2>1, MatchPassesOne DEF Held
<1>4. QED
  BY <1>2, <1>3, DispatchTaskSeen

LEMMA GetNextExecutorMatch ==
  ASSUME TypeInv, NEW t \in Task, Match(t), Token(t), NEW th \in Thread, GetNextExecutor(th) PROVE Match(t)'
<1> DEFINE d == Top(th).task
<1>1. /\ stack[th] # <<>> /\ Top(th).op = "getNextExecutor" /\ Top(th) \in Call
      /\ UNCHANGED <<taskInQueue, execTasks, tasks>>
      /\ t # d => etask'[t] = etask[t]
  BY GetNextExecutorSeen, TopIsCall DEF At, qvars, svars
<1>2. t = d => Top(th) \in Carriers(t)
  BY <1>1 DEF Carriers, TokenOps
<1>3. ASSUME NEW a \in Call, Continue(th, <<a>>), a.op \in {"freezeTask", "removeTask"}
      PROVE  Match(t)'
  <2>1. a \notin Misfits(t) /\ a \notin Misfits(t)'
    BY <1>3 DEF Misfits
  <2>2. <<a>> \in Seq(Call) /\ ~Has(<<a>>, Misfits(t)')
    BY <2>1, HasSingle
  <2>3. QED
    BY <1>1, <1>2, <1>3, <2>1, <2>2, MatchTurns, MatchPassesOne DEF Held
<1>4. ASSUME NEW a \in Call, NEW b \in Call, Continue(th, <<a, b>>),
             a.op = "pushTask", a.task = d, a.type = etask'[d].type, b \in Fills
      PROVE  Match(t)'
  <2>1. /\ b \notin Misfits(t) /\ b \notin Misfits(t)' /\ a \notin Misfits(t)'
        /\ t # d => a \notin Misfits(t)
    BY <1>4 DEF Misfits, Fills
  <2>2. <<a, b>> \in Seq(Call) /\ ~Has(<<a, b>>, Misfits(t)')
    BY <2>1, HasPair
  <2>3. CASE t = d
    BY <1>1, <1>2, <1>4, <2>2, <2>3, MatchTurns
  <2>4. CASE t # d
    BY <1>1, <1>4, <2>1, <2>4, MatchPassesTwo
  <2>5. QED
    BY <2>3, <2>4
<1>5. QED
  BY <1>3, <1>4, GetNextExecutorSeen

LEMMA PushTaskStepMatch ==
  ASSUME TypeInv, NEW t \in Task, Match(t), NEW th \in Thread, PushTaskStep(th) PROVE Match(t)'
<1> DEFINE f == Top(th)
<1>1. /\ stack[th] # <<>> /\ f.op = "pushTask" /\ f \in Call
      /\ UNCHANGED <<execTasks, tasks, etask>> /\ Continue(th, <<>>)
      /\ taskInQueue'[t] = IF t = f.task /\ ~Queued(t) THEN f.type ELSE taskInQueue[t]
  BY PushTaskStepSeen, TopIsCall DEF At, svars
<1>2. t \in tasks => f \notin Misfits(t)
  <2>1. f \in Misfits(t) => Has(stack[th], Misfits(t))
    BY <1>1, HasHeadTail DEF TypeInv, Top
  <2>2. QED
    BY <2>1 DEF Match, Somewhere
<1>3. t \in tasks /\ Queued(t)' => taskInQueue'[t] = etask[t].type
  BY <1>1, <1>2 DEF Match, Misfits, Queued
<1>4. <<>> \in Seq(Call) /\ ~Has(<<>>, Misfits(t))
  BY HasNone
<1>5. QED
  BY <1>1, <1>3, <1>4, MatchMoves DEF Held

LEMMA RemoveTaskMatch ==
  ASSUME TypeInv, NEW t \in Task, Match(t), NEW th \in Thread, RemoveTask(th) PROVE Match(t)'
<1> DEFINE d == Top(th).task
<1>1. /\ stack[th] # <<>> /\ UNCHANGED <<taskInQueue, execTasks>>
      /\ t # d => etask'[t] = etask[t]
  BY RemoveTaskSeen DEF At, qvars, svars
<1>2. ASSUME Continue(th, <<>>), UNCHANGED <<tasks, etask>> PROVE Match(t)'
  BY <1>1, <1>2, MatchPassesOne DEF Held
<1>3. ASSUME tasks' = tasks \ {d}, CleanUp(th, d) PROVE Match(t)'
  <2>1. PICK a \in Call, b \in Call, c \in Call, r \in Seq(Call) :
           /\ Continue(th, <<a, b, c>> \o r)
           /\ a.op = "removeQueued" /\ a.task = d
           /\ b.op = "removeRunning" /\ b.task = d
           /\ c.op = "removeFrozen" /\ c.task = d
           /\ \/ taskInExec[d] = NoExec /\ r = <<>>
              \/ \E x \in Call : r = <<x>> /\ x.op = "sendIfIdle" /\ x.exec = taskInExec[d]
    BY <1>3, Zenon DEF CleanUp
  <2> DEFINE g == <<a, b, c>>
             S == Misfits(t)
             h == g \o r
  <2>2. a \notin S /\ b \notin S /\ c \notin S /\ \A x \in Call : x.op = "sendIfIdle" => x \notin S
    BY <2>1 DEF Misfits
  <2> HIDE DEF S
  <2>3. ~Has(r, S)
    BY <2>1, <2>2, HasNone, HasSingle
  <2>4. g \in Seq(Call) /\ ~Has(g, S)
    BY <2>2, HasTriple
  <2>5. Continue(th, h)
    BY <2>1
  <2> HIDE DEF g
  <2>6. h \in Seq(Call) /\ ~Has(h, S)
    BY <2>3, <2>4, HasConcat, ConcatProperties
  <2> HIDE DEF h
  <2>7. t \in tasks' => t \in tasks /\ etask'[t].type = etask[t].type
    BY <1>1, <1>3
  <2>8. QED
    BY <1>1, <2>5, <2>6, <2>7, MatchPasses DEF S, Held
<1>4. QED
  BY <1>2, <1>3, RemoveTaskSeen

LEMMA RemoveQueuedMatch ==
  ASSUME TypeInv, NEW t \in Task, Match(t), NEW th \in Thread, RemoveQueued(th) PROVE Match(t)'
<1>1. /\ stack[th] # <<>> /\ UNCHANGED <<execTasks, tasks, etask>> /\ Continue(th, <<>>)
      /\ taskInQueue'[t] = IF t = Top(th).task THEN NoType ELSE taskInQueue[t]
  BY RemoveQueuedSeen DEF At, svars
<1>2. t \in tasks /\ Queued(t)' => taskInQueue'[t] = etask[t].type
  BY <1>1 DEF Match, Queued
<1>3. <<>> \in Seq(Call) /\ ~Has(<<>>, Misfits(t))
  BY HasNone
<1>4. QED
  BY <1>1, <1>2, <1>3, MatchMoves DEF Held

LEMMA RemoveRunningMatch ==
  ASSUME TypeInv, NEW t \in Task, Match(t), NEW th \in Thread, RemoveRunning(th) PROVE Match(t)'
<1> DEFINE d == Top(th).task
<1>1. /\ stack[th] # <<>> /\ d \in Task /\ UNCHANGED <<taskInQueue, tasks, etask>>
      /\ Continue(th, Again(Top(th).loop)) /\ Again(Top(th).loop) \in Seq(Fills)
      /\ StateRemoveTask(d)
  BY RemoveRunningSeen, AgainFills DEF At, qvars
<1>2. \A e \in Exec : Held(t, e)' => Held(t, e)
  BY <1>1, StateRemoveTaskHolds
<1>3. QED
  BY <1>1, <1>2, MatchWaits

LEMMA RemoveFrozenMatch ==
  ASSUME TypeInv, NEW t \in Task, Match(t), NEW th \in Thread, RemoveFrozen(th) PROVE Match(t)'
BY RemoveFrozenSeen, MatchPassesOne DEF At, qvars, svars, Held

LEMMA FillLoopMatch ==
  ASSUME TypeInv, NEW t \in Task, Match(t), NEW th \in Thread, FillLoop(th) PROVE Match(t)'
<1>1. stack[th] # <<>> /\ UNCHANGED <<taskInQueue, execTasks, tasks, etask>>
  BY FillLoopSeen DEF At, qvars, svars
<1>2. CASE Continue(th, <<>>)
  BY <1>1, <1>2, MatchPassesOne DEF Held
<1>3. ASSUME NEW a \in Call, Continue(th, <<a>>), a.op = "send" PROVE Match(t)'
  <2>1. a \notin Misfits(t)
    BY <1>3 DEF Misfits
  <2>2. QED
    BY <1>1, <1>3, <2>1, MatchPassesOne DEF Held
<1>4. QED
  BY <1>2, <1>3, FillLoopSeen

LEMMA SendIfIdleMatch ==
  ASSUME TypeInv, NEW t \in Task, Match(t), NEW th \in Thread, SendIfIdle(th) PROVE Match(t)'
<1>1. stack[th] # <<>> /\ UNCHANGED <<taskInQueue, execTasks, tasks, etask>>
  BY SendIfIdleSeen DEF At, qvars, svars
<1>2. CASE Continue(th, <<>>)
  BY <1>1, <1>2, MatchPassesOne DEF Held
<1>3. ASSUME NEW a \in Call, Continue(th, <<a>>), a.op = "send" PROVE Match(t)'
  <2>1. a \notin Misfits(t)
    BY <1>3 DEF Misfits
  <2>2. QED
    BY <1>1, <1>3, <2>1, MatchPassesOne DEF Held
<1>4. QED
  BY <1>2, <1>3, SendIfIdleSeen

LEMMA SendMatch ==
  ASSUME TypeInv, NEW t \in Task, Match(t), NEW th \in Thread, Send(th) PROVE Match(t)'
<1> DEFINE f == Top(th)
<1>1. /\ stack[th] # <<>> /\ f.loop \in Type \cup {NoType}
      /\ UNCHANGED <<execTasks, tasks, etask>>
  BY SendSeen DEF At, svars
<1>2. CASE UNCHANGED qvars /\ Continue(th, Again(f.loop))
  BY <1>1, <1>2, AgainFills, MatchWaits DEF Held, qvars
<1>3. CASE UNCHANGED qvars /\ Continue(th, <<>>)
  BY <1>1, <1>3, MatchPassesOne DEF Held, qvars
<1>4. ASSUME NEW y \in Type, Picked(th, f, y) PROVE Match(t)'
  <2>1. PICK a \in Call : /\ Continue(th, <<a>>)
                          /\ a.op = "handOver" /\ a.exec = f.exec /\ a.type = y /\ a.loop = f.loop
                          /\ a.task \in Task /\ taskInQueue[a.task] = y
                          /\ \A d \in Task : taskInQueue'[d] = IF d = a.task THEN NoType ELSE taskInQueue[d]
    BY <1>4, Zenon DEF Picked
  <2>2. t \in tasks /\ Queued(t)' => taskInQueue'[t] = etask[t].type
    BY <2>1 DEF Match, Queued
  <2>3. t \in tasks => a \notin Misfits(t)
    <3>1. y # NoType
      BY IdAssumption
    <3>2. QED
      BY <2>1, <3>1 DEF Match, Misfits, Queued
  <2>4. <<a>> \in Seq(Call) /\ (t \in tasks => ~Has(<<a>>, Misfits(t)))
    BY <2>3, HasSingle
  <2>5. QED
    BY <1>1, <2>1, <2>2, <2>4, MatchMoves DEF Held
<1>5. QED
  BY <1>2, <1>3, <1>4, SendSeen

LEMMA HandOverMatch ==
  ASSUME TypeInv, NEW t \in Task, Match(t), Tidy, NEW th \in Thread, HandOver(th) PROVE Match(t)'
<1> DEFINE f == Top(th)
           e == f.exec
<1>1. /\ stack[th] # <<>> /\ f.op = "handOver" /\ f \in Call /\ e \in Exec /\ f.task \in Task
      /\ UNCHANGED <<taskInQueue, tasks, etask>> /\ StateAddTask(e, f.task)
  BY HandOverSeen, TopIsCall DEF At, qvars
<1>2. PICK a \in Call : Continue(th, <<a>>) /\ a.op = "message"
  BY HandOverSeen
<1>3. a \notin Misfits(t)
  BY <1>2 DEF Misfits
<1>4. f.type \in TypesOf(e)
  BY <1>1, TopFits DEF Fit
<1>5. t \in tasks => f \notin Misfits(t)
  <2>1. f \in Misfits(t) => Has(stack[th], Misfits(t))
    BY <1>1, HasHeadTail DEF TypeInv, Top
  <2>2. QED
    BY <2>1 DEF Match, Somewhere
<1>6. \A c \in Exec : Held(t, c)' => Held(t, c) \/ (t = f.task /\ c = e)
  BY <1>1 DEF StateAddTask, Held, TypeInv, STypeOK
<1>7. t \in tasks => \A c \in Exec : Held(t, c)' => Held(t, c) \/ etask[t].type \in TypesOf(c)
  BY <1>1, <1>4, <1>5, <1>6 DEF Misfits
<1>8. t \in tasks /\ Queued(t)' => taskInQueue'[t] = etask[t].type
  BY <1>1 DEF Match, Queued
<1>9. <<a>> \in Seq(Call) /\ ~Has(<<a>>, Misfits(t))
  BY <1>3, HasSingle
<1>10. QED
  BY <1>1, <1>2, <1>7, <1>8, <1>9, MatchMoves

LEMMA MessageMatch ==
  ASSUME TypeInv, NEW t \in Task, Match(t), Once, NEW th \in Thread, Message(th) PROVE Match(t)'
<1>1. /\ stack[th] # <<>> /\ Top(th).loop \in Type \cup {NoType}
      /\ UNCHANGED <<taskInQueue, execTasks, tasks, etask>>
  BY MessageSeen DEF At, qvars, svars
<1>2. CASE Continue(th, Again(Top(th).loop))
  BY <1>1, <1>2, AgainFills, MatchWaits DEF Held
<1>3. ASSUME NEW a \in Call, Continue(th, <<a>>), a.op = "removeRunning" PROVE Match(t)'
  <2>1. a \notin Misfits(t)
    BY <1>3 DEF Misfits
  <2>2. QED
    BY <1>1, <1>3, <2>1, MatchPassesOne DEF Held
<1>4. QED
  BY <1>2, <1>3, MessageSeen DEF Once

LEMMA TaskReceivedMatch ==
  ASSUME TypeInv, NEW t \in Task, Match(t), NEW th \in Thread, TaskReceived(th) PROVE Match(t)'
<1> DEFINE e == Top(th).exec
           d == Top(th).task
<1>1. /\ stack[th] # <<>> /\ e \in Exec /\ d \in Task /\ UNCHANGED <<taskInQueue, tasks, etask>>
  BY TaskReceivedSeen DEF At, qvars
<1>2. CASE UNCHANGED svars /\ Continue(th, <<>>)
  BY <1>1, <1>2, MatchPassesOne DEF Held, svars
<1>3. ASSUME StateRemoveTaskFrom(e, d), NEW a \in Call, Continue(th, <<a>>),
             a.op \in {"taskReturned", "send"}
      PROVE  Match(t)'
  <2>1. \A c \in Exec : Held(t, c)' => Held(t, c)
    BY <1>1, <1>3, LessHeld
  <2>2. a \notin Misfits(t)
    BY <1>3 DEF Misfits
  <2>3. QED
    BY <1>1, <1>3, <2>1, <2>2, MatchPassesOne
<1>4. QED
  BY <1>2, <1>3, TaskReceivedSeen

LEMMA TaskReturnedMatch ==
  ASSUME TypeInv, NEW t \in Task, Match(t), NEW th \in Thread, TaskReturned(th) PROVE Match(t)'
<1> DEFINE e == Top(th).exec
<1>1. stack[th] # <<>> /\ UNCHANGED <<taskInQueue, execTasks, tasks, etask>>
  BY TaskReturnedSeen DEF At, qvars, svars
<1>2. CASE Abort(th, e)
  BY <1>1, <1>2, MatchEnds DEF Abort
<1>3. ASSUME NEW a \in Call, NEW b \in Call, Continue(th, <<a, b>>),
             a.op = "removeExecutor", b.op = "dispatchTask"
      PROVE  Match(t)'
  <2>1. a \notin Misfits(t) /\ b \notin Misfits(t)
    BY <1>3 DEF Misfits
  <2>2. QED
    BY <1>1, <1>3, <2>1, MatchPassesTwo
<1>4. ASSUME NEW a \in Call, Continue(th, <<a>>), a.op = "storeTask" PROVE Match(t)'
  <2>1. a \notin Misfits(t)
    BY <1>4 DEF Misfits
  <2>2. QED
    BY <1>1, <1>4, <2>1, MatchPassesOne DEF Held
<1>5. ASSUME NEW a \in Call, NEW r \in Seq(Call), Continue(th, <<a>> \o r), a.op = "send",
             r = <<>> \/ \E b \in Call : r = <<b>> /\ b.op = "removeTask"
      PROVE  Match(t)'
  <2> DEFINE S == Misfits(t)
             g == <<a>>
             h == g \o r
  <2>1. a \notin S /\ \A b \in Call : b.op = "removeTask" => b \notin S
    BY <1>5 DEF Misfits
  <2> HIDE DEF S
  <2>2. ~Has(r, S) /\ g \in Seq(Call) /\ ~Has(g, S)
    BY <1>5, <2>1, HasNone, HasSingle
  <2>3. Continue(th, h)
    BY <1>5
  <2> HIDE DEF g
  <2>4. h \in Seq(Call) /\ ~Has(h, S)
    BY <1>5, <2>2, HasConcat, ConcatProperties
  <2> HIDE DEF h
  <2>5. QED
    BY <1>1, <2>3, <2>4, MatchPasses DEF S, Held
<1>6. QED
  BY <1>2, <1>3, <1>4, <1>5, TaskReturnedSeen

LEMMA StoreTaskMatch ==
  ASSUME TypeInv, NEW t \in Task, Match(t), NEW th \in Thread, StoreTask(th) PROVE Match(t)'
<1>1. /\ stack[th] # <<>> /\ UNCHANGED <<taskInQueue, execTasks, tasks>>
      /\ etask'[t].type = etask[t].type
  BY StoreTaskSeen DEF At, qvars, svars
<1>2. ASSUME NEW b \in Call, b.op = "send", Continue(th, <<b>>) PROVE Match(t)'
  <2>1. b \notin Misfits(t)
    BY <1>2 DEF Misfits
  <2>2. QED
    BY <1>1, <1>2, <2>1, MatchPassesOne DEF Held
<1>3. ASSUME NEW a \in Call, NEW b \in Call, b.op = "send", Continue(th, <<a, b>>),
             a.op \in {"dispatchTask", "freezeTask"}
      PROVE  Match(t)'
  <2>1. a \notin Misfits(t) /\ b \notin Misfits(t)
    BY <1>3 DEF Misfits
  <2>2. QED
    BY <1>1, <1>3, <2>1, MatchPassesTwo
<1>4. QED
  BY <1>2, <1>3, StoreTaskSeen

LEMMA ThreadStepMatch ==
  ASSUME TypeInv, NEW t \in Task, Match(t), Token(t), Tidy, Once, NEW th \in Thread, ThreadStep(th)
  PROVE  Match(t)'
BY AddExecutorMatch, AnnounceTypesMatch, RemoveExecutorMatch, DropStateMatch, RequeueMatch,
   DisconnectClientMatch, FreezeTaskMatch, UnfreezeTasksMatch, AddTaskMatch, DispatchTaskMatch,
   GetNextExecutorMatch, PushTaskStepMatch, RemoveTaskMatch, RemoveQueuedMatch,
   RemoveRunningMatch, RemoveFrozenMatch, FillLoopMatch, FillAllMatch, SendMatch,
   SendIfIdleMatch, HandOverMatch, MessageMatch, TaskReceivedMatch, TaskReturnedMatch,
   StoreTaskMatch DEF ThreadStep


\* a handler that begins with calls that put no task in a queue
LEMMA MatchAside ==
  ASSUME TypeInv, NEW t \in Task, Match(t), NEW th \in Thread,
         UNCHANGED <<taskInQueue, execTasks, tasks, etask>>,
         \/ \E a \in Call : Starts(th, <<a>>) /\ a \notin Misfits(t)
         \/ \E a, b \in Call : Starts(th, <<a, b>>) /\ a \notin Misfits(t) /\ b \notin Misfits(t)
  PROVE  Match(t)'
<1>1. ASSUME NEW a \in Call, Starts(th, <<a>>), a \notin Misfits(t) PROVE Match(t)'
  <2>1. <<a>> \in Seq(Call) /\ ~Has(<<a>>, Misfits(t))
    BY <1>1, HasSingle
  <2>2. QED
    BY <1>1, <2>1, MatchStarts
<1>2. ASSUME NEW a \in Call, NEW b \in Call, Starts(th, <<a, b>>), a \notin Misfits(t), b \notin Misfits(t)
      PROVE  Match(t)'
  <2>1. <<a, b>> \in Seq(Call) /\ ~Has(<<a, b>>, Misfits(t))
    BY <1>2, HasPair
  <2>2. QED
    BY <1>2, <2>1, MatchStarts
<1>3. QED
  BY <1>1, <1>2

LEMMA ConnectMatch ==
  ASSUME TypeInv, NEW t \in Task, Match(t), NEW th \in Worker, NEW e \in Exec, Connect(th, e)
  PROVE  Match(t)'
<1>1. UNCHANGED <<taskInQueue, execTasks, tasks, etask>> /\ th \in Thread
  BY ConnectSeen DEF qvars, svars, Thread
<1>2. ASSUME NEW a \in Call, Starts(th, <<a>>), a.op = "addExecutor" PROVE Match(t)'
  BY <1>1, <1>2, MatchAside DEF Misfits
<1>3. QED
  BY <1>2, ConnectSeen

LEMMA HandleDropMatch ==
  ASSUME TypeInv, NEW t \in Task, Match(t), NEW th \in Worker, NEW e \in Exec, HandleDrop(th, e)
  PROVE  Match(t)'
<1>1. UNCHANGED <<taskInQueue, execTasks, tasks, etask>> /\ th \in Thread
  BY HandleDropSeen DEF qvars, svars, Thread
<1>2. ASSUME NEW a \in Call, Starts(th, <<a>>), a.op = "removeExecutor" PROVE Match(t)'
  BY <1>1, <1>2, MatchAside DEF Misfits
<1>3. QED
  BY <1>2, HandleDropSeen

LEMMA HandleReplyMatch ==
  ASSUME TypeInv, NEW t \in Task, Match(t), NEW th \in Worker, NEW e \in Exec, NEW kind \in Replies,
         HandleReply(th, e, kind)
  PROVE  Match(t)'
<1>1. UNCHANGED <<taskInQueue, execTasks, tasks, etask>> /\ th \in Thread
  BY HandleReplySeen DEF qvars, svars, Thread
<1>2. ASSUME NEW a \in Call, Starts(th, <<a>>), a.op \in {"taskReceived", "removeTask"}
      PROVE  Match(t)'
  BY <1>1, <1>2, MatchAside DEF Misfits
<1>3. ASSUME NEW a \in Call, NEW b \in Call, Starts(th, <<a, b>>),
             a.op = "removeExecutor", b.op = "closeTransport"
      PROVE  Match(t)'
  <2>1. a \notin Misfits(t) /\ b \notin Misfits(t)
    BY <1>3 DEF Misfits
  <2>2. QED
    BY <1>1, <1>3, <2>1, MatchAside
<1>4. QED
  BY <1>2, <1>3, HandleReplySeen DEF Answered

LEMMA RequestMatch ==
  ASSUME TypeInv, NEW t \in Task, Match(t), NEW th \in Worker, NEW d \in Task, NEW kind \in Requests,
         Request(th, d, kind)
  PROVE  Match(t)'
<1>1. UNCHANGED <<taskInQueue, execTasks, tasks, etask>> /\ th \in Thread
  BY RequestSeen DEF qvars, svars, Thread
<1>2. ASSUME NEW a \in Call, Starts(th, <<a>>), a.op = "addTask" PROVE Match(t)'
  BY <1>1, <1>2, MatchAside DEF Misfits
<1>3. ASSUME NEW a \in Call, NEW b \in Call, Starts(th, <<b, a>>), a.op = "addTask", b.op = "removeTask"
      PROVE  Match(t)'
  <2>1. a \notin Misfits(t) /\ b \notin Misfits(t)
    BY <1>3 DEF Misfits
  <2>2. QED
    BY <1>1, <1>3, <2>1, MatchAside
<1>4. QED
  BY <1>2, <1>3, RequestSeen

LEMMA PeriodicMatch ==
  ASSUME TypeInv, NEW t \in Task, Match(t), Periodic PROVE Match(t)'
<1>1. UNCHANGED <<taskInQueue, execTasks, tasks, etask>> /\ Scheduler \in Thread
  BY PeriodicSeen DEF qvars, svars, Thread
<1>2. PICK g \in Seq(Fills) : Starts(Scheduler, g)
  BY PeriodicSeen
<1>3. g \in Seq(Call) /\ ~Has(g, Misfits(t))
  BY HasNoFill DEF Fills, Misfits
<1>4. QED
  BY <1>1, <1>2, <1>3, MatchStarts

LEMMA NextMatch ==
  ASSUME TypeInv, NEW t \in Task, Match(t), Token(t), Tidy, Once, [Next]_vars PROVE Match(t)'
<1>1. ASSUME NEW e \in Exec, Disconnect(e) PROVE Match(t)'
  BY <1>1, DisconnectSeen, MatchEnds DEF qvars, svars
<1>2. ASSUME NEW d \in Task, Ripen(d) PROVE Match(t)'
  BY <1>2, RipenSeen, MatchEnds DEF qvars, svars
<1>3. CASE UNCHANGED vars
  BY <1>3, MatchEnds DEF vars, qvars, svars, mindvars
<1>4. CASE Next
  BY <1>1, <1>2, <1>4, ConnectMatch, HandleDropMatch, HandleReplyMatch, RequestMatch,
     PeriodicMatch, ThreadStepMatch DEF Next
<1>5. QED
  BY <1>3, <1>4

LEMMA InitMatch == Init => MatchInv
BY DEF Init, MatchInv, Match

LEMMA SpecTidy == ASSUME Trusty PROVE Spec => [](Tidy /\ MatchInv)
<1>1. TypeInv /\ TokenInv /\ Tidy /\ MatchInv /\ [Next]_vars => Tidy' /\ MatchInv'
  BY NextTidy, NextMatch DEF TokenInv, MatchInv, Trusty
<1>2. Spec => []TokenInv
  BY SpecToken DEF Trusty
<1>3. QED
  BY <1>1, <1>2, InitTidy, InitMatch, SpecTypeInv, PTL DEF Spec

-----------------------------------------------------------------------------
(***************************************************************************)
(* The calm life of the mind: nobody breaks a connection.  The executors   *)
(* that are connected are those that are registered, they alone are sent   *)
(* tasks, and the two maps of the tasks they hold agree.                   *)
(***************************************************************************)
Strays == {f \in Call : /\ f.op \in {"handOver", "message", "taskReceived", "taskReturned"}
                        /\ f.exec \notin connected}

Calm ==
    /\ \A e \in Exec : transport[e] # "closed"
    /\ connected = registered
    /\ ~Somewhere(stack, Strays)
    /\ \A e \in Exec : work[e] # <<>> => e \in connected
    /\ TaskIndexConsistent

LEMMA TopNoStray ==
  ASSUME TypeInv, Calm, NEW th \in Thread, stack[th] # <<>>, Top(th) \in Call
  PROVE  Top(th) \notin Strays
<1>1. Head(stack[th]) \in Strays => Has(stack[th], Strays)
  BY HasHeadTail DEF TypeInv
<1>2. QED
  BY <1>1 DEF Calm, Somewhere, Top

LEMMA CalmMoves ==
  ASSUME TypeInv, Calm, NEW th \in Thread, stack[th] # <<>>, NEW g \in Seq(Call), Continue(th, g),
         UNCHANGED <<connected, registered, transport>>,
         \A e \in Exec : work'[e] # <<>> => e \in connected,
         TaskIndexConsistent',
         ~Has(g, Strays)
  PROVE  Calm'
<1>1. stack' = Swap(stack, th, g)
  BY DEF Continue, Swap
<1>2. Strays' = Strays
  BY DEF Strays
<1>3. ~Somewhere(stack', Strays)
  BY <1>1, Replaced, StackIsStacks DEF Calm
<1>4. QED
  BY <1>2, <1>3 DEF Calm

LEMMA SameIndex ==
  ASSUME TaskIndexConsistent, UNCHANGED <<execTasks, taskInExec>> PROVE TaskIndexConsistent'
BY DEF TaskIndexConsistent

LEMMA CalmPasses ==
  ASSUME TypeInv, Calm, NEW th \in Thread, stack[th] # <<>>, NEW g \in Seq(Call), Continue(th, g),
         UNCHANGED <<connected, registered, transport, work, execTasks, taskInExec>>,
         ~Has(g, Strays)
  PROVE  Calm'
<1>1. TaskIndexConsistent' /\ \A e \in Exec : work'[e] # <<>> => e \in connected
  BY SameIndex DEF Calm
<1>2. QED
  BY <1>1, CalmMoves

LEMMA FillsNoStray == \A f \in Fills : f \notin Strays
BY DEF Fills, Strays

LEMMA CalmWaits ==
  ASSUME TypeInv, Calm, NEW th \in Thread, stack[th] # <<>>, NEW g \in Seq(Fills), Continue(th, g),
         UNCHANGED <<connected, registered, transport, work, execTasks, taskInExec>>
  PROVE  Calm'
<1>1. g \in Seq(Call) /\ ~Has(g, Strays)
  BY HasNoFill, FillsNoStray
<1>2. QED
  BY <1>1, CalmPasses

LEMMA CalmPassesOne ==
  ASSUME TypeInv, Calm, NEW th \in Thread, stack[th] # <<>>,
         UNCHANGED <<connected, registered, transport, work, execTasks, taskInExec>>,
         \/ Continue(th, <<>>)
         \/ \E a \in Call : Continue(th, <<a>>) /\ a \notin Strays
  PROVE  Calm'
<1>1. CASE Continue(th, <<>>)
  <2>1. <<>> \in Seq(Call) /\ ~Has(<<>>, Strays)
    BY HasNone
  <2>2. QED
    BY <1>1, <2>1, CalmPasses
<1>2. ASSUME NEW a \in Call, Continue(th, <<a>>), a \notin Strays PROVE Calm'
  <2>1. <<a>> \in Seq(Call) /\ ~Has(<<a>>, Strays)
    BY <1>2, HasSingle
  <2>2. QED
    BY <1>2, <2>1, CalmPasses
<1>3. QED
  BY <1>1, <1>2

LEMMA CalmPassesTwo ==
  ASSUME TypeInv, Calm, NEW th \in Thread, stack[th] # <<>>,
         UNCHANGED <<connected, registered, transport, work, execTasks, taskInExec>>,
         NEW a \in Call, NEW b \in Call, Continue(th, <<a, b>>), a \notin Strays, b \notin Strays
  PROVE  Calm'
<1>1. <<a, b>> \in Seq(Call) /\ ~Has(<<a, b>>, Strays)
  BY HasPair
<1>2. QED
  BY <1>1, CalmPasses

\* the calls of a removal come only after a connection broke
LEMMA NoRemoval ==
  ASSUME TypeInv, Tidy, Calm, NEW th \in Thread,
         NEW op \in {"removeExecutor", "dropState", "requeue", "closeTransport"}
  PROVE  ~At(th, op)
<1> SUFFICES ASSUME At(th, op) PROVE FALSE
  OBVIOUS
<1>1. /\ stack[th] # <<>> /\ Top(th).op = op /\ Top(th) \in Call
  BY TopIsCall DEF At
<1>2. Top(th).exec \in Exec
  BY <1>1 DEF Call, CallOK, ExecOps
<1>3. transport[Top(th).exec] = "closed"
  BY <1>1, TopFits DEF Wired
<1>4. QED
  BY <1>2, <1>3 DEF Calm

LEMMA AnnounceTypesCalm ==
  ASSUME TypeInv, Calm, NEW th \in Thread, AnnounceTypes(th) PROVE Calm'
<1>1. stack[th] # <<>> /\ UNCHANGED <<connected, registered, transport, work, execTasks, taskInExec>>
  BY AnnounceTypesSeen DEF At, svars, netvars
<1>2. PICK g \in Seq(Fills) : Continue(th, g)
  BY AnnounceTypesSeen
<1>3. QED
  BY <1>1, <1>2, CalmWaits

LEMMA FillAllCalm ==
  ASSUME TypeInv, Calm, NEW th \in Thread, FillAll(th) PROVE Calm'
<1>1. stack[th] # <<>> /\ UNCHANGED <<connected, registered, transport, work, execTasks, taskInExec>>
  BY FillAllSeen DEF At, svars, netvars
<1>2. PICK g \in Seq(Fills) : Continue(th, g)
  BY FillAllSeen
<1>3. QED
  BY <1>1, <1>2, CalmWaits

LEMMA AddExecutorCalm ==
  ASSUME TypeInv, Calm, NEW th \in Thread, AddExecutor(th) PROVE Calm'
<1> DEFINE e == Top(th).exec
<1>1. /\ stack[th] # <<>> /\ e \in Exec /\ UNCHANGED <<transport, work, execTasks, taskInExec>>
  BY AddExecutorSeen DEF At, netvars
<1>2. ASSUME NEW g \in Seq(Fills), Continue(th, g), UNCHANGED <<typeToId, registered, connected>>
      PROVE  Calm'
  BY <1>1, <1>2, CalmWaits
<1>3. ASSUME NEW g \in Seq(Fills), Continue(th, g), connected' = connected \cup {e}, StateAddExecutor(e)
      PROVE  Calm'
  <2> DEFINE S == Strays'
  <2>1. registered' = registered \cup {e}
    BY <1>3 DEF StateAddExecutor
  <2>2. S \subseteq Strays
    BY <1>3 DEF Strays
  <2>3. g \in Seq(Call) /\ ~Has(g, S)
    BY HasNoFill DEF Fills, Strays
  <2>4. stack' = Swap(stack, th, g)
    BY <1>3 DEF Continue, Swap
  <2> HIDE DEF S
  <2>5. Somewhere(stack', S) => Somewhere(stack, S)
    BY <1>1, <2>3, <2>4, Replaced, StackIsStacks
  <2>6. Somewhere(stack, S) => Somewhere(stack, Strays)
    BY <2>2 DEF Somewhere, Has
  <2>7. TaskIndexConsistent'
    BY <1>1, SameIndex DEF Calm
  <2>8. QED
    BY <1>1, <1>3, <2>1, <2>5, <2>6, <2>7 DEF Calm, S
<1>4. QED
  BY <1>2, <1>3, AddExecutorSeen

LEMMA RemoveExecutorCalm ==
  ASSUME TypeInv, Tidy, Calm, NEW th \in Thread, RemoveExecutor(th) PROVE Calm'
BY NoRemoval, RemoveExecutorSeen

LEMMA DropStateCalm ==
  ASSUME TypeInv, Tidy, Calm, NEW th \in Thread, DropState(th) PROVE Calm'
BY NoRemoval, DropStateSeen

LEMMA RequeueCalm ==
  ASSUME TypeInv, Tidy, Calm, NEW th \in Thread, Requeue(th) PROVE Calm'
BY NoRemoval, RequeueSeen

LEMMA DisconnectClientCalm ==
  ASSUME TypeInv, Tidy, Calm, NEW th \in Thread, DisconnectClient(th) PROVE Calm'
BY NoRemoval, DisconnectClientSeen

LEMMA FreezeTaskCalm ==
  ASSUME TypeInv, Calm, NEW th \in Thread, FreezeTask(th) PROVE Calm'
<1>1. stack[th] # <<>> /\ UNCHANGED <<connected, registered, transport, work, execTasks, taskInExec>>
  BY FreezeTaskSeen DEF At, svars, netvars
<1>2. CASE Continue(th, <<>>)
  BY <1>1, <1>2, CalmPassesOne
<1>3. ASSUME NEW a \in Call, Continue(th, <<a>>), a.op = "removeTask" PROVE Calm'
  <2>1. a \notin Strays
    BY <1>3 DEF Strays
  <2>2. QED
    BY <1>1, <1>3, <2>1, CalmPassesOne
<1>4. QED
  BY <1>2, <1>3, FreezeTaskSeen

LEMMA UnfreezeTasksCalm ==
  ASSUME TypeInv, Calm, NEW th \in Thread, UnfreezeTasks(th) PROVE Calm'
<1>1. /\ stack[th] # <<>> /\ Top(th) \in Fills /\ Top(th) \in Call
      /\ UNCHANGED <<connected, registered, transport, work, execTasks, taskInExec>>
  BY UnfreezeTasksSeen DEF At, svars, netvars, Fills
<1>2. CASE Continue(th, Again(Top(th).loop))
  <2>1. Top(th).loop \in Type \cup {NoType}
    BY <1>1 DEF Fills, Call, FrameType
  <2>2. QED
    BY <1>1, <1>2, <2>1, AgainFills, CalmWaits
<1>3. ASSUME NEW a \in Fills, Continue(th, <<a>>) PROVE Calm'
  <2>1. a \in Call
    BY DEF Fills
  <2>2. QED
    BY <1>1, <1>3, <2>1, FillsNoStray, CalmPassesOne
<1>4. ASSUME NEW a \in Call, Continue(th, <<a, Top(th)>>), a.op = "dispatchTask" PROVE Calm'
  <2>1. a \notin Strays
    BY <1>4 DEF Strays
  <2>2. QED
    BY <1>1, <1>4, <2>1, FillsNoStray, CalmPassesTwo
<1>5. QED
  BY <1>1, <1>2, <1>3, <1>4, UnfreezeTasksSeen

LEMMA AddTaskCalm ==
  ASSUME TypeInv, Calm, NEW th \in Thread, AddTask(th) PROVE Calm'
<1>1. stack[th] # <<>> /\ UNCHANGED <<connected, registered, transport, work, execTasks, taskInExec>>
  BY AddTaskSeen DEF At, svars, netvars
<1>2. ASSUME NEW g \in Seq(Fills), Continue(th, g) PROVE Calm'
  BY <1>1, <1>2, CalmWaits
<1>3. ASSUME NEW a \in Call, Continue(th, <<a>>), a.op = "dispatchTask" PROVE Calm'
  <2>1. a \notin Strays
    BY <1>3 DEF Strays
  <2>2. QED
    BY <1>1, <1>3, <2>1, CalmPassesOne
<1>4. QED
  BY <1>2, <1>3, AddTaskSeen

LEMMA DispatchTaskCalm ==
  ASSUME TypeInv, Calm, NEW th \in Thread, DispatchTask(th) PROVE Calm'
<1>1. stack[th] # <<>> /\ UNCHANGED <<connected, registered, transport, work, execTasks, taskInExec>>
  BY DispatchTaskSeen DEF At, svars, netvars
<1>2. CASE Continue(th, <<>>)
  BY <1>1, <1>2, CalmPassesOne
<1>3. ASSUME NEW a \in Call, Continue(th, <<a>>), a.op = "getNextExecutor" PROVE Calm'
  <2>1. a \notin Strays
    BY <1>3 DEF Strays
  <2>2. QED
    BY <1>1, <1>3, <2>1, CalmPassesOne
<1>4. QED
  BY <1>2, <1>3, DispatchTaskSeen

LEMMA GetNextExecutorCalm ==
  ASSUME TypeInv, Calm, NEW th \in Thread, GetNextExecutor(th) PROVE Calm'
<1>1. stack[th] # <<>> /\ UNCHANGED <<connected, registered, transport, work, execTasks, taskInExec>>
  BY GetNextExecutorSeen DEF At, svars, netvars
<1>2. ASSUME NEW a \in Call, Continue(th, <<a>>), a.op \in {"freezeTask", "removeTask"} PROVE Calm'
  <2>1. a \notin Strays
    BY <1>2 DEF Strays
  <2>2. QED
    BY <1>1, <1>2, <2>1, CalmPassesOne
<1>3. ASSUME NEW a \in Call, NEW b \in Call, Continue(th, <<a, b>>), a.op = "pushTask", b \in Fills
      PROVE  Calm'
  <2>1. a \notin Strays
    BY <1>3 DEF Strays
  <2>2. QED
    BY <1>1, <1>3, <2>1, FillsNoStray, CalmPassesTwo
<1>4. QED
  BY <1>2, <1>3, GetNextExecutorSeen

LEMMA PushTaskStepCalm ==
  ASSUME TypeInv, Calm, NEW th \in Thread, PushTaskStep(th) PROVE Calm'
BY PushTaskStepSeen, CalmPassesOne DEF At, svars, netvars

LEMMA RemoveQueuedCalm ==
  ASSUME TypeInv, Calm, NEW th \in Thread, RemoveQueued(th) PROVE Calm'
BY RemoveQueuedSeen, CalmPassesOne DEF At, svars, netvars

LEMMA RemoveFrozenCalm ==
  ASSUME TypeInv, Calm, NEW th \in Thread, RemoveFrozen(th) PROVE Calm'
BY RemoveFrozenSeen, CalmPassesOne DEF At, svars, netvars

LEMMA RemoveTaskCalm ==
  ASSUME TypeInv, Calm, NEW th \in Thread, RemoveTask(th) PROVE Calm'
<1> DEFINE d == Top(th).task
<1>1. /\ stack[th] # <<>>
      /\ UNCHANGED <<connected, registered, transport, work, execTasks, taskInExec>>
      /\ Continue(th, <<>>) \/ CleanUp(th, d)
  BY RemoveTaskSeen DEF At, svars, netvars
<1>2. CASE Continue(th, <<>>)
  BY <1>1, <1>2, CalmPassesOne
<1>3. CASE CleanUp(th, d)
  <2>1. PICK a \in Call, b \in Call, c \in Call, r \in Seq(Call) :
           /\ Continue(th, <<a, b, c>> \o r)
           /\ a.op = "removeQueued" /\ a.task = d
           /\ b.op = "removeRunning" /\ b.task = d
           /\ c.op = "removeFrozen" /\ c.task = d
           /\ \/ taskInExec[d] = NoExec /\ r = <<>>
              \/ \E x \in Call : r = <<x>> /\ x.op = "sendIfIdle" /\ x.exec = taskInExec[d]
    BY <1>3, Zenon DEF CleanUp
  <2> DEFINE g == <<a, b, c>>
             S == Strays
             h == g \o r
  <2>2. a \notin S /\ b \notin S /\ c \notin S /\ \A x \in Call : x.op = "sendIfIdle" => x \notin S
    BY <2>1 DEF Strays
  <2> HIDE DEF S
  <2>3. ~Has(r, S)
    BY <2>1, <2>2, HasNone, HasSingle
  <2>4. g \in Seq(Call) /\ ~Has(g, S)
    BY <2>2, HasTriple
  <2>5. Continue(th, h)
    BY <2>1
  <2> HIDE DEF g
  <2>6. h \in Seq(Call) /\ ~Has(h, S)
    BY <2>3, <2>4, HasConcat, ConcatProperties
  <2> HIDE DEF h
  <2>7. QED
    BY <1>1, <2>5, <2>6, CalmPasses DEF S
<1>4. QED
  BY <1>1, <1>2, <1>3

\* a task leaves an executor in both maps
LEMMA IndexLess ==
  ASSUME TypeInv, TaskIndexConsistent, NEW d \in Task, NEW e \in Exec, StateRemoveTaskFrom(e, d)
  PROVE  TaskIndexConsistent' /\ UNCHANGED registered
<1>1. CASE HoldsTask(e, d)
  <2>1. execTasks' = [execTasks EXCEPT ![e] = @ \ {d}] /\ taskInExec' = [taskInExec EXCEPT ![d] = NoExec]
        /\ UNCHANGED registered
    BY <1>1 DEF StateRemoveTaskFrom
  <2>2. execTasks \in [Exec -> SUBSET Task] /\ taskInExec \in [Task -> Exec \cup {NoExec}]
    BY DEF TypeInv, STypeOK
  <2>3. taskInExec[d] = e /\ NoExec \notin Exec
    BY <1>1, IdAssumption DEF HoldsTask, TaskIndexConsistent
  <2>4. ASSUME NEW t \in Task, NEW c \in Exec PROVE taskInExec'[t] = c <=> t \in execTasks'[c]
    <3>1. CASE t = d
      BY <2>1, <2>2, <2>3, <3>1 DEF TaskIndexConsistent
    <3>2. CASE t # d
      BY <2>1, <2>2, <3>2 DEF TaskIndexConsistent
    <3>3. QED
      BY <3>1, <3>2
  <2>5. QED
    BY <2>1, <2>4 DEF TaskIndexConsistent
<1>2. CASE ~HoldsTask(e, d)
  BY <1>2, SameIndex DEF StateRemoveTaskFrom, svars
<1>3. QED
  BY <1>1, <1>2

LEMMA RemoveRunningCalm ==
  ASSUME TypeInv, Calm, NEW th \in Thread, RemoveRunning(th) PROVE Calm'
<1> DEFINE d == Top(th).task
<1>1. /\ stack[th] # <<>> /\ d \in Task /\ UNCHANGED <<connected, transport, work>>
      /\ Continue(th, Again(Top(th).loop)) /\ Again(Top(th).loop) \in Seq(Fills)
      /\ StateRemoveTask(d)
  BY RemoveRunningSeen, AgainFills DEF At, netvars
<1>2. TaskIndexConsistent' /\ UNCHANGED registered
  <2>1. CASE taskInExec[d] # NoExec
    <3>1. taskInExec[d] \in Exec /\ StateRemoveTaskFrom(taskInExec[d], d)
      BY <1>1, <2>1 DEF StateRemoveTask, TypeInv, STypeOK
    <3>2. QED
      BY <1>1, <3>1, IndexLess DEF Calm
  <2>2. CASE taskInExec[d] = NoExec
    BY <1>1, <2>2, SameIndex DEF StateRemoveTask, svars, Calm
  <2>3. QED
    BY <2>1, <2>2
<1>3. Again(Top(th).loop) \in Seq(Call) /\ ~Has(Again(Top(th).loop), Strays)
  BY <1>1, HasNoFill, FillsNoStray
<1>4. \A e \in Exec : work'[e] # <<>> => e \in connected
  BY <1>1 DEF Calm
<1>5. QED
  BY <1>1, <1>2, <1>3, <1>4, CalmMoves

LEMMA FillLoopCalm ==
  ASSUME TypeInv, Calm, NEW th \in Thread, FillLoop(th) PROVE Calm'
<1>1. stack[th] # <<>> /\ UNCHANGED <<connected, registered, transport, work, execTasks, taskInExec>>
  BY FillLoopSeen DEF At, svars, netvars
<1>2. CASE Continue(th, <<>>)
  BY <1>1, <1>2, CalmPassesOne
<1>3. ASSUME NEW a \in Call, Continue(th, <<a>>), a.op = "send" PROVE Calm'
  <2>1. a \notin Strays
    BY <1>3 DEF Strays
  <2>2. QED
    BY <1>1, <1>3, <2>1, CalmPassesOne
<1>4. QED
  BY <1>2, <1>3, FillLoopSeen

LEMMA SendIfIdleCalm ==
  ASSUME TypeInv, Calm, NEW th \in Thread, SendIfIdle(th) PROVE Calm'
<1>1. stack[th] # <<>> /\ UNCHANGED <<connected, registered, transport, work, execTasks, taskInExec>>
  BY SendIfIdleSeen DEF At, svars, netvars
<1>2. CASE Continue(th, <<>>)
  BY <1>1, <1>2, CalmPassesOne
<1>3. ASSUME NEW a \in Call, Continue(th, <<a>>), a.op = "send" PROVE Calm'
  <2>1. a \notin Strays
    BY <1>3 DEF Strays
  <2>2. QED
    BY <1>1, <1>3, <2>1, CalmPassesOne
<1>4. QED
  BY <1>2, <1>3, SendIfIdleSeen

LEMMA SendCalm ==
  ASSUME TypeInv, Calm, NEW th \in Thread, Send(th) PROVE Calm'
<1> DEFINE f == Top(th)
<1>1. /\ stack[th] # <<>> /\ f.loop \in Type \cup {NoType}
      /\ UNCHANGED <<connected, registered, transport, work, execTasks, taskInExec>>
  BY SendSeen DEF At, svars, netvars
<1>2. CASE Continue(th, Again(f.loop))
  BY <1>1, <1>2, AgainFills, CalmWaits
<1>3. CASE Continue(th, <<>>)
  BY <1>1, <1>3, CalmPassesOne
<1>4. ASSUME f.exec \in connected, NEW y \in Type, Picked(th, f, y) PROVE Calm'
  <2>1. PICK a \in Call : /\ Continue(th, <<a>>)
                          /\ a.op = "handOver" /\ a.exec = f.exec /\ a.type = y /\ a.loop = f.loop
                          /\ a.task \in Task /\ taskInQueue[a.task] = y
                          /\ \A d \in Task : taskInQueue'[d] = IF d = a.task THEN NoType ELSE taskInQueue[d]
    BY <1>4, Zenon DEF Picked
  <2>2. a \notin Strays
    BY <1>4, <2>1 DEF Strays
  <2>3. QED
    BY <1>1, <2>1, <2>2, CalmPassesOne
<1>5. QED
  BY <1>2, <1>3, <1>4, SendSeen

LEMMA HandOverCalm ==
  ASSUME TypeInv, TokenInv, Calm, NEW th \in Thread, HandOver(th) PROVE Calm'
<1> DEFINE e == Top(th).exec
           d == Top(th).task
<1>1. /\ stack[th] # <<>> /\ e \in Exec /\ d \in Task /\ Top(th).op = "handOver" /\ Top(th) \in Call
      /\ UNCHANGED <<connected, transport, work>> /\ StateAddTask(e, d)
  BY HandOverSeen, TopIsCall DEF At, netvars
<1>2. PICK a \in Call : Continue(th, <<a>>) /\ a.op = "message" /\ a.exec = e
  BY HandOverSeen
<1>3. e \in connected /\ e \in registered
  BY <1>1, TopNoStray DEF Strays, Calm
<1>4. a \notin Strays
  BY <1>2, <1>3 DEF Strays
<1>5. \A c \in Exec : ~Held(d, c)
  <2>1. Top(th) \in Carriers(d)
    BY <1>1 DEF Carriers, TokenOps
  <2>2. Carried(d)
    BY <1>1, <2>1, TopCarries
  <2>3. QED
    BY <1>1, <2>2 DEF TokenInv, Token, Placed
<1>6. /\ execTasks \in [Exec -> SUBSET Task] /\ taskInExec \in [Task -> Exec \cup {NoExec}]
      /\ taskInExec' = [taskInExec EXCEPT ![d] = e] /\ execTasks' = [execTasks EXCEPT ![e] = @ \cup {d}]
      /\ UNCHANGED registered
  BY <1>1, <1>3 DEF StateAddTask, TypeInv, STypeOK
<1> HIDE DEF d, e
<1>7. TaskIndexConsistent'
  <2>1. ASSUME NEW t \in Task, NEW c \in Exec PROVE taskInExec'[t] = c <=> t \in execTasks'[c]
    <3>1. CASE t = d
      BY <1>1, <1>5, <1>6, <3>1 DEF Held
    <3>2. CASE t # d
      BY <1>1, <1>6, <3>2 DEF Calm, TaskIndexConsistent
    <3>3. QED
      BY <3>1, <3>2
  <2>2. QED
    BY <2>1 DEF TaskIndexConsistent
<1>8. <<a>> \in Seq(Call) /\ ~Has(<<a>>, Strays)
  BY <1>4, HasSingle
<1>9. \A c \in Exec : work'[c] # <<>> => c \in connected
  BY <1>1 DEF Calm
<1>10. QED
  BY <1>1, <1>2, <1>6, <1>7, <1>8, <1>9, CalmMoves

LEMMA MessageCalm ==
  ASSUME TypeInv, Once, Calm, NEW th \in Thread, Message(th) PROVE Calm'
<1> DEFINE e == Top(th).exec
           loop == Top(th).loop
<1>1. /\ stack[th] # <<>> /\ e \in Exec /\ loop \in Type \cup {NoType}
      /\ Top(th).op = "message" /\ Top(th) \in Call
      /\ UNCHANGED <<connected, registered, transport, execTasks, taskInExec>>
  BY MessageSeen, TopIsCall DEF At, svars
<1>2. CASE UNCHANGED work /\ Continue(th, Again(loop))
  BY <1>1, <1>2, AgainFills, CalmWaits
<1>3. ASSUME UNCHANGED work, NEW a \in Call, Continue(th, <<a>>), a.op = "removeRunning" PROVE Calm'
  <2>1. a \notin Strays
    BY <1>3 DEF Strays
  <2>2. QED
    BY <1>1, <1>3, <2>1, CalmPassesOne
<1>4. ASSUME NEW w, work' = [work EXCEPT ![e] = Append(@, w)], Continue(th, Again(loop)) PROVE Calm'
  <2>1. e \in connected
    BY <1>1, TopNoStray DEF Strays
  <2>2. \A c \in Exec : c # e => work'[c] = work[c]
    BY <1>1, <1>4 DEF TypeInv, NetTypeOK
  <2>3. \A c \in Exec : work'[c] # <<>> => c \in connected
    BY <2>1, <2>2 DEF Calm
  <2>4. Again(loop) \in Seq(Call) /\ ~Has(Again(loop), Strays)
    BY <1>1, AgainFills, HasNoFill, FillsNoStray
  <2>5. TaskIndexConsistent'
    BY <1>1, SameIndex DEF Calm
  <2>6. QED
    BY <1>1, <1>4, <2>3, <2>4, <2>5, CalmMoves
<1>5. QED
  BY <1>2, <1>3, <1>4, MessageSeen DEF Once

LEMMA TaskReceivedCalm ==
  ASSUME TypeInv, Calm, NEW th \in Thread, TaskReceived(th) PROVE Calm'
<1> DEFINE e == Top(th).exec
           d == Top(th).task
<1>1. /\ stack[th] # <<>> /\ e \in Exec /\ d \in Task /\ Top(th).op = "taskReceived" /\ Top(th) \in Call
      /\ UNCHANGED <<connected, transport, work>>
  BY TaskReceivedSeen, TopIsCall DEF At, netvars
<1>2. CASE UNCHANGED svars /\ Continue(th, <<>>)
  BY <1>1, <1>2, CalmPassesOne DEF svars
<1>3. ASSUME StateRemoveTaskFrom(e, d), NEW a \in Call, Continue(th, <<a>>), a.exec = e PROVE Calm'
  <2>1. a \notin Strays
    BY <1>1, <1>3, TopNoStray DEF Strays
  <2>2. <<a>> \in Seq(Call) /\ ~Has(<<a>>, Strays)
    BY <2>1, HasSingle
  <2>3. TaskIndexConsistent' /\ UNCHANGED registered
    BY <1>1, <1>3, IndexLess DEF Calm
  <2>4. \A c \in Exec : work'[c] # <<>> => c \in connected
    BY <1>1 DEF Calm
  <2>5. QED
    BY <1>1, <1>3, <2>2, <2>3, <2>4, CalmMoves
<1>4. QED
  BY <1>2, <1>3, TaskReceivedSeen

LEMMA TaskReturnedCalm ==
  ASSUME TypeInv, Tidy, Calm, NEW th \in Thread, TaskReturned(th) PROVE Calm'
<1> DEFINE f == Top(th)
           e == f.exec
<1>1. /\ stack[th] # <<>> /\ e \in Exec /\ f.op = "taskReturned" /\ f \in Call
      /\ UNCHANGED <<connected, registered, execTasks, taskInExec>>
  BY TaskReturnedSeen, TopIsCall DEF At, svars
<1>2. f.type \in TypesOf(e) /\ e \in connected
  BY <1>1, TopFits, TopNoStray DEF Fit, Strays
<1>3. ASSUME UNCHANGED netvars, NEW a \in Call, Continue(th, <<a>>), a.op = "storeTask" PROVE Calm'
  <2>1. a \notin Strays
    BY <1>3 DEF Strays
  <2>2. QED
    BY <1>1, <1>3, <2>1, CalmPassesOne DEF netvars
<1>4. ASSUME UNCHANGED netvars, NEW a \in Call, NEW r \in Seq(Call), Continue(th, <<a>> \o r),
             a.op = "send", r = <<>> \/ \E b \in Call : r = <<b>> /\ b.op = "removeTask"
      PROVE  Calm'
  <2> DEFINE S == Strays
             g == <<a>>
             h == g \o r
  <2>1. a \notin S /\ \A b \in Call : b.op = "removeTask" => b \notin S
    BY <1>4 DEF Strays
  <2> HIDE DEF S
  <2>2. ~Has(r, S) /\ g \in Seq(Call) /\ ~Has(g, S)
    BY <1>4, <2>1, HasNone, HasSingle
  <2>3. Continue(th, h)
    BY <1>4
  <2> HIDE DEF g
  <2>4. h \in Seq(Call) /\ ~Has(h, S)
    BY <1>4, <2>2, HasConcat, ConcatProperties
  <2> HIDE DEF h
  <2>5. QED
    BY <1>1, <1>4, <2>3, <2>4, CalmPasses DEF S, netvars
<1>5. QED
  BY <1>2, <1>3, <1>4, TaskReturnedSeen

LEMMA StoreTaskCalm ==
  ASSUME TypeInv, Calm, NEW th \in Thread, StoreTask(th) PROVE Calm'
<1>1. stack[th] # <<>> /\ UNCHANGED <<connected, registered, transport, work, execTasks, taskInExec>>
  BY StoreTaskSeen DEF At, svars, netvars
<1>2. ASSUME NEW b \in Call, b.op = "send", Continue(th, <<b>>) PROVE Calm'
  <2>1. b \notin Strays
    BY <1>2 DEF Strays
  <2>2. QED
    BY <1>1, <1>2, <2>1, CalmPassesOne
<1>3. ASSUME NEW a \in Call, NEW b \in Call, b.op = "send", Continue(th, <<a, b>>),
             a.op \in {"dispatchTask", "freezeTask"}
      PROVE  Calm'
  <2>1. a \notin Strays /\ b \notin Strays
    BY <1>3 DEF Strays
  <2>2. QED
    BY <1>1, <1>3, <2>1, CalmPassesTwo
<1>4. QED
  BY <1>2, <1>3, StoreTaskSeen

LEMMA ThreadStepCalm ==
  ASSUME TypeInv, TokenInv, Tidy, Calm, Once, NEW th \in Thread, ThreadStep(th) PROVE Calm'
BY AddExecutorCalm, AnnounceTypesCalm, RemoveExecutorCalm, DropStateCalm, RequeueCalm,
   DisconnectClientCalm, FreezeTaskCalm, UnfreezeTasksCalm, AddTaskCalm, DispatchTaskCalm,
   GetNextExecutorCalm, PushTaskStepCalm, RemoveTaskCalm, RemoveQueuedCalm,
   RemoveRunningCalm, RemoveFrozenCalm, FillLoopCalm, FillAllCalm, SendCalm,
   SendIfIdleCalm, HandOverCalm, MessageCalm, TaskReceivedCalm, TaskReturnedCalm,
   StoreTaskCalm DEF ThreadStep

LEMMA CalmStarts ==
  ASSUME TypeInv, Calm, NEW th \in Thread, NEW g \in Seq(Call), Starts(th, g),
         UNCHANGED <<connected, registered, execTasks, taskInExec>>,
         \A e \in Exec : transport'[e] # "closed",
         \A e \in Exec : work'[e] # <<>> => e \in connected,
         ~Has(g, Strays)
  PROVE  Calm'
<1>1. Strays' = Strays
  BY DEF Strays
<1>2. ~Somewhere(stack', Strays)
  BY Begun, StackIsStacks DEF Starts, Idle, Calm
<1>3. TaskIndexConsistent'
  BY SameIndex DEF Calm
<1>4. QED
  BY <1>1, <1>2, <1>3 DEF Calm

LEMMA ConnectCalm ==
  ASSUME TypeInv, Calm, NEW th \in Worker, NEW e \in Exec, Connect(th, e) PROVE Calm'
<1>1. /\ UNCHANGED <<connected, registered, execTasks, taskInExec, work>> /\ th \in Thread
      /\ transport' = [transport EXCEPT ![e] = "open"]
  BY ConnectSeen DEF svars, Thread
<1>2. PICK a \in Call : Starts(th, <<a>>) /\ a.op = "addExecutor"
  BY ConnectSeen
<1>3. a \notin Strays
  BY <1>2 DEF Strays
<1>4. <<a>> \in Seq(Call) /\ ~Has(<<a>>, Strays)
  BY <1>3, HasSingle
<1>5. /\ \A c \in Exec : transport'[c] # "closed"
      /\ \A c \in Exec : work'[c] # <<>> => c \in connected
  BY <1>1 DEF Calm, TypeInv, NetTypeOK
<1>6. QED
  BY <1>1, <1>2, <1>4, <1>5, CalmStarts

LEMMA HandleReplyCalm ==
  ASSUME TypeInv, Calm, Trusty, NEW th \in Worker, NEW e \in Exec, NEW kind \in Replies,
         HandleReply(th, e, kind)
  PROVE  Calm'
<1>1. /\ UNCHANGED <<connected, registered, execTasks, taskInExec, transport>> /\ th \in Thread
  BY HandleReplySeen DEF svars, Thread
<1>2. \A c \in Exec : c # e => work'[c] = work[c]
  BY HandleReplySeen DEF TypeInv, NetTypeOK
<1>3. work[e] # <<>>
  <2>1. \E i \in 1 .. Len(work[e]) : TRUE
    BY HandleReplySeen
  <2>2. QED
    BY <2>1
<1>4. e \in connected
  BY <1>3 DEF Calm
<1>5. /\ \A c \in Exec : transport'[c] # "closed"
      /\ \A c \in Exec : work'[c] # <<>> => c \in connected
  BY <1>1, <1>2, <1>4 DEF Calm
<1>6. ASSUME NEW a \in Call, Starts(th, <<a>>),
             \/ a.op = "taskReceived" /\ a.exec = e
             \/ a.op = "removeTask"
      PROVE  Calm'
  <2>1. a \notin Strays
    BY <1>4, <1>6 DEF Strays
  <2>2. <<a>> \in Seq(Call) /\ ~Has(<<a>>, Strays)
    BY <2>1, HasSingle
  <2>3. QED
    BY <1>1, <1>5, <1>6, <2>2, CalmStarts
<1>7. QED
  BY <1>6, HandleReplySeen DEF Answered, Trusty

LEMMA RequestCalm ==
  ASSUME TypeInv, Calm, NEW th \in Worker, NEW t \in Task, NEW kind \in Requests,
         Request(th, t, kind)
  PROVE  Calm'
<1>1. UNCHANGED <<connected, registered, execTasks, taskInExec, transport, work>> /\ th \in Thread
  BY RequestSeen DEF svars, netvars, Thread
<1>2. /\ \A c \in Exec : transport'[c] # "closed"
      /\ \A c \in Exec : work'[c] # <<>> => c \in connected
  BY <1>1 DEF Calm
<1>3. ASSUME NEW a \in Call, a.op = "addTask", Starts(th, <<a>>) PROVE Calm'
  <2>1. a \notin Strays
    BY <1>3 DEF Strays
  <2>2. <<a>> \in Seq(Call) /\ ~Has(<<a>>, Strays)
    BY <2>1, HasSingle
  <2>3. QED
    BY <1>1, <1>2, <1>3, <2>2, CalmStarts
<1>4. ASSUME NEW a \in Call, a.op = "addTask", NEW b \in Call, b.op = "removeTask", Starts(th, <<b, a>>)
      PROVE  Calm'
  <2>1. a \notin Strays /\ b \notin Strays
    BY <1>4 DEF Strays
  <2>2. <<b, a>> \in Seq(Call) /\ ~Has(<<b, a>>, Strays)
    BY <2>1, HasPair
  <2>3. QED
    BY <1>1, <1>2, <1>4, <2>2, CalmStarts
<1>5. QED
  BY <1>3, <1>4, RequestSeen

LEMMA PeriodicCalm == ASSUME TypeInv, Calm, Periodic PROVE Calm'
<1>1. /\ UNCHANGED <<connected, registered, execTasks, taskInExec, transport, work>>
      /\ Scheduler \in Thread
  BY PeriodicSeen DEF svars, netvars, Thread
<1>2. PICK g \in Seq(Fills) : Starts(Scheduler, g)
  BY PeriodicSeen
<1>3. g \in Seq(Call) /\ ~Has(g, Strays)
  BY HasNoFill, FillsNoStray
<1>4. /\ \A c \in Exec : transport'[c] # "closed"
      /\ \A c \in Exec : work'[c] # <<>> => c \in connected
  BY <1>1 DEF Calm
<1>5. QED
  BY <1>1, <1>2, <1>3, <1>4, CalmStarts

LEMMA CalmStays ==
  ASSUME Calm, UNCHANGED <<connected, registered, execTasks, taskInExec, transport, work, stack>>
  PROVE  Calm'
<1>1. Strays' = Strays
  BY DEF Strays
<1>2. TaskIndexConsistent'
  BY SameIndex DEF Calm
<1>3. QED
  BY <1>1, <1>2 DEF Calm

\* no connection is ever lost
Connected == Trusty /\ "drop" \notin Faults

LEMMA NextCalm ==
  ASSUME TypeInv, TokenInv, Tidy, Calm, Connected, [Next]_vars PROVE Calm'
<1>1. ASSUME NEW e \in Exec, Disconnect(e) PROVE Calm'
  BY <1>1, DisconnectSeen DEF Connected
<1>2. ASSUME NEW th \in Worker, NEW e \in Exec, HandleDrop(th, e) PROVE Calm'
  BY <1>2, HandleDropSeen DEF Tidy, Net, Calm
<1>3. ASSUME NEW d \in Task, Ripen(d) PROVE Calm'
  BY <1>3, RipenSeen, CalmStays DEF svars, netvars
<1>4. CASE UNCHANGED vars
  BY <1>4, CalmStays DEF vars, svars, mindvars, netvars
<1>5. CASE Next
  BY <1>1, <1>2, <1>3, <1>5, ConnectCalm, HandleReplyCalm, RequestCalm,
     PeriodicCalm, ThreadStepCalm DEF Next, Connected, Trusty
<1>6. QED
  BY <1>4, <1>5

LEMMA InitCalm == Init => Calm
<1> SUFFICES ASSUME Init PROVE Calm
  OBVIOUS
<1>1. ~Somewhere(stack, Strays)
  BY DEF Init, Somewhere, Has
<1>2. TaskIndexConsistent
  BY IdAssumption DEF Init, SInit, TaskIndexConsistent
<1>3. QED
  BY <1>1, <1>2 DEF Init, SInit, Calm

LEMMA SpecCalm == ASSUME Connected PROVE Spec => []Calm
<1>1. TypeInv /\ TokenInv /\ (Tidy /\ MatchInv) /\ Calm /\ [Next]_vars => Calm'
  BY NextCalm
<1>2. (Spec => []TokenInv) /\ (Spec => [](Tidy /\ MatchInv))
  BY SpecToken, SpecTidy DEF Connected, Trusty
<1>3. QED
  BY <1>1, <1>2, InitCalm, SpecTypeInv, PTL DEF Spec

(***************************************************************************)
(* ExecutorState's two maps, from executor to tasks and from task to       *)
(* executor, never disagree while no connection is lost, though addTask of *)
(* ExecutorState writes one before it looks at the other, and answers 0    *)
(* half way.                                                               *)
(***************************************************************************)
THEOREM TaskIndexAgrees == Connected => (Spec => []TaskIndexConsistent)
<1> SUFFICES ASSUME Connected PROVE Spec => []TaskIndexConsistent
  OBVIOUS
<1>1. Calm => TaskIndexConsistent
  BY DEF Calm
<1>2. QED
  BY <1>1, SpecCalm, PTL

=============================================================================
