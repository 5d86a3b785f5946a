----------------------------- MODULE JobsProofs -----------------------------
(***************************************************************************)
(* Theorems about the life of a job, for any pilots, any limit of the      *)
(* reschedulings and any number of commands.                               *)
(***************************************************************************)
EXTENDS Jobs, SequenceTheorems, TLAPS

(***************************************************************************)
(* The steps an actor still has to do: which there are, and in which order *)
(* they come.                                                              *)
(***************************************************************************)
Some(s, X) == \E i \in DOMAIN s : s[i] \in X

\* which step may come before which
Before(x, y) ==
    /\ y.op \notin {"compare", "check", "await", "write", "restart"}
    /\ x.op \notin {"give", "dispatch", "message", "obey"}
    /\ x.op \in {"reschedule", "restart"} => y.op = "message"
    /\ x.op = "reread" => y.op \in {"insert", "dispatch"}
    /\ x.op = "insert" => y.op = "dispatch"
    /\ x.op = "restore" => y.op = "obey"
    /\ x.op = "delete" => y.op # "set"
    /\ x.op \in {"set", "kill", "delete"} => y.op \notin {"reschedule", "restart"}
    /\ x.op = "set" /\ y.op = "set" => x.to = "Killed"
    /\ x.op = "report" /\ y.op = "report" => x.to = "Completing"

Ordered(s) == \A i, j \in DOMAIN s : i < j => Before(s[i], s[j])

LEMMA NoStep ==
  /\ <<>> \in Seq(Steps)
  /\ \A X : ~Some(<<>>, X)
  /\ Ordered(<<>>)
BY EmptySeq DEF Some, Ordered

LEMMA OneStep ==
  ASSUME NEW x \in Steps
  PROVE  /\ <<x>> \in Seq(Steps) /\ <<x>> # <<>> /\ Head(<<x>>) = x
         /\ \A X : Some(<<x>>, X) <=> x \in X
         /\ Ordered(<<x>>)
BY DEF Some, Ordered

LEMMA TwoSteps ==
  ASSUME NEW x \in Steps, NEW y \in Steps
  PROVE  /\ <<x, y>> \in Seq(Steps) /\ <<x, y>> # <<>> /\ Head(<<x, y>>) = x
         /\ \A X : Some(<<x, y>>, X) <=> x \in X \/ y \in X
         /\ Before(x, y) => Ordered(<<x, y>>)
BY DEF Some, Ordered

LEMMA ThreeSteps ==
  ASSUME NEW x \in Steps, NEW y \in Steps, NEW z \in Steps
  PROVE  /\ <<x, y, z>> \in Seq(Steps) /\ <<x, y, z>> # <<>> /\ Head(<<x, y, z>>) = x
         /\ \A X : Some(<<x, y, z>>, X) <=> x \in X \/ y \in X \/ z \in X
         /\ Before(x, y) /\ Before(x, z) /\ Before(y, z) => Ordered(<<x, y, z>>)
BY DEF Some, Ordered

LEMMA FourSteps ==
  ASSUME NEW w \in Steps, NEW x \in Steps, NEW y \in Steps, NEW z \in Steps
  PROVE  /\ <<w, x, y, z>> \in Seq(Steps) /\ <<w, x, y, z>> # <<>> /\ Head(<<w, x, y, z>>) = w
         /\ \A X : Some(<<w, x, y, z>>, X) <=> w \in X \/ x \in X \/ y \in X \/ z \in X
         /\ /\ Before(w, x) /\ Before(w, y) /\ Before(w, z)
            /\ Before(x, y) /\ Before(x, z) /\ Before(y, z)
            => Ordered(<<w, x, y, z>>)
BY DEF Some, Ordered

LEMMA RestOfSteps ==
  ASSUME NEW s \in Seq(Steps), s # <<>>
  PROVE  /\ Head(s) \in Steps
         /\ Tail(s) \in Seq(Steps)
         /\ \A X : Some(s, X) <=> Head(s) \in X \/ Some(Tail(s), X)
         /\ Ordered(s) => /\ Ordered(Tail(s))
                          /\ \A i \in DOMAIN Tail(s) : Before(Head(s), Tail(s)[i])
<1>1. /\ Len(s) \in Nat \ {0} /\ DOMAIN s = 1 .. Len(s)
      /\ Head(s) = s[1] /\ Tail(s) \in Seq(Steps) /\ Len(Tail(s)) = Len(s) - 1
      /\ \A i \in 1 .. Len(Tail(s)) : Tail(s)[i] = s[i + 1]
  BY HeadTailProperties, LenProperties, EmptySeq
<1>2. DOMAIN Tail(s) = 1 .. Len(s) - 1 /\ Head(s) \in Steps
  BY <1>1, LenProperties, HeadTailProperties
<1> DEFINE r == Tail(s)
           h == Head(s)
<1>3. \A i \in DOMAIN r : i + 1 \in DOMAIN s /\ s[i + 1] = r[i] /\ 1 < i + 1 /\ i \in Int
  BY <1>1, <1>2
<1>4. \A k \in DOMAIN s : k = 1 \/ \E i \in DOMAIN r : k = i + 1 /\ s[k] = r[i]
  <2> SUFFICES ASSUME NEW k \in DOMAIN s, k # 1
               PROVE  \E i \in DOMAIN r : k = i + 1 /\ s[k] = r[i]
    OBVIOUS
  <2>1. k - 1 \in DOMAIN r /\ k = (k - 1) + 1
    BY <1>1, <1>2
  <2>2. QED
    BY <2>1, <1>3
<1>5. 1 \in DOMAIN s /\ s[1] = h
  BY <1>1
<1> HIDE DEF r, h
<1>6. \A X : Some(s, X) <=> h \in X \/ Some(r, X)
  BY <1>3, <1>4, <1>5 DEF Some
<1>7. Ordered(s) => Ordered(r) /\ \A i \in DOMAIN r : Before(h, r[i])
  <2> SUFFICES ASSUME Ordered(s) PROVE Ordered(r) /\ \A i \in DOMAIN r : Before(h, r[i])
    OBVIOUS
  <2>1. ASSUME NEW i \in DOMAIN r, NEW j \in DOMAIN r, i < j PROVE Before(r[i], r[j])
    <3>1. i + 1 < j + 1
      BY <2>1, <1>3
    <3>2. QED
      BY <3>1, <2>1, <1>3 DEF Ordered
  <2>2. ASSUME NEW i \in DOMAIN r PROVE Before(h, r[i])
    BY <2>2, <1>3, <1>5 DEF Ordered
  <2>3. QED
    BY <2>1, <2>2 DEF Ordered
<1>8. QED
  BY <1>1, <1>2, <1>6, <1>7 DEF r, h

LEMMA MoreSteps ==
  ASSUME NEW g \in Seq(Steps), NEW r \in Seq(Steps)
  PROVE  /\ g \o r \in Seq(Steps)
         /\ \A X : Some(g \o r, X) <=> Some(g, X) \/ Some(r, X)
         /\ g # <<>> => g \o r # <<>> /\ Head(g \o r) = Head(g)
         /\ /\ Ordered(g) /\ Ordered(r)
            /\ \A i \in DOMAIN g, j \in DOMAIN r : Before(g[i], r[j])
            => Ordered(g \o r)
<1> DEFINE h == g \o r
           m == Len(g)
           n == Len(r)
<1>1. /\ m \in Nat /\ n \in Nat /\ DOMAIN g = 1 .. m /\ DOMAIN r = 1 .. n
      /\ h \in Seq(Steps) /\ DOMAIN h = 1 .. m + n
      /\ \A k \in 1 .. m + n : h[k] = IF k <= m THEN g[k] ELSE r[k - m]
  BY ConcatProperties, LenProperties
<1>2. g # <<>> => h # <<>> /\ Head(h) = Head(g)
  <2> SUFFICES ASSUME g # <<>> PROVE h # <<>> /\ Head(h) = Head(g)
    OBVIOUS
  <2>1. m # 0 /\ Len(h) = m + n
    BY EmptySeq, ConcatProperties
  <2>2. h # <<>>
    BY <2>1, <1>1, EmptySeq
  <2>3. h[1] = g[1]
    BY <2>1, <1>1
  <2>4. QED
    BY <2>2, <2>3
<1> HIDE DEF h, m, n
<1>3. \A i \in DOMAIN g : i \in DOMAIN h /\ h[i] = g[i] /\ i \in Int /\ i <= m
  BY <1>1
<1>4. \A i \in DOMAIN r : m + i \in DOMAIN h /\ h[m + i] = r[i] /\ i \in Int /\ m < m + i
  <2> SUFFICES ASSUME NEW i \in DOMAIN r
               PROVE  m + i \in DOMAIN h /\ h[m + i] = r[i] /\ i \in Int /\ m < m + i
    OBVIOUS
  <2>1. i \in Nat /\ i >= 1 /\ i <= n
    BY <1>1
  <2>2. m + i \in 1 .. m + n /\ ~(m + i <= m) /\ m + i - m = i
    BY <2>1, <1>1
  <2>3. QED
    BY <2>1, <2>2, <1>1
<1>5. \A k \in DOMAIN h : \/ k \in DOMAIN g /\ h[k] = g[k]
                          \/ \E i \in DOMAIN r : k = m + i /\ h[k] = r[i]
  <2> SUFFICES ASSUME NEW k \in DOMAIN h
               PROVE  \/ k \in DOMAIN g /\ h[k] = g[k]
                      \/ \E i \in DOMAIN r : k = m + i /\ h[k] = r[i]
    OBVIOUS
  <2>1. k \in Nat /\ k >= 1 /\ k <= m + n
    BY <1>1
  <2>2. CASE k <= m
    BY <2>1, <2>2, <1>1
  <2>3. CASE ~(k <= m)
    <3>1. k - m \in DOMAIN r /\ k = m + (k - m)
      BY <2>1, <2>3, <1>1
    <3>2. QED
      BY <3>1, <2>1, <2>3, <1>1
  <2>4. QED
    BY <2>2, <2>3
<1>6. \A X : Some(h, X) <=> Some(g, X) \/ Some(r, X)
  BY <1>3, <1>4, <1>5 DEF Some
<1>7. ASSUME Ordered(g), Ordered(r), \A i \in DOMAIN g, j \in DOMAIN r : Before(g[i], r[j])
      PROVE  Ordered(h)
  <2> SUFFICES ASSUME NEW k \in DOMAIN h, NEW l \in DOMAIN h, k < l PROVE Before(h[k], h[l])
    BY DEF Ordered
  <2>1. CASE k \in DOMAIN g /\ l \in DOMAIN g
    BY <2>1, <1>7, <1>3 DEF Ordered
  <2>2. CASE k \in DOMAIN g /\ \E j \in DOMAIN r : l = m + j /\ h[l] = r[j]
    BY <2>2, <1>7, <1>3
  <2>3. CASE \E i \in DOMAIN r : k = m + i /\ h[k] = r[i]
    <3>1. PICK i \in DOMAIN r : k = m + i /\ h[k] = r[i]
      BY <2>3
    <3>2. l \notin DOMAIN g
      BY <3>1, <1>1
    <3>3. PICK j \in DOMAIN r : l = m + j /\ h[l] = r[j]
      BY <3>2, <1>5
    <3>4. i < j
      BY <3>1, <3>3, <1>1
    <3>5. QED
      BY <3>1, <3>3, <3>4, <1>7 DEF Ordered
  <2>4. QED
    BY <2>1, <2>2, <2>3, <1>5
<1>8. QED
  BY <1>1, <1>2, <1>6, <1>7 DEF h

-----------------------------------------------------------------------------
(***************************************************************************)
(* Types.                                                                  *)
(***************************************************************************)
LEMMA KindsOfSteps ==
  /\ \A op \in {"reschedule", "zero", "dequeue", "command", "kill", "delete", "deleteRow",
                "deleteDescription", "message", "compare", "reread", "insert", "dispatch",
                "check", "give", "beat", "restore", "obey", "recheck", "reject", "await",
                "unstage"} : Op(op) \in Steps
  /\ \A s \in Statuses \cup {"none"} : Set(s) \in Steps /\ Report(s) \in Steps /\ Write(s) \in Steps
  /\ \A n \in 0 .. MaxRescheduling : Restart(n) \in Steps
<1>1. 0 \in 0 .. MaxRescheduling
  BY JobsAssumption
<1>2. QED
  BY <1>1 DEF Steps, Op, Set, Report, Write, Restart

LEMMA Names ==
  Statuses = {"Submitting", "Received", "Checking", "Staging", "Waiting", "Matched",
              "Rescheduled", "Running", "Stalled", "Completing", "Completed", "Done",
              "Failed", "Killed", "Deleted"}
BY DEF Statuses, Transitions

LEMMA NextStateIs == ASSUME NEW c, NEW s PROVE NextState(c, s) \in {c, s}
BY DEF NextState

TodoOK == todo \in [Actor -> Seq(Steps)]

LEMMA BeginOK ==
  ASSUME TodoOK, NEW a \in Actor, NEW s \in Seq(Steps), Begin(a, s)
  PROVE  TodoOK' /\ todo[a] = <<>> /\ todo'[a] = s /\ \A b \in Actor : b # a => todo'[b] = todo[b]
BY DEF TodoOK, Begin, Free

LEMMA GiveUpOK ==
  ASSUME TodoOK, NEW a \in Actor, GiveUp(a)
  PROVE  TodoOK' /\ todo'[a] = <<>> /\ \A b \in Actor : b # a => todo'[b] = todo[b]
BY NoStep DEF TodoOK, GiveUp

LEMMA AfreshOK ==
  ASSUME TodoOK, NEW a \in Actor, NEW s \in Seq(Steps), todo' = [todo EXCEPT ![a] = s]
  PROVE  TodoOK' /\ todo'[a] = s /\ \A b \in Actor : b # a => todo'[b] = todo[b]
BY DEF TodoOK

LEMMA DoneOK ==
  ASSUME TodoOK, NEW a \in Actor, todo[a] # <<>>, Done(a)
  PROVE  TodoOK' /\ todo'[a] = Tail(todo[a]) /\ \A b \in Actor : b # a => todo'[b] = todo[b]
<1>1. Tail(todo[a]) \in Seq(Steps)
  BY RestOfSteps DEF TodoOK
<1>2. QED
  BY <1>1 DEF TodoOK, Done

LEMMA InsteadOK ==
  ASSUME TodoOK, NEW a \in Actor, todo[a] # <<>>, NEW s \in Seq(Steps), Instead(a, s)
  PROVE  /\ TodoOK' /\ todo'[a] = s \o Tail(todo[a])
         /\ \A b \in Actor : b # a => todo'[b] = todo[b]
<1>1. s \o Tail(todo[a]) \in Seq(Steps)
  BY RestOfSteps, MoreSteps DEF TodoOK
<1>2. QED
  BY <1>1 DEF TodoOK, Instead

LEMMA HeadOK ==
  ASSUME TodoOK, NEW a \in Actor, NEW op, At(a, op)
  PROVE  /\ todo[a] # <<>> /\ todo[a] \in Seq(Steps)
         /\ Head(todo[a]) \in Steps /\ Head(todo[a]).op = op
         /\ Arg(a) \in Statuses \cup {"none"}
         /\ Head(todo[a]).n \in 0 .. MaxRescheduling
<1>1. todo[a] # <<>> /\ todo[a] \in Seq(Steps) /\ Head(todo[a]).op = op
  BY DEF At, TodoOK
<1>2. Head(todo[a]) \in Steps
  BY <1>1, RestOfSteps
<1>3. QED
  BY <1>1, <1>2 DEF Steps, Arg

\* the copies of the mind
MindOK ==
    /\ task \in [pc : {"none", "optimizing", "committing"},
                 want : Optimizing \cup {"none"}, same : BOOLEAN]
    /\ copy \in [want : Statuses \cup {"none"}, same : BOOLEAN]

WorkersOK ==
    /\ pilot \in [Pilot -> {"idle", "matching", "assigned", "running"}]
    /\ given \in 0 .. 2

OthersOK ==
    /\ staging \in BOOLEAN
    /\ request \in BOOLEAN
    /\ commands \in 0 .. MaxCommands

LEMMA TypeParts ==
  TypeOK <=> RowTypeOK /\ MindOK /\ WorkersOK /\ OthersOK /\ TodoOK /\ Q!PoolTypeOK
BY DEF TypeOK, MindOK, WorkersOK, OthersOK, TodoOK

LEMMA TypePartsNext ==
  TypeOK' <=> RowTypeOK' /\ MindOK' /\ WorkersOK' /\ OthersOK' /\ TodoOK' /\ Q!PoolTypeOK'
BY DEF TypeOK, MindOK, WorkersOK, OthersOK, TodoOK

LEMMA SameRow == ASSUME RowTypeOK, UNCHANGED row PROVE RowTypeOK'
BY DEF RowTypeOK, row

LEMMA SameMind == ASSUME MindOK, UNCHANGED mind PROVE MindOK'
BY DEF MindOK, mind

LEMMA SameWorkers == ASSUME WorkersOK, UNCHANGED worker PROVE WorkersOK'
BY DEF WorkersOK, worker

LEMMA SameOthers == ASSUME OthersOK, UNCHANGED others PROVE OthersOK'
BY DEF OthersOK, others

LEMMA SameQueue == ASSUME Q!PoolTypeOK, UNCHANGED queue PROVE Q!PoolTypeOK'
BY DEF Q!PoolTypeOK, queue

LEMMA SameTodo == ASSUME TodoOK, UNCHANGED todo PROVE TodoOK'
BY DEF TodoOK

LEMMA TouchOK == ASSUME MindOK, Touch PROVE MindOK'
BY DEF MindOK, Touch

LEMMA PutOK ==
  ASSUME RowTypeOK, MindOK, NEW a, NEW s \in Statuses \cup {"none"}, Put(a, s),
         UNCHANGED <<described, counter, killing>>
  PROVE  RowTypeOK' /\ MindOK'
BY TouchOK DEF RowTypeOK, Put

LEMMA StoreOK ==
  ASSUME TypeOK, NEW a \in Actor, todo[a] # <<>>, NEW s \in Statuses \cup {"none"}, Store(a, s),
         UNCHANGED <<described, counter, killing>>
  PROVE  RowTypeOK' /\ MindOK' /\ TodoOK'
<1>1. CASE a \in Overlapping
  <2>1. <<Write(s)>> \in Seq(Steps)
    BY KindsOfSteps, OneStep
  <2>2. QED
    BY <1>1, <2>1, InsteadOK, TypeParts DEF Store, RowTypeOK, MindOK, mind
<1>2. CASE a \notin Overlapping
  BY <1>2, DoneOK, PutOK, TypeParts DEF Store
<1>3. QED
  BY <1>1, <1>2

LEMMA NothingOK ==
  ASSUME TypeOK, NEW a \in Actor, todo[a] # <<>>, Nothing(a),
         UNCHANGED <<described, counter, killing>>
  PROVE  RowTypeOK' /\ MindOK' /\ TodoOK'
BY DoneOK, TypeParts DEF Nothing, RowTypeOK, MindOK, mind

LEMMA FreshOK == ASSUME MindOK PROVE Fresh \in [pc : {"none", "optimizing", "committing"},
                                                want : Optimizing \cup {"none"}, same : BOOLEAN]
BY DEF Fresh, NoTask, Optimizing

LEMMA InitTypes == Init => TypeOK
<1> SUFFICES ASSUME Init PROVE TypeOK
  OBVIOUS
<1>1. RowTypeOK /\ MindOK /\ WorkersOK /\ OthersOK
  <2>1. 0 \in -1 .. MaxRescheduling /\ 0 \in 0 .. MaxCommands
    BY JobsAssumption
  <2>2. RowTypeOK
    BY <2>1, Names, JobsAssumption DEF Init, RowTypeOK
  <2>3. MindOK
    BY DEF Init, MindOK, NoTask, NoCopy
  <2>4. WorkersOK /\ OthersOK
    <3>1. 0 \in 0 .. 2 /\ 0 \in 0 .. MaxCommands
      BY JobsAssumption
    <3>2. QED
      BY <3>1 DEF Init, WorkersOK, OthersOK
  <2>5. QED
    BY <2>2, <2>3, <2>4
<1>2. TodoOK
  <2>1. <<Op("message")>> \in Seq(Steps) /\ <<>> \in Seq(Steps)
    BY KindsOfSteps, OneStep, NoStep
  <2>2. QED
    BY <2>1 DEF Init, TodoOK
<1>3. Q!PoolTypeOK
  BY DEF Init, Q!PoolInit, Q!PoolTypeOK
<1>4. QED
  BY <1>1, <1>2, <1>3, TypeParts

LEMMA StatusStepTypes ==
  ASSUME TypeOK, NEW a \in Actor,
         StatusStep(a) \/ Reject(a) \/ RestartJob(a) \/ ResetCounter(a) \/ DeleteRow(a)
  PROVE  TypeOK'
<1>0. RowTypeOK /\ MindOK /\ WorkersOK /\ OthersOK /\ TodoOK /\ Q!PoolTypeOK
  BY TypeParts
<1>1. ASSUME SetStatus(a) PROVE TypeOK'
  <2>1. todo[a] # <<>> /\ Arg(a) \in Statuses \cup {"none"}
    BY <1>0, <1>1, HeadOK DEF SetStatus
  <2>2. RowTypeOK' /\ MindOK' /\ TodoOK'
    <3>1. NextState(status, Arg(a)) \in Statuses \cup {"none"}
      BY <1>0, <2>1, NextStateIs DEF RowTypeOK
    <3>2. CASE HasRow
      BY <1>1, <2>1, <3>1, <3>2, StoreOK DEF SetStatus
    <3>3. CASE ~HasRow /\ GiveUp(a) /\ UNCHANGED <<status, old, mind>>
      BY <1>0, <1>1, <3>3, GiveUpOK DEF SetStatus, RowTypeOK, MindOK, mind
    <3>4. CASE Nothing(a)
      BY <1>1, <2>1, <3>4, NothingOK DEF SetStatus
    <3>5. QED
      BY <1>1, <3>2, <3>3, <3>4 DEF SetStatus
  <2>3. QED
    BY <1>0, <1>1, <2>2, SameWorkers, SameOthers, SameQueue, TypePartsNext DEF SetStatus
<1>2. ASSUME ReportStatus(a) PROVE TypeOK'
  <2> DEFINE current == IF status = "Stalled" THEN "Running" ELSE status
             s == IF Arg(a) = "none" THEN current ELSE NextState(current, Arg(a))
  <2>1. todo[a] # <<>> /\ Arg(a) \in Statuses \cup {"none"}
    BY <1>0, <1>2, HeadOK DEF ReportStatus
  <2>2. current \in Statuses \cup {"none"}
    BY <1>0, Names DEF RowTypeOK
  <2>3. s \in Statuses \cup {"none"}
    BY <2>1, <2>2, NextStateIs
  <2>4. Store(a, s) \/ Nothing(a)
    BY <1>2 DEF ReportStatus
  <2>5. RowTypeOK' /\ MindOK' /\ TodoOK'
    <3> HIDE DEF s
    <3>1. QED
      BY <1>2, <2>1, <2>3, <2>4, StoreOK, NothingOK DEF ReportStatus
  <2>6. QED
    BY <1>0, <1>2, <2>5, SameWorkers, SameOthers, SameQueue, TypePartsNext DEF ReportStatus
<1>3. ASSUME WriteStatus(a) PROVE TypeOK'
  <2>1. todo[a] # <<>> /\ Arg(a) \in Statuses \cup {"none"}
    BY <1>0, <1>3, HeadOK DEF WriteStatus
  <2>2. RowTypeOK' /\ MindOK' /\ TodoOK'
    BY <1>0, <1>3, <2>1, NothingOK, PutOK, DoneOK DEF WriteStatus
  <2>3. QED
    BY <1>0, <1>3, <2>2, SameWorkers, SameOthers, SameQueue, TypePartsNext DEF WriteStatus
<1>4. ASSUME Reject(a) PROVE TypeOK'
  <2>1. todo[a] # <<>> /\ "Rescheduled" \in Statuses
    BY <1>0, <1>4, HeadOK, Names DEF Reject
  <2>2. RowTypeOK' /\ MindOK' /\ TodoOK'
    BY <1>4, <2>1, NothingOK, StoreOK DEF Reject
  <2>3. QED
    BY <1>0, <1>4, <2>2, SameWorkers, SameOthers, SameQueue, TypePartsNext DEF Reject
<1>5. ASSUME RestartJob(a) PROVE TypeOK'
  <2>1. todo[a] # <<>> /\ Head(todo[a]).n \in 0 .. MaxRescheduling
    BY <1>0, <1>5, HeadOK DEF RestartJob
  <2>2. TodoOK'
    BY <1>0, <1>5, <2>1, DoneOK, GiveUpOK DEF RestartJob
  <2>3. RowTypeOK'
    <3>1. Head(todo[a]).n \in -1 .. MaxRescheduling
      BY <2>1, JobsAssumption
    <3>2. QED
      BY <1>0, <1>5, <3>1, Names DEF RestartJob, RowTypeOK
  <2>4. MindOK' /\ WorkersOK'
    BY <1>0, <1>5, TouchOK, SameMind DEF RestartJob, WorkersOK
  <2>5. QED
    BY <1>0, <1>5, <2>2, <2>3, <2>4, SameOthers, SameQueue, TypePartsNext DEF RestartJob
<1>6. ASSUME ResetCounter(a) PROVE TypeOK'
  <2>1. TodoOK' /\ RowTypeOK'
    <3>1. -1 \in -1 .. MaxRescheduling
      BY JobsAssumption
    <3>2. QED
      BY <1>0, <1>6, <3>1, HeadOK, DoneOK DEF ResetCounter, RowTypeOK
  <2>2. QED
    BY <1>0, <1>6, <2>1, SameMind, SameWorkers, SameOthers, SameQueue, TypePartsNext DEF ResetCounter
<1>7. ASSUME DeleteRow(a) PROVE TypeOK'
  <2>1. TodoOK' /\ RowTypeOK' /\ MindOK'
    BY <1>0, <1>7, HeadOK, DoneOK, TouchOK DEF DeleteRow, RowTypeOK
  <2>2. QED
    BY <1>0, <1>7, <2>1, SameWorkers, SameOthers, SameQueue, TypePartsNext DEF DeleteRow
<1>8. QED
  BY <1>1, <1>2, <1>3, <1>4, <1>5, <1>6, <1>7 DEF StatusStep

LEMMA KillStepsOK == ASSUME NEW right PROVE KillSteps(right) \in Seq(Steps)
<1>1. /\ Set("Killed") \in Steps /\ Set("Deleted") \in Steps
      /\ Op("command") \in Steps /\ Op("dequeue") \in Steps /\ Op("unstage") \in Steps
  BY KindsOfSteps, Names
<1>2. /\ <<Op("command"), Set("Killed"), Op("dequeue")>> \in Seq(Steps)
      /\ <<Set("Killed"), Op("dequeue"), Op("unstage")>> \in Seq(Steps)
      /\ <<Set("Deleted"), Op("dequeue")>> \in Seq(Steps)
      /\ <<Set("Killed"), Op("dequeue")>> \in Seq(Steps)
      /\ <<>> \in Seq(Steps)
  BY <1>1, NoStep, TwoSteps, ThreeSteps
<1>3. QED
  BY <1>2 DEF KillSteps

LEMMA CallStepTypes ==
  ASSUME TypeOK, NEW a \in Actor,
         \/ Reschedule(a) \/ Dequeue(a) \/ SetJobCommand(a) \/ KillOrDelete(a) \/ KillStaging(a)
         \/ DeleteDescription(a) \/ OptimizeJobs(a) \/ Recheck(a) \/ AwaitStaging(a)
  PROVE  TypeOK'
<1>0. RowTypeOK /\ MindOK /\ WorkersOK /\ OthersOK /\ TodoOK /\ Q!PoolTypeOK
  BY TypeParts
<1>1. ASSUME Reschedule(a) PROVE TypeOK'
  <2>1. todo[a] # <<>>
    BY <1>0, <1>1, HeadOK DEF Reschedule
  <2>2. <<Set("Failed")>> \in Seq(Steps)
    BY KindsOfSteps, Names, OneStep
  <2>3. TodoOK'
    <3>1. CASE GiveUp(a)
      BY <1>0, <3>1, GiveUpOK
    <3>2. CASE todo' = [todo EXCEPT ![a] = <<Set("Failed")>>]
      BY <1>0, <2>2, <3>2, AfreshOK
    <3>3. CASE Instead(a, <<Restart(counter + 1)>>) /\ ~(counter + 1 > MaxRescheduling)
      <4>1. counter + 1 \in 0 .. MaxRescheduling
        BY <1>0, <3>3, JobsAssumption DEF RowTypeOK
      <4>2. <<Restart(counter + 1)>> \in Seq(Steps)
        BY <4>1, KindsOfSteps, OneStep
      <4>3. QED
        BY <1>0, <2>1, <3>3, <4>2, InsteadOK
    <3>4. QED
      BY <1>1, <3>1, <3>2, <3>3 DEF Reschedule
  <2>4. QED
    BY <1>0, <1>1, <2>3, SameRow, SameMind, SameWorkers, SameOthers, SameQueue, TypePartsNext
    DEF Reschedule
<1>2. ASSUME Dequeue(a) PROVE TypeOK'
  <2>1. TodoOK'
    BY <1>0, <1>2, HeadOK, DoneOK DEF Dequeue
  <2>2. Q!PoolTypeOK'
    BY <1>0, <1>2, SameQueue DEF Dequeue, Q!Remove, Q!PoolTypeOK
  <2>3. QED
    BY <1>0, <1>2, <2>1, <2>2, SameRow, SameMind, SameWorkers, SameOthers, TypePartsNext DEF Dequeue
<1>3. ASSUME SetJobCommand(a) PROVE TypeOK'
  <2>1. TodoOK' /\ RowTypeOK'
    BY <1>0, <1>3, HeadOK, DoneOK, GiveUpOK DEF SetJobCommand, RowTypeOK
  <2>2. QED
    BY <1>0, <1>3, <2>1, SameMind, SameWorkers, SameOthers, SameQueue, TypePartsNext DEF SetJobCommand
<1>4. ASSUME KillOrDelete(a) PROVE TypeOK'
  <2>1. PICK right \in {"kill", "delete"} : At(a, right) /\ Instead(a, KillSteps(right))
    BY <1>4 DEF KillOrDelete
  <2>2. TodoOK'
    BY <1>0, <2>1, HeadOK, InsteadOK, KillStepsOK
  <2>3. QED
    BY <1>0, <1>4, <2>2, SameRow, SameMind, SameWorkers, SameOthers, SameQueue, TypePartsNext
    DEF KillOrDelete
<1>5. ASSUME KillStaging(a) PROVE TypeOK'
  <2>1. TodoOK' /\ OthersOK'
    BY <1>0, <1>5, HeadOK, DoneOK DEF KillStaging, OthersOK
  <2>2. QED
    BY <1>0, <1>5, <2>1, SameRow, SameMind, SameWorkers, SameQueue, TypePartsNext DEF KillStaging
<1>6. ASSUME DeleteDescription(a) PROVE TypeOK'
  <2>1. TodoOK' /\ RowTypeOK'
    BY <1>0, <1>6, HeadOK, DoneOK DEF DeleteDescription, RowTypeOK, HasRow
  <2>2. QED
    BY <1>0, <1>6, <2>1, SameMind, SameWorkers, SameOthers, SameQueue, TypePartsNext
    DEF DeleteDescription
<1>7. ASSUME OptimizeJobs(a) PROVE TypeOK'
  <2>1. TodoOK'
    BY <1>0, <1>7, HeadOK, DoneOK DEF OptimizeJobs
  <2>2. MindOK'
    BY <1>0, <1>7, FreshOK DEF OptimizeJobs, MindOK
  <2>3. QED
    BY <1>0, <1>7, <2>1, <2>2, SameRow, SameWorkers, SameOthers, SameQueue, TypePartsNext
    DEF OptimizeJobs
<1>8. ASSUME Recheck(a) \/ AwaitStaging(a) PROVE TypeOK'
  <2>1. TodoOK'
    BY <1>0, <1>8, HeadOK, DoneOK, GiveUpOK DEF Recheck, AwaitStaging
  <2>2. QED
    BY <1>0, <1>8, <2>1, SameRow, SameMind, SameWorkers, SameOthers, SameQueue, TypePartsNext
    DEF Recheck, AwaitStaging
<1>9. QED
  BY <1>1, <1>2, <1>3, <1>4, <1>5, <1>6, <1>7, <1>8

LEMMA EachStep ==
  ASSUME NEW q \in Seq(Steps), NEW X, ~Some(q, Steps \ X)
  PROVE  \A i \in DOMAIN q : q[i] \in X
<1>1. \A i \in DOMAIN q : q[i] \in Steps
  BY ElementOfSeq, LenProperties
<1>2. QED
  BY <1>1 DEF Some

LEMMA CommitSteps ==
  ASSUME NEW s \in Statuses
  PROVE  /\ Commit(s) \in Seq(Steps)
         /\ \A X : Some(Commit(s), X) <=> \/ Op("compare") \in X \/ Set(s) \in X \/ Op("reread") \in X
                                          \/ s = "Waiting" /\ Op("insert") \in X
                                          \/ Op("dispatch") \in X
         /\ Ordered(Commit(s))
         /\ Commit(s) # <<>> /\ Head(Commit(s)) = Op("compare")
<1> DEFINE f == <<Op("compare"), Set(s), Op("reread")>>
           g == IF s = "Waiting" THEN <<Op("insert")>> ELSE <<>>
           h == <<Op("dispatch")>>
<1>0. /\ Op("compare") \in Steps /\ Set(s) \in Steps /\ Op("reread") \in Steps
      /\ Op("insert") \in Steps /\ Op("dispatch") \in Steps
  BY KindsOfSteps
<1>1. /\ f \in Seq(Steps) /\ f # <<>> /\ Head(f) = Op("compare")
      /\ \A X : Some(f, X) <=> Op("compare") \in X \/ Set(s) \in X \/ Op("reread") \in X
      /\ Ordered(f)
  <2>1. /\ Before(Op("compare"), Set(s)) /\ Before(Op("compare"), Op("reread"))
        /\ Before(Set(s), Op("reread"))
    BY DEF Before, Op, Set
  <2>2. QED
    BY <1>0, <2>1, ThreeSteps
<1>2. /\ g \in Seq(Steps)
      /\ \A X : Some(g, X) <=> s = "Waiting" /\ Op("insert") \in X
      /\ Ordered(g)
  BY <1>0, OneStep, NoStep
<1>3. /\ h \in Seq(Steps)
      /\ \A X : Some(h, X) <=> Op("dispatch") \in X
      /\ Ordered(h)
  BY <1>0, OneStep
<1>4. Commit(s) = f \o g \o h
  BY DEF Commit
<1> HIDE DEF f, g, h
<1>5. /\ \A i \in DOMAIN f : f[i] \in {Op("compare"), Set(s), Op("reread")}
      /\ \A i \in DOMAIN g : g[i] \in {Op("insert")}
      /\ \A i \in DOMAIN h : h[i] \in {Op("dispatch")}
  <2>1. ~Some(f, Steps \ {Op("compare"), Set(s), Op("reread")})
    BY <1>1
  <2>2. ~Some(g, Steps \ {Op("insert")})
    BY <1>2
  <2>3. ~Some(h, Steps \ {Op("dispatch")})
    BY <1>3
  <2>4. QED
    BY <1>1, <1>2, <1>3, <2>1, <2>2, <2>3, EachStep
<1>6. /\ f \o g \in Seq(Steps) /\ f \o g # <<>> /\ Head(f \o g) = Op("compare")
      /\ \A X : Some(f \o g, X) <=> Some(f, X) \/ Some(g, X)
      /\ Ordered(f \o g)
  <2>1. \A i \in DOMAIN f, j \in DOMAIN g : Before(f[i], g[j])
    BY <1>5 DEF Before, Op, Set
  <2>2. QED
    BY <1>1, <1>2, <2>1, MoreSteps
<1> DEFINE fg == f \o g
<1>7. \A i \in DOMAIN fg : fg[i] \in {Op("compare"), Set(s), Op("reread"), Op("insert")}
  <2>1. ~Some(fg, Steps \ {Op("compare"), Set(s), Op("reread"), Op("insert")})
    BY <1>1, <1>2, <1>6
  <2>2. fg \in Seq(Steps)
    BY <1>6
  <2> HIDE DEF fg
  <2>3. QED
    BY <2>1, <2>2, EachStep
<1>8. /\ fg \o h \in Seq(Steps) /\ fg \o h # <<>> /\ Head(fg \o h) = Op("compare")
      /\ \A X : Some(fg \o h, X) <=> Some(fg, X) \/ Some(h, X)
      /\ Ordered(fg \o h)
  <2>1. \A i \in DOMAIN fg, j \in DOMAIN h : Before(fg[i], h[j])
    <3> HIDE DEF fg
    <3>1. QED
      BY <1>5, <1>7 DEF Before, Op, Set
  <2>2. fg \in Seq(Steps) /\ fg # <<>> /\ Head(fg) = Op("compare") /\ Ordered(fg)
    BY <1>6
  <2> HIDE DEF fg
  <2>3. QED
    BY <1>3, <2>1, <2>2, MoreSteps
<1>9. QED
  BY <1>1, <1>2, <1>3, <1>4, <1>6, <1>8

LEMMA ForgetOK == ASSUME ForgetTask PROVE MindOK'
BY DEF ForgetTask, MindOK, NoTask, NoCopy

LEMMA MindStepTypes ==
  ASSUME TypeOK,
         MindStep \/ LoadJobs \/ TaskError \/ \E s \in Statuses : TaskDone(s)
  PROVE  TypeOK'
<1>0. /\ RowTypeOK /\ MindOK /\ WorkersOK /\ OthersOK /\ TodoOK /\ Q!PoolTypeOK
      /\ "Mind" \in Actor
  BY TypeParts DEF Actor, Service
<1>1. ASSUME Compare PROVE TypeOK'
  <2>1. TodoOK' /\ MindOK'
    BY <1>0, <1>1, HeadOK, DoneOK, GiveUpOK, SameMind, ForgetOK DEF Compare
  <2>2. QED
    BY <1>0, <1>1, <2>1, SameRow, SameWorkers, SameOthers, SameQueue, TypePartsNext DEF Compare
<1>2. ASSUME Reread PROVE TypeOK'
  <2>1. TodoOK' /\ MindOK'
    <3>1. CASE HasRow
      BY <1>0, <1>2, <3>1, HeadOK, DoneOK DEF Reread, MindOK
    <3>2. CASE ~HasRow
      BY <1>0, <1>2, <3>2, GiveUpOK, ForgetOK DEF Reread
    <3>3. QED
      BY <3>1, <3>2
  <2>2. QED
    BY <1>0, <1>2, <2>1, SameRow, SameWorkers, SameOthers, SameQueue, TypePartsNext DEF Reread
<1>3. ASSUME InsertIntoTQ PROVE TypeOK'
  <2>1. TodoOK'
    <3>1. <<Op("dequeue"), Op("reschedule")>> \in Seq(Steps)
      BY KindsOfSteps, TwoSteps
    <3>2. QED
      BY <1>0, <1>3, <3>1, HeadOK, DoneOK, AfreshOK, SameTodo DEF InsertIntoTQ
  <2>2. MindOK'
    BY <1>0, <1>3, SameMind, ForgetOK DEF InsertIntoTQ
  <2>3. Q!PoolTypeOK'
    BY <1>0, <1>3 DEF InsertIntoTQ, Q!Ask, Q!Enter, Q!Confirm, Q!Refuse, Q!PoolTypeOK
  <2>4. QED
    BY <1>0, <1>3, <2>1, <2>2, <2>3, SameRow, SameWorkers, SameOthers, TypePartsNext
    DEF InsertIntoTQ
<1>4. ASSUME Dispatch PROVE TypeOK'
  <2>1. TodoOK' /\ MindOK'
    BY <1>0, <1>4, HeadOK, DoneOK DEF Dispatch, MindOK, NoTask, NoCopy
  <2>2. QED
    BY <1>0, <1>4, <2>1, SameRow, SameWorkers, SameOthers, SameQueue, TypePartsNext DEF Dispatch
<1>5. ASSUME LoadJobs PROVE TypeOK'
  <2>1. MindOK'
    BY <1>0, <1>5, FreshOK DEF LoadJobs, MindOK
  <2>2. QED
    BY <1>0, <1>5, <2>1, SameTodo, SameRow, SameWorkers, SameOthers, SameQueue, TypePartsNext
    DEF LoadJobs
<1>6. ASSUME TaskError PROVE TypeOK'
  <2>1. <<Set("Failed")>> \in Seq(Steps)
    BY KindsOfSteps, Names, OneStep
  <2>2. TodoOK' /\ MindOK'
    BY <1>0, <1>6, <2>1, BeginOK DEF TaskError, MindOK, NoTask
  <2>3. QED
    BY <1>0, <1>6, <2>2, SameRow, SameWorkers, SameOthers, SameQueue, TypePartsNext DEF TaskError
<1>7. ASSUME NEW s \in Statuses, TaskDone(s) PROVE TypeOK'
  <2>1. TodoOK'
    BY <1>0, <1>7, CommitSteps, BeginOK DEF TaskDone
  <2>2. MindOK'
    BY <1>0, <1>7 DEF TaskDone, MindOK, NoTask
  <2>3. OthersOK'
    BY <1>0, <1>7 DEF TaskDone, OthersOK
  <2>4. QED
    BY <1>0, <1>7, <2>1, <2>2, <2>3, SameRow, SameWorkers, SameQueue, TypePartsNext DEF TaskDone
<1>8. QED
  BY <1>1, <1>2, <1>3, <1>4, <1>5, <1>6, <1>7 DEF MindStep

LEMMA GoToOK ==
  ASSUME WorkersOK, NEW p \in Pilot, NEW pc \in {"idle", "matching", "assigned", "running"},
         GoTo(p, pc), given' \in 0 .. 2
  PROVE  WorkersOK'
BY DEF WorkersOK, GoTo

\* what pilots begin
PilotScripts ==
    {<<Op("check"), Set("Matched"), Op("give")>>, <<Report("Running")>>, <<Report("none")>>,
     <<Op("beat"), Op("restore"), Op("obey")>>,
     <<Report("Rescheduled"), Op("dequeue"), Op("reschedule"), Op("message")>>}
    \cup {<<Report("Completing"), Report(s)>> : s \in {"Done", "Completed", "Failed"}}

LEMMA PilotScriptsOK == PilotScripts \subseteq Seq(Steps)
<1>1. /\ Set("Matched") \in Steps /\ Report("Running") \in Steps /\ Report("none") \in Steps
      /\ Report("Rescheduled") \in Steps /\ Report("Completing") \in Steps
      /\ \A s \in {"Done", "Completed", "Failed"} : Report(s) \in Steps
  BY KindsOfSteps, Names
<1>2. /\ Op("check") \in Steps /\ Op("give") \in Steps /\ Op("beat") \in Steps
      /\ Op("restore") \in Steps /\ Op("obey") \in Steps /\ Op("dequeue") \in Steps
      /\ Op("reschedule") \in Steps /\ Op("message") \in Steps
  BY KindsOfSteps
<1>3. /\ <<Op("check"), Set("Matched"), Op("give")>> \in Seq(Steps)
      /\ <<Report("Running")>> \in Seq(Steps) /\ <<Report("none")>> \in Seq(Steps)
      /\ <<Op("beat"), Op("restore"), Op("obey")>> \in Seq(Steps)
  BY <1>1, <1>2, OneStep, ThreeSteps
<1>4. /\ <<Report("Rescheduled"), Op("dequeue"), Op("reschedule"), Op("message")>> \in Seq(Steps)
      /\ \A s \in {"Done", "Completed", "Failed"} : <<Report("Completing"), Report(s)>> \in Seq(Steps)
  BY <1>1, <1>2, FourSteps, TwoSteps
<1>5. QED
  BY <1>3, <1>4 DEF PilotScripts

LEMMA PilotBeginsOK ==
  ASSUME TodoOK, NEW p \in Pilot, NEW s \in PilotScripts, Begin(p, s)
  PROVE  TodoOK'
BY BeginOK, PilotScriptsOK DEF Actor

LEMMA PilotStepTypes ==
  ASSUME TypeOK, NEW p \in Pilot,
         \/ TakeFromTQ(p) \/ PilotStep(p)
         \/ StartWrapper(p) \/ ReportProgress(p) \/ GiveBack(p) \/ LosePilot(p)
         \/ \E s \in {"Done", "Completed", "Failed"} : Finish(p, s)
  PROVE  TypeOK'
<1>0. /\ RowTypeOK /\ MindOK /\ WorkersOK /\ OthersOK /\ TodoOK /\ Q!PoolTypeOK
      /\ p \in Actor /\ given \in 0 .. 2
  BY TypeParts DEF Actor, WorkersOK
<1>1. ASSUME TakeFromTQ(p) PROVE TypeOK'
  <2>1. TodoOK' /\ WorkersOK'
    BY <1>0, <1>1, PilotBeginsOK, GoToOK DEF TakeFromTQ, PilotScripts
  <2>2. Q!PoolTypeOK'
    BY <1>0, <1>1 DEF TakeFromTQ, Q!Take, Q!PoolTypeOK
  <2>3. QED
    BY <1>0, <1>1, <2>1, <2>2, SameRow, SameMind, SameOthers, TypePartsNext DEF TakeFromTQ
<1>2. ASSUME CheckWaiting(p) PROVE TypeOK'
  <2>1. TodoOK'
    <3>1. <<Op("dequeue")>> \in Seq(Steps) /\ <<>> \in Seq(Steps)
      BY KindsOfSteps, OneStep, NoStep
    <3>2. QED
      BY <1>0, <1>2, <3>1, HeadOK, DoneOK, AfreshOK DEF CheckWaiting
  <2>2. WorkersOK'
    BY <1>0, <1>2, GoToOK DEF CheckWaiting, WorkersOK
  <2>3. Q!PoolTypeOK'
    BY <1>0, <1>2, SameQueue DEF CheckWaiting, Q!HandOver, Q!PoolTypeOK
  <2>4. QED
    BY <1>0, <1>2, <2>1, <2>2, <2>3, SameRow, SameMind, SameOthers, TypePartsNext DEF CheckWaiting
<1>3. ASSUME GiveJob(p) PROVE TypeOK'
  <2>1. TodoOK'
    BY <1>0, <1>3, HeadOK, DoneOK DEF GiveJob
  <2>2. WorkersOK'
    BY <1>0, <1>3, GoToOK DEF GiveJob
  <2>3. Q!PoolTypeOK'
    BY <1>0, <1>3 DEF GiveJob, Q!HandOver, Q!PoolTypeOK
  <2>4. QED
    BY <1>0, <1>3, <2>1, <2>2, <2>3, SameRow, SameMind, SameOthers, TypePartsNext DEF GiveJob
<1>4. ASSUME Beat(p) PROVE TypeOK'
  <2>1. todo[p] # <<>> /\ "Running" \in Statuses
    BY <1>0, <1>4, HeadOK, Names DEF Beat
  <2>2. RowTypeOK' /\ MindOK' /\ TodoOK'
    BY <1>0, <1>4, <2>1, NothingOK, PutOK, DoneOK DEF Beat
  <2>3. QED
    BY <1>0, <1>4, <2>2, SameWorkers, SameOthers, SameQueue, TypePartsNext DEF Beat
<1>5. ASSUME Restore(p) PROVE TypeOK'
  <2>1. TodoOK'
    <3>1. <<Set("Running")>> \in Seq(Steps)
      BY KindsOfSteps, Names, OneStep
    <3>2. QED
      BY <1>0, <1>5, <3>1, HeadOK, DoneOK, GiveUpOK, InsteadOK DEF Restore
  <2>2. QED
    BY <1>0, <1>5, <2>1, SameRow, SameMind, SameWorkers, SameOthers, SameQueue, TypePartsNext
    DEF Restore
<1>6. ASSUME Obey(p) PROVE TypeOK'
  <2>1. TodoOK'
    <3>1. <<Report("Failed")>> \in Seq(Steps)
      BY KindsOfSteps, Names, OneStep
    <3>2. QED
      BY <1>0, <1>6, <3>1, HeadOK, DoneOK, InsteadOK DEF Obey
  <2>2. WorkersOK' /\ RowTypeOK'
    BY <1>0, <1>6, GoToOK DEF Obey, WorkersOK, RowTypeOK
  <2>3. QED
    BY <1>0, <1>6, <2>1, <2>2, SameMind, SameOthers, SameQueue, TypePartsNext DEF Obey
<1>7. ASSUME StartWrapper(p) PROVE TypeOK'
  <2>1. TodoOK' /\ WorkersOK'
    BY <1>0, <1>7, PilotBeginsOK, GoToOK DEF StartWrapper, PilotScripts
  <2>2. QED
    BY <1>0, <1>7, <2>1, SameRow, SameMind, SameOthers, SameQueue, TypePartsNext DEF StartWrapper
<1>8. ASSUME ReportProgress(p) PROVE TypeOK'
  <2>1. TodoOK'
    BY <1>0, <1>8, PilotBeginsOK DEF ReportProgress, PilotScripts
  <2>2. QED
    BY <1>0, <1>8, <2>1, SameRow, SameMind, SameWorkers, SameOthers, SameQueue, TypePartsNext
    DEF ReportProgress
<1>9. ASSUME GiveBack(p) PROVE TypeOK'
  <2>1. TodoOK' /\ WorkersOK'
    BY <1>0, <1>9, PilotBeginsOK, GoToOK DEF GiveBack, PilotScripts
  <2>2. QED
    BY <1>0, <1>9, <2>1, SameRow, SameMind, SameOthers, SameQueue, TypePartsNext DEF GiveBack
<1>10. ASSUME LosePilot(p) PROVE TypeOK'
  <2>1. WorkersOK'
    BY <1>0, <1>10, GoToOK DEF LosePilot
  <2>2. QED
    BY <1>0, <1>10, <2>1, SameTodo, SameRow, SameMind, SameOthers, SameQueue, TypePartsNext
    DEF LosePilot
<1>11. ASSUME NEW s \in {"Done", "Completed", "Failed"}, Finish(p, s) PROVE TypeOK'
  <2>1. TodoOK' /\ WorkersOK'
    BY <1>0, <1>11, PilotBeginsOK, GoToOK DEF Finish, PilotScripts
  <2>2. OthersOK'
    BY <1>0, <1>11 DEF Finish, OthersOK
  <2>3. QED
    BY <1>0, <1>11, <2>1, <2>2, SameRow, SameMind, SameQueue, TypePartsNext DEF Finish
<1>12. QED
  BY <1>1, <1>2, <1>3, <1>4, <1>5, <1>6, <1>7, <1>8, <1>9, <1>10, <1>11 DEF PilotStep

\* what is begun on behalf of the job by an actor that is no pilot
ServiceScripts ==
    {<<Op("recheck"), Set("Stalled")>>, <<Op("kill"), Set("Failed")>>, <<Op("kill"), Op("reject")>>,
     <<Op("reschedule")>>, <<Set("Failed")>>,
     <<Op("deleteRow"), Op("deleteDescription"), Op("dequeue")>>, <<Op("delete")>>, <<Op("kill")>>,
     <<>>, <<Set("Received"), Op("message")>>,
     <<Op("dequeue"), Op("reschedule"), Op("message")>>,
     <<Op("zero"), Op("dequeue"), Op("reschedule"), Op("message")>>}
    \cup {<<Op("await"), Report(s)>> : s \in {"Checking", "none"}}
    \cup {<<Report(s)>> : s \in Statuses \cup {"none"}}

LEMMA ServiceScriptsOK == ServiceScripts \subseteq Seq(Steps)
<1>1. /\ Set("Stalled") \in Steps /\ Set("Failed") \in Steps /\ Set("Received") \in Steps
      /\ Report("Checking") \in Steps /\ Report("none") \in Steps
      /\ \A s \in Statuses \cup {"none"} : Report(s) \in Steps
  BY KindsOfSteps, Names
<1>2. /\ Op("recheck") \in Steps /\ Op("kill") \in Steps /\ Op("reject") \in Steps
      /\ Op("reschedule") \in Steps /\ Op("deleteRow") \in Steps /\ Op("deleteDescription") \in Steps
      /\ Op("dequeue") \in Steps /\ Op("delete") \in Steps /\ Op("message") \in Steps
      /\ Op("zero") \in Steps /\ Op("await") \in Steps
  BY KindsOfSteps
<1>3. /\ <<Op("recheck"), Set("Stalled")>> \in Seq(Steps) /\ <<Op("kill"), Set("Failed")>> \in Seq(Steps)
      /\ <<Op("kill"), Op("reject")>> \in Seq(Steps)
      /\ <<Set("Received"), Op("message")>> \in Seq(Steps)
      /\ <<Op("await"), Report("Checking")>> \in Seq(Steps)
      /\ <<Op("await"), Report("none")>> \in Seq(Steps)
  BY <1>1, <1>2, TwoSteps
<1>4. /\ <<Op("reschedule")>> \in Seq(Steps) /\ <<Set("Failed")>> \in Seq(Steps)
      /\ <<Op("delete")>> \in Seq(Steps) /\ <<Op("kill")>> \in Seq(Steps)
      /\ <<>> \in Seq(Steps)
      /\ \A s \in Statuses \cup {"none"} : <<Report(s)>> \in Seq(Steps)
  BY <1>1, <1>2, OneStep, NoStep
<1>5. /\ <<Op("deleteRow"), Op("deleteDescription"), Op("dequeue")>> \in Seq(Steps)
      /\ <<Op("dequeue"), Op("reschedule"), Op("message")>> \in Seq(Steps)
      /\ <<Op("zero"), Op("dequeue"), Op("reschedule"), Op("message")>> \in Seq(Steps)
  BY <1>2, ThreeSteps, FourSteps
<1>6. QED
  BY <1>3, <1>4, <1>5 DEF ServiceScripts

LEMMA ServiceBeginsOK ==
  ASSUME TodoOK, NEW a \in Service, NEW s \in ServiceScripts, Begin(a, s)
  PROVE  TodoOK'
BY BeginOK, ServiceScriptsOK DEF Actor

LEMMA BeginningTypes ==
  ASSUME TypeOK,
         \/ Age \/ AgentStarts \/ FinalizeRequest \/ ConfirmSubmission
         \/ \E s \in {"Checking", "none"} : StagerAnswers(s)
         \/ \E c \in Commands : UserCommand(c)
  PROVE  TypeOK'
<1>0. /\ RowTypeOK /\ MindOK /\ WorkersOK /\ OthersOK /\ TodoOK /\ Q!PoolTypeOK
  BY TypeParts
<1>1. ASSUME Age PROVE TypeOK'
  <2>1. RowTypeOK'
    BY <1>0, <1>1 DEF Age, RowTypeOK
  <2>2. QED
    BY <1>0, <1>1, <2>1, SameTodo, SameMind, SameWorkers, SameOthers, SameQueue, TypePartsNext
    DEF Age
<1>2. ASSUME AgentStarts PROVE TypeOK'
  <2>1. \E a \in Service, s \in ServiceScripts : Begin(a, s)
    BY <1>2 DEF AgentStarts, MarkStalled, FailStalled, KickStuck, FailSubmitting, RemoveDeleted,
                DeleteOld, Service, ServiceScripts
  <2>2. TodoOK'
    BY <1>0, <2>1, ServiceBeginsOK
  <2>3. QED
    BY <1>0, <1>2, <2>2, SameRow, SameMind, SameWorkers, SameOthers, SameQueue, TypePartsNext
    DEF AgentStarts
<1>3. ASSUME FinalizeRequest PROVE TypeOK'
  <2>1. PICK s \in FinalStatus : Begin("RMS", IF HasRow THEN <<Report(s)>> ELSE <<>>)
    BY <1>3 DEF FinalizeRequest
  <2>2. s \in Statuses \cup {"none"}
    BY <2>1, Names DEF FinalStatus
  <2>3. (IF HasRow THEN <<Report(s)>> ELSE <<>>) \in ServiceScripts
    BY <2>2 DEF ServiceScripts
  <2>4. TodoOK' /\ OthersOK'
    BY <1>0, <1>3, <2>1, <2>3, ServiceBeginsOK DEF FinalizeRequest, OthersOK, Service
  <2>5. QED
    BY <1>0, <1>3, <2>4, SameRow, SameMind, SameWorkers, SameQueue, TypePartsNext
    DEF FinalizeRequest
<1>4. ASSUME ConfirmSubmission PROVE TypeOK'
  <2>1. TodoOK'
    BY <1>0, <1>4, ServiceBeginsOK DEF ConfirmSubmission, Service, ServiceScripts
  <2>2. QED
    BY <1>0, <1>4, <2>1, SameRow, SameMind, SameWorkers, SameOthers, SameQueue, TypePartsNext
    DEF ConfirmSubmission
<1>5. ASSUME NEW s \in {"Checking", "none"}, StagerAnswers(s) PROVE TypeOK'
  <2>1. TodoOK' /\ OthersOK'
    BY <1>0, <1>5, ServiceBeginsOK DEF StagerAnswers, OthersOK, Service, ServiceScripts
  <2>2. QED
    BY <1>0, <1>5, <2>1, SameRow, SameMind, SameWorkers, SameQueue, TypePartsNext DEF StagerAnswers
<1>6. ASSUME NEW c \in Commands, UserCommand(c) PROVE TypeOK'
  <2>1. c \in {"kill", "delete", "reschedule", "reset"}
    BY JobsAssumption
  <2>2. TodoOK'
    BY <1>0, <1>6, <2>1, ServiceBeginsOK DEF UserCommand, Service, ServiceScripts
  <2>3. OthersOK'
    BY <1>0, <1>6, JobsAssumption DEF UserCommand, OthersOK
  <2>4. QED
    BY <1>0, <1>6, <2>2, <2>3, SameRow, SameMind, SameWorkers, SameQueue, TypePartsNext
    DEF UserCommand
<1>7. QED
  BY <1>1, <1>2, <1>3, <1>4, <1>5, <1>6

LEMMA NextTypes == TypeOK /\ [Next]_vars => TypeOK'
<1> SUFFICES ASSUME TypeOK, [Next]_vars PROVE TypeOK'
  OBVIOUS
<1>1. ASSUME NEW a \in Actor, RowStep(a) PROVE TypeOK'
  BY <1>1, StatusStepTypes, CallStepTypes DEF RowStep
<1>2. CASE MindStep \/ LoadJobs \/ TaskError \/ \E s \in Statuses : TaskDone(s)
  BY <1>2, MindStepTypes
<1>3. ASSUME NEW p \in Pilot,
             \/ TakeFromTQ(p) \/ PilotStep(p)
             \/ StartWrapper(p) \/ ReportProgress(p) \/ GiveBack(p) \/ LosePilot(p)
             \/ \E s \in {"Done", "Completed", "Failed"} : Finish(p, s)
      PROVE  TypeOK'
  BY <1>3, PilotStepTypes
<1>4. CASE \/ Age \/ AgentStarts \/ FinalizeRequest \/ ConfirmSubmission
           \/ \E s \in {"Checking", "none"} : StagerAnswers(s)
           \/ \E c \in Commands : UserCommand(c)
  BY <1>4, BeginningTypes
<1>5. CASE UNCHANGED vars
  BY <1>5, TypeParts, TypePartsNext, SameRow, SameMind, SameWorkers, SameOthers, SameTodo, SameQueue
  DEF vars
<1>6. QED
  BY <1>1, <1>2, <1>3, <1>4, <1>5 DEF Next

(***************************************************************************)
(* The row, the copies of the mind, the pilots, the steps that are begun   *)
(* and the pool keep their types.  In particular the counter stays below   *)
(* its limit: the check of rescheduleJob holds until the row is written,   *)
(* whoever reschedules the job at the same time, because the new counter   *)
(* is the one that was read.                                               *)
(***************************************************************************)
THEOREM JobsTyped == Spec => []TypeOK
<1>1. QED
  BY InitTypes, NextTypes, PTL DEF Spec

-----------------------------------------------------------------------------
(***************************************************************************)
(* Who has which steps.                                                    *)
(***************************************************************************)
Ops(S) == {x \in Steps : x.op \in S}
To(op, S) == {x \in Steps : x.op = op /\ x.to \in S}

Janitors == {"User", "StalledJobAgent", "JobCleaningAgent"}

MayReport(a, s) ==
    \/ a = "Stager" /\ s \in {"Checking", "none"}
    \/ a = "RMS" /\ s \in {"Done", "Failed", "Running", "Completing", "none"}
    \/ /\ a \in Pilot
       /\ s \in {"Running", "none", "Failed", "Completing", "Done", "Completed", "Rescheduled"}

MaySet(a, s) ==
    \/ a \in Janitors /\ s \in {"Killed", "Deleted", "Failed"}
    \/ a = "User" /\ s = "Received"
    \/ a = "StalledJobAgent" /\ s = "Stalled"
    \/ a = "Mind" /\ s \in {"Checking", "Waiting", "Staging", "Failed"}
    \/ a \in Pilot /\ s \in {"Matched", "Running", "Failed"}

May(a, x) ==
    /\ x.op \in {"check", "give", "beat", "restore", "obey", "write"} => a \in Pilot
    /\ x.op \in {"compare", "reread", "insert", "dispatch"} => a = "Mind"
    /\ x.op \in {"kill", "delete", "command", "unstage"} => a \in Janitors
    /\ x.op \in {"recheck", "reject"} => a = "StalledJobAgent"
    /\ x.op \in {"deleteRow", "deleteDescription"} => a = "JobCleaningAgent"
    /\ x.op = "await" => a = "Stager"
    /\ x.op = "zero" => a = "User"
    /\ x.op = "dequeue" => a \in Pilot \cup Janitors
    /\ x.op = "message" => a \in Pilot \cup {"User"}
    /\ x.op \in {"reschedule", "restart"} => a \in Pilot \cup {"User", "StalledJobAgent"}
    /\ x.op = "report" => MayReport(a, x.to)
    /\ x.op = "set" => MaySet(a, x.to)

Strange(a) == {x \in Steps : ~May(a, x)}

\* a sequence of steps that an actor may have
Script(a, s) == s \in Seq(Steps) /\ Ordered(s) /\ ~Some(s, Strange(a))

Scripted == \A a \in Actor : Script(a, todo[a])

LEMMA OpsIs == ASSUME NEW x \in Steps, NEW S PROVE x \in Ops(S) <=> x.op \in S
BY DEF Ops

LEMMA ToIs ==
  ASSUME NEW x \in Steps, NEW op, NEW S PROVE x \in To(op, S) <=> x.op = op /\ x.to \in S
BY DEF To

LEMMA StrangeIs == ASSUME NEW x \in Steps, NEW a PROVE x \in Strange(a) <=> ~May(a, x)
BY DEF Strange

\* the service calls run to their end, only pilots and the matcher are overtaken
Orderly ==
    /\ Patient
    /\ Overlapping \subseteq Pilot
    /\ Faults \subseteq {"message", "pilot", "optimizer"}

\* what is left after the first step, and in which order
LEMMA Rest ==
  ASSUME TodoOK, Scripted, NEW a \in Actor, todo[a] # <<>>
  PROVE  LET h == Head(todo[a])
             r == Tail(todo[a])
         IN  /\ h \in Steps /\ May(a, h)
             /\ Script(a, r)
             /\ \A X : Some(todo[a], X) <=> h \in X \/ Some(r, X)
             /\ \A X : Some(r, X) => \E x \in X : x \in Steps /\ Before(h, x) /\ May(a, x)
<1> DEFINE h == Head(todo[a])
           r == Tail(todo[a])
<1>1. Script(a, todo[a])
  BY DEF Scripted
<1>2. /\ h \in Steps
      /\ r \in Seq(Steps)
      /\ \A X : Some(todo[a], X) <=> h \in X \/ Some(r, X)
      /\ Ordered(r)
      /\ \A i \in DOMAIN r : Before(h, r[i])
  BY <1>1, RestOfSteps DEF Script
<1>3. ~Some(r, Strange(a)) /\ h \notin Strange(a)
  BY <1>1, <1>2 DEF Script
<1>4. \A i \in DOMAIN r : r[i] \in Steps
  BY <1>2, ElementOfSeq, LenProperties
<1> HIDE DEF h, r
<1>5. \A i \in DOMAIN r : r[i] \in Steps /\ May(a, r[i])
  BY <1>3, <1>4, StrangeIs DEF Some
<1>6. \A X : Some(r, X) => \E x \in X : x \in Steps /\ Before(h, x) /\ May(a, x)
  BY <1>2, <1>5 DEF Some
<1>7. May(a, h)
  BY <1>2, <1>3, StrangeIs
<1>8. QED
  BY <1>2, <1>3, <1>6, <1>7 DEF Script, h, r

LEMMA StepDone ==
  ASSUME TodoOK, Scripted, NEW a \in Actor, todo[a] # <<>>, Done(a)
  PROVE  Scripted' /\ todo'[a] = Tail(todo[a]) /\ \A b \in Actor : b # a => todo'[b] = todo[b]
BY Rest, DoneOK DEF Scripted

LEMMA StepGiveUp ==
  ASSUME TodoOK, Scripted, NEW a \in Actor, GiveUp(a)
  PROVE  /\ Scripted' /\ todo'[a] = <<>> /\ \A X : ~Some(todo'[a], X)
         /\ \A b \in Actor : b # a => todo'[b] = todo[b]
BY NoStep, GiveUpOK DEF Scripted, Script

LEMMA StepBegin ==
  ASSUME TodoOK, Scripted, NEW a \in Actor, NEW s, Script(a, s), Begin(a, s)
  PROVE  /\ Scripted' /\ todo'[a] = s /\ todo[a] = <<>> /\ \A X : ~Some(todo[a], X)
         /\ \A b \in Actor : b # a => todo'[b] = todo[b]
BY NoStep, BeginOK DEF Scripted, Script

LEMMA StepAfresh ==
  ASSUME TodoOK, Scripted, NEW a \in Actor, NEW s, Script(a, s), todo' = [todo EXCEPT ![a] = s]
  PROVE  Scripted' /\ todo'[a] = s /\ \A b \in Actor : b # a => todo'[b] = todo[b]
BY AfreshOK DEF Scripted, Script

LEMMA StepInstead ==
  ASSUME TodoOK, Scripted, NEW a \in Actor, todo[a] # <<>>, NEW s, Script(a, s), Instead(a, s),
         \A i \in DOMAIN s, y \in Steps : Before(Head(todo[a]), y) => Before(s[i], y)
  PROVE  /\ Scripted'
         /\ \A X : Some(todo'[a], X) <=> Some(s, X) \/ Some(Tail(todo[a]), X)
         /\ \A b \in Actor : b # a => todo'[b] = todo[b]
<1> DEFINE r == Tail(todo[a])
           h == Head(todo[a])
<1>1. Script(a, r) /\ \A X : Some(r, X) => \E x \in X : x \in Steps /\ Before(h, x)
  BY Rest
<1>2. todo'[a] = s \o r /\ \A b \in Actor : b # a => todo'[b] = todo[b]
  BY InsteadOK DEF Script
<1>3. \A j \in DOMAIN r : r[j] \in Steps /\ Before(h, r[j])
  <2>1. \A j \in DOMAIN r : r[j] \in Steps
    BY <1>1, ElementOfSeq, LenProperties DEF Script
  <2> HIDE DEF r, h
  <2>2. ASSUME NEW j \in DOMAIN r PROVE Before(h, r[j])
    <3>1. Some(r, {r[j]})
      BY DEF Some
    <3>2. QED
      BY <3>1, <1>1
  <2>3. QED
    BY <2>1, <2>2
<1>4. \A i \in DOMAIN s, j \in DOMAIN r : Before(s[i], r[j])
  BY <1>3
<1>5. /\ s \o r \in Seq(Steps)
      /\ \A X : Some(s \o r, X) <=> Some(s, X) \/ Some(r, X)
      /\ Ordered(s \o r)
  BY <1>1, <1>4, MoreSteps DEF Script
<1>6. Script(a, s \o r)
  BY <1>1, <1>5 DEF Script
<1>7. Scripted'
  BY <1>2, <1>6 DEF Scripted
<1>8. QED
  BY <1>2, <1>5, <1>7

LEMMA SingleScript ==
  ASSUME NEW a, NEW x \in Steps, May(a, x)
  PROVE  /\ Script(a, <<x>>) /\ \A X : Some(<<x>>, X) <=> x \in X
         /\ \A i \in DOMAIN <<x>> : <<x>>[i] = x
BY OneStep, StrangeIs DEF Script

LEMMA EmptyScript == ASSUME NEW a PROVE Script(a, <<>>) /\ \A X : ~Some(<<>>, X)
BY NoStep DEF Script

LEMMA PairScript ==
  ASSUME NEW a, NEW x \in Steps, NEW y \in Steps, May(a, x), May(a, y), Before(x, y)
  PROVE  Script(a, <<x, y>>) /\ \A X : Some(<<x, y>>, X) <=> x \in X \/ y \in X
BY TwoSteps, StrangeIs DEF Script

LEMMA TripleScript ==
  ASSUME NEW a, NEW x \in Steps, NEW y \in Steps, NEW z \in Steps,
         May(a, x), May(a, y), May(a, z), Before(x, y), Before(x, z), Before(y, z)
  PROVE  /\ Script(a, <<x, y, z>>)
         /\ \A X : Some(<<x, y, z>>, X) <=> x \in X \/ y \in X \/ z \in X
BY ThreeSteps, StrangeIs DEF Script

LEMMA QuadScript ==
  ASSUME NEW a, NEW w \in Steps, NEW x \in Steps, NEW y \in Steps, NEW z \in Steps,
         May(a, w), May(a, x), May(a, y), May(a, z),
         Before(w, x), Before(w, y), Before(w, z), Before(x, y), Before(x, z), Before(y, z)
  PROVE  /\ Script(a, <<w, x, y, z>>)
         /\ \A X : Some(<<w, x, y, z>>, X) <=> w \in X \/ x \in X \/ y \in X \/ z \in X
BY FourSteps, StrangeIs DEF Script

LEMMA Actors ==
  /\ \A p \in Pilot : /\ p \in Actor /\ p \notin Service /\ p \notin Janitors
                      /\ p # "User" /\ p # "Mind" /\ p # "StalledJobAgent"
                      /\ p # "JobCleaningAgent" /\ p # "Stager" /\ p # "RMS"
  /\ "User" \in Actor /\ "Mind" \in Actor /\ "StalledJobAgent" \in Actor
  /\ "JobCleaningAgent" \in Actor /\ "Stager" \in Actor /\ "RMS" \in Actor
  /\ \A a \in Actor : a \in Pilot \/ a \in Janitors \/ a \in {"Mind", "Stager", "RMS"}
BY PilotsAssumption DEF Actor, Service, Janitors

LEMMA MatchScript ==
  ASSUME NEW p \in Pilot
  PROVE  LET s == <<Op("check"), Set("Matched"), Op("give")>>
         IN  /\ Script(p, s)
             /\ \A X : Some(s, X) <=> Op("check") \in X \/ Set("Matched") \in X \/ Op("give") \in X
<1>1. Op("check") \in Steps /\ Set("Matched") \in Steps /\ Op("give") \in Steps
  BY KindsOfSteps, Names
<1>2. /\ May(p, Op("check")) /\ May(p, Set("Matched")) /\ May(p, Op("give"))
      /\ Before(Op("check"), Set("Matched")) /\ Before(Op("check"), Op("give"))
      /\ Before(Set("Matched"), Op("give"))
  BY DEF May, MaySet, Before, Op, Set
<1>3. QED
  BY <1>1, <1>2, TripleScript

LEMMA BeatScript ==
  ASSUME NEW p \in Pilot
  PROVE  LET s == <<Op("beat"), Op("restore"), Op("obey")>>
         IN  /\ Script(p, s)
             /\ \A X : Some(s, X) <=> Op("beat") \in X \/ Op("restore") \in X \/ Op("obey") \in X
<1>1. Op("beat") \in Steps /\ Op("restore") \in Steps /\ Op("obey") \in Steps
  BY KindsOfSteps
<1>2. /\ May(p, Op("beat")) /\ May(p, Op("restore")) /\ May(p, Op("obey"))
      /\ Before(Op("beat"), Op("restore")) /\ Before(Op("beat"), Op("obey"))
      /\ Before(Op("restore"), Op("obey"))
  BY DEF May, Before, Op
<1>3. QED
  BY <1>1, <1>2, TripleScript

PilotReports == {"Running", "none", "Failed", "Completing", "Done", "Completed", "Rescheduled"}

LEMMA ReportScript ==
  ASSUME NEW p \in Pilot, NEW s \in PilotReports
  PROVE  /\ Script(p, <<Report(s)>>) /\ \A X : Some(<<Report(s)>>, X) <=> Report(s) \in X
         /\ \A i \in DOMAIN <<Report(s)>> : <<Report(s)>>[i] = Report(s)
<1>1. Report(s) \in Steps
  BY KindsOfSteps, Names DEF PilotReports
<1>2. May(p, Report(s))
  BY DEF May, MayReport, Report, PilotReports
<1>3. QED
  BY <1>1, <1>2, SingleScript

LEMMA FinishScript ==
  ASSUME NEW p \in Pilot, NEW s \in {"Done", "Completed", "Failed"}
  PROVE  LET q == <<Report("Completing"), Report(s)>>
         IN  Script(p, q) /\ \A X : Some(q, X) <=> Report("Completing") \in X \/ Report(s) \in X
<1>1. Report("Completing") \in Steps /\ Report(s) \in Steps
  BY KindsOfSteps, Names
<1>2. May(p, Report("Completing")) /\ May(p, Report(s)) /\ Before(Report("Completing"), Report(s))
  BY DEF May, MayReport, Before, Report
<1>3. QED
  BY <1>1, <1>2, PairScript

LEMMA GiveBackScript ==
  ASSUME NEW p \in Pilot
  PROVE  LET q == <<Report("Rescheduled"), Op("dequeue"), Op("reschedule"), Op("message")>>
         IN  /\ Script(p, q)
             /\ \A X : Some(q, X) <=> \/ Report("Rescheduled") \in X \/ Op("dequeue") \in X
                                      \/ Op("reschedule") \in X \/ Op("message") \in X
<1>1. /\ Report("Rescheduled") \in Steps /\ Op("dequeue") \in Steps
      /\ Op("reschedule") \in Steps /\ Op("message") \in Steps
  BY KindsOfSteps, Names
<1>2. /\ May(p, Report("Rescheduled")) /\ May(p, Op("dequeue"))
      /\ May(p, Op("reschedule")) /\ May(p, Op("message"))
      /\ Before(Report("Rescheduled"), Op("dequeue")) /\ Before(Report("Rescheduled"), Op("reschedule"))
      /\ Before(Report("Rescheduled"), Op("message")) /\ Before(Op("dequeue"), Op("reschedule"))
      /\ Before(Op("dequeue"), Op("message")) /\ Before(Op("reschedule"), Op("message"))
  BY DEF May, MayReport, Before, Report, Op
<1>3. QED
  BY <1>1, <1>2, QuadScript

LEMMA KillScript ==
  ASSUME NEW a \in Janitors, NEW right \in {"kill", "delete"}
  PROVE  LET s == KillSteps(right)
         IN  /\ Script(a, s)
             /\ \A X : Some(s, X) => \E x \in X : /\ x.op \in {"command", "set", "dequeue", "unstage"}
                                                  /\ x.op = "set" => x.to \in {"Killed", "Deleted"}
             /\ \A i \in DOMAIN s, y \in Steps, x \in Steps :
                    x.op = right /\ Before(x, y) => Before(s[i], y)
<1> DEFINE K == Set("Killed")
           D == Set("Deleted")
           c == Op("command")
           q == Op("dequeue")
           u == Op("unstage")
           s == KillSteps(right)
<1>1. K \in Steps /\ D \in Steps /\ c \in Steps /\ q \in Steps /\ u \in Steps
  BY KindsOfSteps, Names
<1>2. May(a, K) /\ May(a, D) /\ May(a, c) /\ May(a, q) /\ May(a, u)
  BY DEF May, MaySet, Janitors, Set, Op
<1>3. /\ Before(c, K) /\ Before(c, q) /\ Before(K, q) /\ Before(D, q) /\ Before(K, u) /\ Before(q, u)
  BY DEF Before, Set, Op
<1>4. /\ \A x \in {K, D, c, q, u} : /\ x.op \in {"command", "set", "dequeue", "unstage"}
                                    /\ x.op = "set" => x.to \in {"Killed", "Deleted"}
      /\ \A x \in Steps, y \in Steps : x.op = right /\ Before(x, y) =>
           /\ Before(K, y) /\ Before(c, y) /\ Before(q, y) /\ Before(u, y)
           /\ right = "delete" => Before(D, y)
  BY DEF Before, Set, Op
<1> HIDE DEF K, D, c, q, u
<1>5. \/ s = <<c, K, q>> \/ (s = <<D, q>> /\ right = "delete") \/ s = <<>> \/ s = <<K, q, u>> \/ s = <<K, q>>
  BY DEF KillSteps, K, D, c, q, u
<1> HIDE DEF s
<1>6. CASE s = <<c, K, q>>
  <2>1. Script(a, s) /\ \A X : Some(s, X) <=> c \in X \/ K \in X \/ q \in X
    BY <1>1, <1>2, <1>3, <1>6, TripleScript
  <2>2. \A i \in DOMAIN s : s[i] \in {c, K, q}
    BY <1>6
  <2>3. QED
    BY <1>4, <2>1, <2>2 DEF s
<1>7. CASE s = <<D, q>> /\ right = "delete"
  <2>1. Script(a, s) /\ \A X : Some(s, X) <=> D \in X \/ q \in X
    BY <1>1, <1>2, <1>3, <1>7, PairScript
  <2>2. \A i \in DOMAIN s : s[i] \in {D, q}
    BY <1>7
  <2>3. QED
    BY <1>4, <1>7, <2>1, <2>2 DEF s
<1>8. CASE s = <<>>
  BY <1>8, EmptyScript DEF s
<1>9. CASE s = <<K, q, u>>
  <2>1. Script(a, s) /\ \A X : Some(s, X) <=> K \in X \/ q \in X \/ u \in X
    BY <1>1, <1>2, <1>3, <1>9, TripleScript
  <2>2. \A i \in DOMAIN s : s[i] \in {K, q, u}
    BY <1>9
  <2>3. QED
    BY <1>4, <2>1, <2>2 DEF s
<1>10. CASE s = <<K, q>>
  <2>1. Script(a, s) /\ \A X : Some(s, X) <=> K \in X \/ q \in X
    BY <1>1, <1>2, <1>3, <1>10, PairScript
  <2>2. \A i \in DOMAIN s : s[i] \in {K, q}
    BY <1>10
  <2>3. QED
    BY <1>4, <2>1, <2>2 DEF s
<1>11. QED
  BY <1>5, <1>6, <1>7, <1>8, <1>9, <1>10

-----------------------------------------------------------------------------
(***************************************************************************)
(* The offer of a job.  From the commit that makes it Waiting until it is  *)
(* given to a pilot, a job is offered in one place at a time, and it is    *)
(* prepared for an offer only while it is neither offered nor given.       *)
(***************************************************************************)
Has(a, S) == Some(todo[a], Ops(S))
HasTo(a, op, S) == Some(todo[a], To(op, S))

MindInv ==
    /\ Has("Mind", {"dispatch"}) => ~HasTo("Mind", "set", Statuses \ {copy.want})
    /\ ~Has("Mind", {"dispatch"}) => /\ ~Has("Mind", {"compare", "reread", "insert"})
                                     /\ ~HasTo("Mind", "set", {"Checking", "Waiting", "Staging"})
    /\ Has("Mind", {"insert"}) => copy.want = "Waiting"
    /\ Has("Mind", {"compare"}) => Has("Mind", {"set"})
    /\ copy.want # "Received"

\* the mind commits a copy it has compared
Compared == Has("Mind", {"dispatch"}) /\ ~Has("Mind", {"compare"})

\* copies that would be committed
ValidTask == task.pc = "optimizing" /\ task.same
ValidCopy == Has("Mind", {"compare"}) /\ copy.same
Valid == ValidTask \/ ValidCopy

ToSet == Compared /\ Has("Mind", {"set"}) /\ copy.want \in {"Checking", "Waiting", "Staging"}

Rereading == Compared /\ copy.want = "Checking" /\ (Has("Mind", {"reread"}) \/ copy.same)

Preparing == Valid \/ ToSet \/ Rereading \/ status \in Optimizing

Entering ==
    /\ Compared /\ ~Has("Mind", {"set"}) /\ copy.want = "Waiting"
    /\ Has("Mind", {"reread"}) \/ (Has("Mind", {"insert"}) /\ told[J] # "entered")

Matching(p) == pilot[p] = "matching"
Past(p) == Matching(p) /\ ~Has(p, {"check"})

Offered == Entering \/ J \in pool \/ \E p \in Pilot : Matching(p)

\* a pilot that has the job, or has something to say about it
Live(p) ==
    \/ pilot[p] \in {"assigned", "running"}
    \/ pilot[p] = "idle" /\ Has(p, {"set", "report", "write", "reschedule", "restart"})

Over == {"Deleted", "Killed", "Failed", "Done", "none"}

\* calls under way that tell of a status the job had
Resuming == HasTo("RMS", "report", {"Running", "Completing"})
Staged == HasTo("Stager", "report", {"Checking"}) /\ ~Has("Stager", {"await"})
Confirming == HasTo("User", "set", {"Received"})
Restarting(a) == Has(a, {"reschedule", "restart"})

Calm ==
    /\ ~Preparing /\ ~Offered /\ \A p \in Pilot : ~Live(p)
    /\ status \notin {"Waiting", "Staging"}
    /\ ~Staged /\ ~Confirming /\ ~Restarting("User")

PilotInv(p) ==
    /\ Matching(p) <=> Has(p, {"give"})
    /\ Has(p, {"check"}) => Matching(p) /\ Has(p, {"set"})
    /\ pilot[p] = "assigned" => Free(p)
    /\ Matching(p) => /\ ~Has(p, {"report", "dequeue", "reschedule", "restart", "message"})
                      /\ ~HasTo(p, "set", {"Running", "Failed"})
                      /\ ~HasTo(p, "write", (Statuses \cup {"none"}) \ (Over \cup {"Matched"}))
    /\ HasTo(p, "set", {"Matched"}) => Matching(p)
    /\ Has(p, {"beat", "restore", "obey"}) => pilot[p] = "running"
    /\ Has(p, {"reschedule", "restart"}) => pilot[p] = "idle"
    /\ ~HasTo(p, "write", Optimizing \cup {"Waiting", "Staging", "Submitting", "Stalled"})

\* the offer is in one place
OneOffer ==
    /\ Entering => J \notin pool /\ \A p \in Pilot : ~Matching(p)
    /\ J \in pool => \A p \in Pilot : ~Matching(p)
    /\ \A p, q \in Pilot : Matching(p) /\ Matching(q) => p = q
    /\ Offered => ~Preparing

OneLive ==
    /\ given \in {0, 1}
    /\ given = 1 => ~Offered /\ ~Preparing /\ status \notin {"Waiting", "Staging"}
    /\ \A p \in Pilot : Live(p) => given = 1 /\ ~old
    /\ \A p, q \in Pilot : Live(p) /\ Live(q) => p = q

OfferStatus ==
    /\ Preparing => status \in Optimizing \cup Over
    /\ task.same \/ copy.same => HasRow
    /\ Entering \/ J \in pool => status \in Over \cup {"Waiting"}

MatchStatus(p) ==
    /\ Matching(p) => status \in Over \cup {"Waiting", "Matched"}
    /\ Has(p, {"check"}) => status # "Matched"
    /\ Past(p) => ~old
    /\ Past(p) /\ ~Has(p, {"set", "write"}) => status # "Waiting"

StagedInv ==
    status = "Staging" \/ Staged =>
        given = 0 /\ ~Preparing /\ ~Offered /\ status \in Over \cup {"Staging"}

Pristine ==
    status = "Submitting" =>
        /\ given = 0 /\ J \notin pool
        /\ \A a \in Actor : a # "User" => Free(a)
        /\ \A p \in Pilot : pilot[p] = "idle"
        /\ task.pc = "none" /\ ~staging /\ ~request /\ ~Restarting("User")

CalmInv ==
    /\ old => status \notin {"Waiting", "Submitting"}
    /\ \/ ~Free("StalledJobAgent")
       \/ status = "Stalled"
       \/ Resuming
       \/ old /\ status \in {"Running", "Completing", "Matched", "Rescheduled"}
       => Calm
    /\ Resuming /\ old => status \in {"Stalled", "none"}
    /\ Restarting("StalledJobAgent") => status # "Stalled" /\ ~Resuming
    /\ Confirming => status = "Submitting"

\* a user restarts the job
Sealed ==
    Restarting("User") =>
        /\ status \in Over
        /\ Free("StalledJobAgent") /\ Free("Mind") /\ \A p \in Pilot : Free(p)
        /\ task.pc = "none" /\ J \notin pool
        /\ \A p \in Pilot : pilot[p] = "idle"
        /\ ~Staged /\ ~Resuming

Steady ==
    /\ OneOffer /\ OneLive /\ OfferStatus /\ \A p \in Pilot : MatchStatus(p)
    /\ StagedInv /\ Pristine /\ CalmInv /\ Sealed

JobInv ==
    /\ Scripted
    /\ MindInv
    /\ \A p \in Pilot : PilotInv(p)
    /\ Steady

LEMMA Labels ==
  /\ \A s \in Over \cup {"Waiting", "Staging", "Submitting", "Matched", "Running", "Completing",
                         "Stalled", "Rescheduled"} : s \notin Optimizing
  /\ \A s \in Over : s \notin {"Waiting", "Staging", "Submitting", "Matched", "Running",
                               "Completing", "Stalled", "Rescheduled", "Received", "Checking"}
BY DEF Over, Optimizing

\* a step that neither offers nor starts anything
Shift ==
    \/ status' = status /\ (old' => old)
    \/ /\ ~task.same' /\ ~copy.same' /\ ~Confirming
       /\ old' => old /\ status' = "none"
       /\ \/ status' \in Over
          \/ /\ Calm /\ status' \in {"Running", "Completing", "Stalled", "Rescheduled"}
             /\ Restarting("StalledJobAgent") => status' # "Stalled"

\* the flags of an actor that goes on
Onwards(a) ==
    /\ \A b \in Actor : b # a => todo'[b] = todo[b]
    /\ todo[a] # <<>>
    /\ Restarting(a)' => Restarting(a)
    /\ Confirming' => Confirming
    /\ Staged' => Staged
    /\ Resuming' => Resuming

LEMMA SameMindSteps ==
  ASSUME todo'["Mind"] = todo["Mind"], copy'.want = copy.want, told' = told,
         task'.pc = task.pc, task'.same => task.same, copy'.same => copy.same
  PROVE  /\ Compared' <=> Compared
         /\ ToSet' <=> ToSet
         /\ Entering' <=> Entering
         /\ Rereading' => Rereading
         /\ Valid' => Valid
         /\ MindInv => MindInv'
<1>1. \A S : Has("Mind", S)' <=> Has("Mind", S)
  BY DEF Has
<1>2. Compared' <=> Compared
  BY <1>1 DEF Compared
<1>3. /\ ToSet' <=> ToSet
      /\ Entering' <=> Entering
      /\ Rereading' => Rereading
      /\ Valid' => Valid
  BY <1>1, <1>2 DEF ToSet, Entering, Rereading, Valid, ValidTask, ValidCopy
<1>4. MindInv => MindInv'
  BY DEF MindInv, Has, HasTo
<1>5. QED
  BY <1>2, <1>3, <1>4

LEMMA SameCopySteps ==
  ASSUME todo'["Mind"] = todo["Mind"], copy'.want = copy.want, told' = told,
         copy'.same => copy.same
  PROVE  /\ Compared' <=> Compared
         /\ ToSet' <=> ToSet
         /\ Entering' <=> Entering
         /\ Rereading' => Rereading
         /\ ValidCopy' => ValidCopy
         /\ MindInv => MindInv'
<1>1. \A S : Has("Mind", S)' <=> Has("Mind", S)
  BY DEF Has
<1>2. Compared' <=> Compared
  BY <1>1 DEF Compared
<1>3. /\ ToSet' <=> ToSet
      /\ Entering' <=> Entering
      /\ Rereading' => Rereading
      /\ ValidCopy' => ValidCopy
  BY <1>1, <1>2 DEF ToSet, Entering, Rereading, ValidCopy
<1>4. MindInv => MindInv'
  BY DEF MindInv, Has, HasTo
<1>5. QED
  BY <1>2, <1>3, <1>4

\* the task is the same, or it is a new one of a job to be optimised
Renewed ==
    \/ task'.pc = task.pc /\ (task'.same => task.same)
    \/ task' = Fresh /\ status' = status

LEMMA RenewedTask ==
  ASSUME Renewed
  PROVE  /\ ValidTask' => ValidTask \/ (status \in Optimizing /\ status' = status)
         /\ task'.same => task.same \/ (status \in Optimizing /\ status' = status)
         /\ task'.pc = task.pc \/ task'.pc = "none" \/ (status \in Optimizing /\ status' = status)
<1>1. CASE task'.pc = task.pc /\ (task'.same => task.same)
  BY <1>1 DEF ValidTask
<1>2. CASE task' = Fresh /\ status' = status /\ status \in Optimizing
  BY <1>2
<1>3. CASE task' = Fresh /\ status' = status /\ status \notin Optimizing
  BY <1>3 DEF ValidTask, Fresh, NoTask
<1>4. QED
  BY <1>1, <1>2, <1>3 DEF Renewed

LEMMA Harmless ==
  ASSUME TypeOK, JobInv, Scripted', NEW a \in Actor, a # "Mind", Onwards(a), Shift,
         a \in Pilot => ~Matching(a) /\ PilotInv(a)' /\ (Live(a)' => Live(a)),
         UNCHANGED <<pilot, given, told>>, pool' \subseteq pool,
         Renewed, copy'.want = copy.want, copy'.same => copy.same,
         staging' => staging, request' => request
  PROVE  JobInv'
<1>0. Steady /\ Scripted /\ MindInv /\ \A p \in Pilot : PilotInv(p) /\ MatchStatus(p)
  BY DEF JobInv, Steady
<1>1. todo'["Mind"] = todo["Mind"]
  BY Actors DEF Onwards
<1>2. /\ Compared' <=> Compared
      /\ ToSet' <=> ToSet
      /\ Entering' <=> Entering
      /\ Rereading' => Rereading
      /\ Valid' => Valid \/ (status \in Optimizing /\ status' = status)
      /\ MindInv'
  BY <1>0, <1>1, SameCopySteps, RenewedTask DEF Valid
<1>3. \A p \in Pilot : Matching(p)' <=> Matching(p)
  BY DEF Matching
<1>4. Preparing' => Preparing
  BY <1>2, Labels DEF Preparing, Shift
<1>5. Offered' => Offered
  BY <1>2, <1>3 DEF Offered
<1>6. \A p \in Pilot : p # a => (Live(p)' <=> Live(p)) /\ (PilotInv(p) => PilotInv(p)')
                                /\ \A S : Has(p, S)' <=> Has(p, S)
  BY Actors DEF Onwards, Live, PilotInv, Matching, Has, HasTo, Free
<1>7. \A p \in Pilot : PilotInv(p)' /\ (Live(p)' => Live(p))
  BY <1>0, <1>6
<1>8. \A p \in Pilot : Matching(p) => p # a
  OBVIOUS
<1>9. \A b \in {"User", "StalledJobAgent"} : Restarting(b)' => Restarting(b)
  BY Actors DEF Onwards, Restarting, Has
<1>10. Calm => Calm' \/ ~Shift
  BY <1>4, <1>5, <1>7, <1>9, Labels DEF Calm, Shift, Onwards
<1>11. Calm => Calm'
  BY <1>10
<1>12. OneOffer'
  BY <1>0, <1>2, <1>3, <1>4, <1>5 DEF Steady, OneOffer
<1>13. OneLive'
  BY <1>0, <1>4, <1>5, <1>7, <1>11, Labels DEF Steady, OneLive, Shift, Calm
<1>14. OfferStatus'
  <2>1. (task.same \/ copy.same => HasRow)'
    BY <1>0, RenewedTask, Labels DEF Steady, OfferStatus, Shift, HasRow, Optimizing
  <2>2. QED
    BY <1>0, <1>2, <1>4, <2>1, Labels DEF Steady, OfferStatus, Shift, Calm, Offered, Over
<1>15. ASSUME NEW p \in Pilot PROVE MatchStatus(p)'
  <2>1. CASE p = a
    <3>1. ~Matching(p)' /\ ~Has(p, {"check"})'
      BY <1>3, <1>7, <2>1 DEF PilotInv
    <3>2. QED
      BY <3>1 DEF MatchStatus, Past
  <2>2. CASE p # a
    <3>1. /\ Matching(p)' <=> Matching(p)
          /\ Past(p)' <=> Past(p)
          /\ \A S : Has(p, S)' <=> Has(p, S)
      BY <1>3, <1>6, <2>2 DEF Past
    <3>2. Matching(p) => ~Calm
      BY DEF Calm, Offered
    <3>3. Has(p, {"check"}) => Matching(p)
      BY <1>0 DEF PilotInv
    <3>4. QED
      BY <1>0, <3>1, <3>2, <3>3, Labels DEF MatchStatus, Shift, Past
  <2>3. QED
    BY <2>1, <2>2
<1>16. StagedInv'
  BY <1>0, <1>4, <1>5, Labels DEF Steady, StagedInv, Shift, Onwards, Calm
<1>17. Pristine'
  BY <1>0, <1>9, RenewedTask, Labels, Actors DEF Steady, Pristine, Shift, Onwards, Free
<1>18. CalmInv'
  <2>1. /\ Free("StalledJobAgent") => Free("StalledJobAgent")'
        /\ Resuming' => Resuming
    BY Actors DEF Free, Onwards
  <2>2. CASE status' = status /\ (old' => old)
    BY <1>0, <1>9, <1>11, <2>1, <2>2 DEF Steady, CalmInv, Onwards
  <2>3. CASE Shift /\ ~(status' = status /\ (old' => old))
    <3>1. status' \in Over \/ (Calm /\ status' \in {"Running", "Completing", "Stalled", "Rescheduled"})
      BY <2>3 DEF Shift
    <3>2. status' = "Stalled" => Calm
      BY <3>1, Labels
    <3>3. ~Confirming' /\ (old' => status' = "none")
      BY <2>3 DEF Shift, Onwards
    <3>4. Restarting("StalledJobAgent") => status' # "Stalled"
      BY <2>3, Labels DEF Shift
    <3>5. "none" \notin {"Waiting", "Submitting", "Running", "Completing", "Matched", "Rescheduled"}
      OBVIOUS
    <3>6. QED
      BY <1>0, <1>9, <1>11, <2>1, <3>2, <3>3, <3>4, <3>5 DEF Steady, CalmInv
  <2>4. QED
    BY <2>2, <2>3
<1>19. Sealed'
  <2>1. Restarting("User") => ~Calm
    BY DEF Calm
  <2>2. QED
    BY <1>0, <1>9, <2>1, RenewedTask, Labels, Actors
       DEF Steady, Sealed, Shift, Onwards, Free, Restarting
<1>20. QED
  BY <1>2, <1>7, <1>12, <1>13, <1>14, <1>15, <1>16, <1>17, <1>18, <1>19 DEF JobInv, Steady


\* what an actor still has to do once its first step is done
LEMMA AfterDone ==
  ASSUME TodoOK, Scripted, NEW a \in Actor, NEW op, At(a, op), Done(a)
  PROVE  /\ Scripted'
         /\ \A b \in Actor : b # a => todo'[b] = todo[b]
         /\ Head(todo[a]) \in Steps /\ May(a, Head(todo[a])) /\ Head(todo[a]).op = op
         /\ \A S : Has(a, S) <=> op \in S \/ Has(a, S)'
         /\ \A o, S : HasTo(a, o, S) <=> (o = op /\ Arg(a) \in S) \/ HasTo(a, o, S)'
         /\ \A S : Has(a, S)' => \E x \in Steps : x.op \in S /\ Before(Head(todo[a]), x) /\ May(a, x)
         /\ \A o, S : HasTo(a, o, S)' => \E x \in Steps : /\ x.op = o /\ x.to \in S
                                                          /\ Before(Head(todo[a]), x) /\ May(a, x)
         /\ ~Free(a)' => \E x \in Steps : Before(Head(todo[a]), x) /\ May(a, x)
<1> DEFINE h == Head(todo[a])
           r == Tail(todo[a])
<1>1. todo[a] # <<>> /\ h.op = op /\ h.to = Arg(a)
  BY DEF At, Arg
<1>2. /\ h \in Steps /\ May(a, h)
      /\ \A X : Some(todo[a], X) <=> h \in X \/ Some(r, X)
      /\ \A X : Some(r, X) => \E x \in X : x \in Steps /\ Before(h, x) /\ May(a, x)
  BY <1>1, Rest
<1>3. Scripted' /\ todo'[a] = r /\ \A b \in Actor : b # a => todo'[b] = todo[b]
  BY <1>1, StepDone
<1>4. \A S : Has(a, S) <=> h.op \in S \/ Has(a, S)'
  <2>1. \A S : Has(a, S) <=> h \in Ops(S) \/ Some(r, Ops(S))
    BY <1>2 DEF Has
  <2>2. \A S : Has(a, S)' <=> Some(r, Ops(S))
    BY <1>3 DEF Has
  <2> HIDE DEF h, r
  <2>3. QED
    BY <1>2, <2>1, <2>2, OpsIs
<1>5. \A o, S : HasTo(a, o, S) <=> (h.op = o /\ h.to \in S) \/ HasTo(a, o, S)'
  <2>1. \A o, S : HasTo(a, o, S) <=> h \in To(o, S) \/ Some(r, To(o, S))
    BY <1>2 DEF HasTo
  <2>2. \A o, S : HasTo(a, o, S)' <=> Some(r, To(o, S))
    BY <1>3 DEF HasTo
  <2> HIDE DEF h, r
  <2>3. QED
    BY <1>2, <2>1, <2>2, ToIs
<1>6. \A S : Has(a, S)' => \E x \in Steps : x.op \in S /\ Before(h, x) /\ May(a, x)
  <2>1. \A S : Has(a, S)' <=> Some(r, Ops(S))
    BY <1>3 DEF Has
  <2> HIDE DEF h, r
  <2>2. QED
    BY <1>2, <2>1, OpsIs
<1>7. \A o, S : HasTo(a, o, S)' => \E x \in Steps : /\ x.op = o /\ x.to \in S
                                                    /\ Before(h, x) /\ May(a, x)
  <2>1. \A o, S : HasTo(a, o, S)' <=> Some(r, To(o, S))
    BY <1>3 DEF HasTo
  <2> HIDE DEF h, r
  <2>2. QED
    BY <1>2, <2>1, ToIs
<1>8. ~Free(a)' => \E x \in Steps : Before(h, x) /\ May(a, x)
  <2>1. r \in Seq(Steps) /\ (Free(a)' <=> r = <<>>)
    BY <1>1, <1>3, RestOfSteps DEF Free, TodoOK
  <2> HIDE DEF h, r
  <2>2. r # <<>> => \E x \in Steps : Some(r, {x})
    BY <2>1, RestOfSteps
  <2>3. QED
    BY <1>2, <2>1, <2>2
<1>9. QED
  BY <1>1, <1>2, <1>3, <1>4, <1>5, <1>6, <1>7, <1>8

\* ... and when it stops at once
LEMMA AfterGiveUp ==
  ASSUME TodoOK, Scripted, NEW a \in Actor, GiveUp(a)
  PROVE  /\ Scripted' /\ Free(a)'
         /\ \A b \in Actor : b # a => todo'[b] = todo[b]
         /\ \A S : ~Has(a, S)'
         /\ \A o, S : ~HasTo(a, o, S)'
BY StepGiveUp DEF Has, HasTo, Free

\* ... and what it may have when it is free
LEMMA FreeHas ==
  ASSUME NEW a, Free(a)
  PROVE  (\A S : ~Has(a, S)) /\ (\A o, S : ~HasTo(a, o, S))
BY NoStep DEF Free, Has, HasTo

LEMMA HasToHas ==
  ASSUME TodoOK, NEW a \in Actor, NEW op, NEW S, HasTo(a, op, S)
  PROVE  Has(a, {op})
BY OpsIs, ToIs DEF HasTo, Has, Some, To, Ops

\* nobody goes on
LEMMA StillScripted == ASSUME Scripted, UNCHANGED todo PROVE Scripted'
BY DEF Scripted, Script

LEMMA InitJobs == Init /\ TypeOK => JobInv
<1> SUFFICES ASSUME Init, TypeOK PROVE JobInv
  OBVIOUS
<1>1. \A a \in Actor : a # "User" => Free(a)
  BY DEF Init, Free
<1>2. Op("message") \in Steps /\ May("User", Op("message"))
  BY KindsOfSteps DEF May, Op
<1>3. /\ Script("User", todo["User"])
      /\ \A X : Some(todo["User"], X) => Op("message") \in X
  <2>1. todo["User"] \in {<<Op("message")>>, <<>>}
    BY Actors DEF Init
  <2>2. QED
    BY <1>2, <2>1, SingleScript, EmptyScript
<1>4. Scripted
  BY <1>1, <1>3, EmptyScript DEF Scripted, Free
<1>5. /\ \A S : Has("User", S) => "message" \in S
      /\ \A o, S : HasTo("User", o, S) => o = "message"
  BY <1>2, <1>3, OpsIs, ToIs DEF Has, HasTo, Op
<1>6. \A a \in Actor : a # "User" => (\A S : ~Has(a, S)) /\ (\A o, S : ~HasTo(a, o, S))
  BY <1>1, FreeHas
<1>7. /\ status \in {"Submitting", "Received"} /\ ~old
      /\ task.pc = "none" /\ ~task.same /\ ~copy.same /\ copy.want = "none"
      /\ given = 0 /\ ~staging /\ ~request /\ pool = {}
  BY JobsAssumption DEF Init, NoTask, NoCopy, Q!PoolInit
<1>8. \A p \in Pilot : pilot[p] = "idle" /\ Free(p) /\ ~Live(p) /\ ~Matching(p)
  BY <1>1, <1>6, <1>7, Actors DEF Init, Live, Matching
<1>9. /\ ~Valid /\ ~Compared /\ ~Entering /\ ~Offered /\ ~Resuming /\ ~Staged /\ ~Confirming
      /\ ~Restarting("User") /\ ~Restarting("StalledJobAgent") /\ Free("StalledJobAgent")
      /\ ~ToSet /\ ~Rereading
  BY <1>1, <1>5, <1>6, <1>7, <1>8, Actors
     DEF Valid, ValidTask, ValidCopy, Compared, Entering, Offered, Resuming, Staged, Confirming,
         Restarting, ToSet, Rereading
<1>10. MindInv
  BY <1>6, <1>7, Actors DEF MindInv
<1>11. ASSUME NEW p \in Pilot PROVE PilotInv(p) /\ MatchStatus(p)
  BY <1>6, <1>8, Actors DEF PilotInv, MatchStatus, Past
<1>12. OneOffer /\ OneLive /\ OfferStatus
  BY <1>7, <1>8, <1>9 DEF OneOffer, OneLive, OfferStatus, Preparing, Offered, Optimizing, HasRow
<1>13. StagedInv /\ Pristine /\ CalmInv /\ Sealed
  BY <1>1, <1>7, <1>8, <1>9 DEF StagedInv, Pristine, CalmInv, Sealed
<1>14. QED
  BY <1>4, <1>10, <1>11, <1>12, <1>13 DEF JobInv, Steady

\* a step of the pilot that has the job: until it is restarted nobody else is at it
LEMMA LiveStep ==
  ASSUME TypeOK, JobInv, Scripted', NEW p \in Pilot, Live(p),
         \A b \in Actor : b # p => todo'[b] = todo[b],
         \A q \in Pilot : q # p => pilot'[q] = pilot[q],
         PilotInv(p)', ~Matching(p)',
         UNCHANGED <<given, told, staging>>, pool' \subseteq pool,
         task'.pc = task.pc, copy'.want = copy.want,
         \/ status' = status /\ old' = old /\ task'.same = task.same /\ copy'.same = copy.same
         \/ /\ status' \notin Optimizing \cup {"Waiting", "Staging", "Submitting", "Stalled"}
            /\ ~old' /\ ~task'.same /\ ~copy'.same
  PROVE  JobInv'
<1>0. Steady /\ Scripted /\ MindInv /\ \A q \in Pilot : PilotInv(q) /\ MatchStatus(q)
  BY DEF JobInv, Steady
<1>1. todo'["Mind"] = todo["Mind"]
  BY Actors
<1>2. given = 1 /\ ~old /\ ~Offered /\ ~Preparing /\ status \notin {"Waiting", "Staging"}
  BY <1>0 DEF Steady, OneLive
<1>3. \A q \in Pilot : q # p => ~Live(q)
  BY <1>0 DEF Steady, OneLive
<1>4. /\ ~Staged /\ status # "Submitting"
      /\ ~Calm
  BY <1>0, <1>2 DEF Steady, StagedInv, Pristine, Calm
<1>5. Free("StalledJobAgent") /\ status # "Stalled" /\ ~Resuming /\ ~Confirming
  BY <1>0, <1>4 DEF Steady, CalmInv
<1>6. ~Restarting("User")
  BY <1>0, FreeHas, Actors DEF Steady, Sealed, Live
<1>7. /\ Free("StalledJobAgent")' /\ ~Resuming' /\ ~Confirming' /\ ~Restarting("User")' /\ ~Staged'
      /\ ~Restarting("StalledJobAgent")'
  <2>1. \A b \in {"User", "Mind", "StalledJobAgent", "RMS", "Stager"} : todo'[b] = todo[b]
    BY Actors
  <2>2. ~Restarting("StalledJobAgent")
    BY <1>5, FreeHas DEF Restarting
  <2>3. QED
    BY <1>4, <1>5, <1>6, <2>1, <2>2
       DEF Free, Resuming, Confirming, Restarting, Staged, Has, HasTo
<1>8. /\ Compared' <=> Compared
      /\ ToSet' <=> ToSet
      /\ Entering' <=> Entering
      /\ Rereading' => Rereading
      /\ Valid' => Valid
      /\ MindInv'
  BY <1>0, <1>1, SameMindSteps
<1>9. ~Preparing'
  BY <1>2, <1>8 DEF Preparing
<1>10. \A q \in Pilot : ~Matching(q)'
  BY <1>2 DEF Matching, Offered
<1>11. ~Offered'
  BY <1>2, <1>8, <1>10 DEF Offered
<1>12. \A q \in Pilot : q # p => ~Live(q)' /\ PilotInv(q)'
  BY <1>0, <1>3, Actors DEF Live, PilotInv, Matching, Has, HasTo, Free
<1>13. \A q \in Pilot : PilotInv(q)'
  BY <1>12
<1>14. OneOffer'
  BY <1>9, <1>10, <1>11 DEF OneOffer, Offered
<1>15. /\ status' \notin Optimizing \cup {"Waiting", "Staging", "Submitting", "Stalled"}
       /\ ~old'
  BY <1>2, <1>4, <1>5 DEF Preparing
<1>16. OneLive'
  BY <1>2, <1>9, <1>11, <1>12, <1>15 DEF OneLive
<1>17. OfferStatus'
  <2>1. task'.same \/ copy'.same => HasRow'
    BY <1>0 DEF Steady, OfferStatus, HasRow
  <2>2. QED
    BY <2>1, <1>9, <1>11 DEF OfferStatus, Offered
<1>18. ASSUME NEW q \in Pilot PROVE MatchStatus(q)'
  <2>1. ~Has(q, {"check"})'
    BY <1>10, <1>13 DEF PilotInv
  <2>2. QED
    BY <1>10, <2>1 DEF MatchStatus, Past
<1>19. StagedInv' /\ Pristine' /\ CalmInv' /\ Sealed'
  BY <1>7, <1>15 DEF StagedInv, Pristine, CalmInv, Sealed
<1>20. QED
  BY <1>8, <1>13, <1>14, <1>16, <1>17, <1>18, <1>19 DEF JobInv, Steady

\* a service, or a user, begins something, and the row is as it was
LEMMA ServiceBegins ==
  ASSUME TypeOK, JobInv, Scripted', NEW a \in Service, a # "Mind", Free(a),
         \A b \in Actor : b # a => todo'[b] = todo[b],
         UNCHANGED <<status, old, task, copy, pilot, given, pool, told>>,
         staging' => staging, request' => request,
         status = "Submitting" => a = "User",
         Staged' => Staged,
         a = "StalledJobAgent" => Calm,
         a = "StalledJobAgent" /\ Restarting(a)' => status # "Stalled" /\ ~Resuming,
         a = "RMS" /\ Resuming' => status = "Stalled",
         a = "User" /\ Confirming' => status = "Submitting",
         a = "User" /\ Restarting(a)' =>
                                /\ status \in Over /\ \A b \in Actor : b # "User" => Free(b)
                                /\ task.pc = "none" /\ J \notin pool
                                /\ \A p \in Pilot : pilot[p] = "idle"
  PROVE  JobInv'
<1>0. Steady /\ Scripted /\ MindInv /\ \A p \in Pilot : PilotInv(p) /\ MatchStatus(p)
  BY DEF JobInv, Steady
<1>1. /\ a \in Actor /\ a \notin Pilot
      /\ \A p \in Pilot : p \in Actor /\ todo'[p] = todo[p]
      /\ todo'["Mind"] = todo["Mind"]
  BY PilotsAssumption DEF Actor, Service
<1>2. /\ Compared' <=> Compared
      /\ ToSet' <=> ToSet
      /\ Entering' <=> Entering
      /\ Rereading' => Rereading
      /\ Valid' => Valid
      /\ MindInv'
  BY <1>0, <1>1, SameMindSteps
<1>3. \A p \in Pilot : /\ Matching(p)' <=> Matching(p)
                       /\ Live(p)' <=> Live(p)
                       /\ PilotInv(p) => PilotInv(p)'
                       /\ \A S : Has(p, S)' <=> Has(p, S)
                       /\ MatchStatus(p) => MatchStatus(p)'
  BY <1>1 DEF Live, PilotInv, Matching, Has, HasTo, Free, MatchStatus, Past
<1>4. (Preparing' => Preparing) /\ (Offered' => Offered)
  BY <1>2, <1>3 DEF Preparing, Offered
<1>5. OneOffer'
  BY <1>0, <1>2, <1>3, <1>4 DEF Steady, OneOffer
<1>6. OneLive'
  BY <1>0, <1>3, <1>4 DEF Steady, OneLive
<1>7. OfferStatus'
  BY <1>0, <1>2, <1>4 DEF Steady, OfferStatus, HasRow
<1>8. StagedInv'
  BY <1>0, <1>4 DEF Steady, StagedInv
<1>9. Pristine'
  <2>1. Restarting("User")' => status # "Submitting"
    BY Labels
  <2>2. a = "User" => \A b \in Actor : b # "User" => todo'[b] = todo[b]
    OBVIOUS
  <2>3. QED
    BY <1>0, <2>1, <2>2 DEF Steady, Pristine, Free
<1>10. /\ a # "User" => (Confirming' <=> Confirming) /\ (Restarting("User")' <=> Restarting("User"))
       /\ a # "StalledJobAgent" =>
              /\ Free("StalledJobAgent")' <=> Free("StalledJobAgent")
              /\ Restarting("StalledJobAgent")' <=> Restarting("StalledJobAgent")
       /\ a # "RMS" => (Resuming' <=> Resuming)
       /\ ~Restarting(a) /\ (a = "User" => ~Confirming) /\ (a = "RMS" => ~Resuming)
  BY Actors, FreeHas DEF Confirming, Restarting, Resuming, Has, HasTo, Free
<1>11. CalmInv'
  <2> DEFINE B == \/ status = "Stalled"
                  \/ old /\ status \in {"Running", "Completing", "Matched", "Rescheduled"}
             F == Free("StalledJobAgent")'
             R == Resuming'
             C == Calm'
  <2>1. ~F \/ R \/ B => Calm
    BY <1>0, <1>10 DEF Steady, CalmInv
  <2>2. ASSUME ~F \/ R \/ B, a = "User", Calm PROVE ~Confirming' /\ ~Restarting("User")'
    <3>1. ASSUME status = "Submitting" PROVE Free("StalledJobAgent")' /\ ~Resuming'
      <4>1. Free("StalledJobAgent") /\ Free("RMS")
        BY <1>0, <3>1, Actors DEF Steady, Pristine
      <4>2. ~Resuming
        BY <4>1, FreeHas DEF Resuming
      <4>3. QED
        BY <1>10, <2>2, <4>1, <4>2
    <3>2. ASSUME a = "User", Restarting("User")' PROVE Free("StalledJobAgent")' /\ ~Resuming'
      <4>1. Free("StalledJobAgent") /\ Free("RMS")
        BY <3>2, Actors
      <4>2. ~Resuming
        BY <4>1, FreeHas DEF Resuming
      <4>3. QED
        BY <1>10, <3>2, <4>1, <4>2
    <3>3. "Submitting" \notin {"Running", "Completing", "Matched", "Rescheduled", "Stalled"}
      OBVIOUS
    <3>4. QED
      BY <2>2, <3>1, <3>2, <3>3, Labels
  <2>3. Calm /\ a # "User" => Calm'
    BY <1>2, <1>3, <1>4, <1>10 DEF Calm
  <2>4. Calm /\ ~Confirming' /\ ~Restarting("User")' => Calm'
    BY <1>2, <1>3, <1>4 DEF Calm
  <2>5. (Resuming /\ old => status \in {"Stalled", "none"})'
    BY <1>0, <1>10 DEF Steady, CalmInv
  <2>6. (Restarting("StalledJobAgent") => status # "Stalled" /\ ~Resuming)'
    BY <1>0, <1>10 DEF Steady, CalmInv
  <2>7. (Confirming => status = "Submitting")'
    BY <1>0, <1>10 DEF Steady, CalmInv
  <2>8. (old => status \notin {"Waiting", "Submitting"})'
    BY <1>0 DEF Steady, CalmInv
  <2>9. (\/ ~Free("StalledJobAgent")
         \/ status = "Stalled"
         \/ Resuming
         \/ old /\ status \in {"Running", "Completing", "Matched", "Rescheduled"}
         => Calm)'
    <3>1. B' <=> B
      OBVIOUS
    <3>4. ~F \/ R \/ B => C
      <4> HIDE DEF B, F, R, C
      <4>1. (Calm /\ a # "User" => C) /\ (Calm /\ ~Confirming' /\ ~Restarting("User")' => C)
        BY <2>3, <2>4 DEF C
      <4>2. QED
        BY <2>1, <2>2, <4>1
    <3>5. QED
      BY <3>1, <3>4
  <2>10. QED
    BY <2>5, <2>6, <2>7, <2>8, <2>9 DEF CalmInv
<1>12. Sealed'
  <2>1. CASE a = "User"
    <3>1. ASSUME Restarting("User")' PROVE ~Resuming' /\ ~Staged'
      BY <3>1, <2>1, <1>10, Actors, FreeHas DEF Resuming, Staged
    <3>2. ASSUME Restarting("User")'
          PROVE  /\ Free("StalledJobAgent")' /\ Free("Mind")'
                 /\ \A p \in Pilot : Free(p)'
      BY <3>2, <2>1, <1>1, <1>10, Actors DEF Free
    <3>3. QED
      BY <2>1, <3>1, <3>2 DEF Sealed
  <2>2. CASE a # "User"
    <3>1. ~(Restarting("User") /\ Calm)
      BY DEF Calm
    <3>2. Restarting("User") => status # "Stalled"
      BY <1>0, Labels DEF Steady, Sealed
    <3>3. Restarting("User") => a # "StalledJobAgent" /\ ~Resuming'
      <4>1. Restarting("User") => ~Resuming
        BY <1>0 DEF Steady, Sealed
      <4>2. QED
        BY <1>10, <3>1, <3>2, <4>1
    <3>4. Free("Mind")' <=> Free("Mind")
      BY <1>1 DEF Free
    <3>5. \A p \in Pilot : Free(p)' <=> Free(p)
      BY <1>1 DEF Free
    <3>6. QED
      BY <1>0, <1>10, <2>2, <3>3, <3>4, <3>5 DEF Steady, Sealed
  <2>3. QED
    BY <2>1, <2>2
<1>13. QED
  BY <1>0, <1>2, <1>3, <1>5, <1>6, <1>7, <1>8, <1>9, <1>11, <1>12 DEF JobInv, Steady

\* the job is started again: nobody offers it, nobody has it
LEMMA Restarted ==
  ASSUME TypeOK, JobInv, NEW a \in {"User", "StalledJobAgent"} \cup Pilot,
         At(a, "restart"), Done(a), Touch,
         status' = "Received", ~old', given' = 0,
         UNCHANGED <<pilot, pool, told, staging, request>>
  PROVE  JobInv'
<1>0. Steady /\ Scripted /\ MindInv /\ \A p \in Pilot : PilotInv(p) /\ MatchStatus(p)
  BY DEF JobInv, Steady
<1>1. a \in Actor /\ TodoOK /\ a # "Mind" /\ a # "RMS" /\ a # "Stager"
  BY Actors, TypeParts
<1>2. /\ Scripted'
      /\ \A b \in Actor : b # a => todo'[b] = todo[b]
      /\ \A S : Has(a, S) <=> "restart" \in S \/ Has(a, S)'
      /\ \A o, S : HasTo(a, o, S) <=> (o = "restart" /\ Arg(a) \in S) \/ HasTo(a, o, S)'
      /\ \A S : Has(a, S)' => "message" \in S
      /\ \A o, S : HasTo(a, o, S)' => o = "message"
      /\ a = "StalledJobAgent" => Free(a)'
  <2>1. \A x \in Steps : Before(Head(todo[a]), x) => x.op = "message"
    BY <1>0, <1>1, AfterDone DEF Before
  <2>2. a = "StalledJobAgent" => \A x \in Steps : ~(x.op = "message" /\ May(a, x))
    BY Actors DEF May
  <2>3. QED
    BY <1>0, <1>1, <2>1, <2>2, AfterDone
<1>3. Has(a, {"restart"}) /\ Restarting(a)
  BY <1>2 DEF Restarting
<1>4. /\ ~Valid /\ ~ToSet /\ ~Rereading /\ ~Offered
      /\ \A p \in Pilot : p # a => ~Live(p)
      /\ ~Staged /\ status # "Submitting" /\ ~Resuming
      /\ a # "StalledJobAgent" => Free("StalledJobAgent")
      /\ a # "User" => ~Restarting("User")
      /\ a \in Pilot => pilot[a] = "idle"
  <2>1. CASE a = "User"
    <3>1. /\ status \in Over
          /\ Free("StalledJobAgent") /\ Free("Mind") /\ \A p \in Pilot : Free(p)
          /\ task.pc = "none" /\ J \notin pool
          /\ \A p \in Pilot : pilot[p] = "idle"
          /\ ~Staged /\ ~Resuming
      BY <1>0, <1>3, <2>1 DEF Steady, Sealed
    <3>2. \A S : ~Has("Mind", S)
      BY <3>1, FreeHas
    <3>3. \A p \in Pilot : ~Live(p) /\ ~Matching(p)
      BY <3>1, FreeHas DEF Live, Matching
    <3>4. QED
      BY <2>1, <3>1, <3>2, <3>3, Labels, Actors
         DEF Valid, ValidTask, ValidCopy, ToSet, Rereading, Offered, Entering, Compared
  <2>2. CASE a = "StalledJobAgent"
    <3>1. ~Free(a)
      BY <1>3, FreeHas
    <3>2. Calm /\ ~Resuming
      BY <1>0, <1>3, <2>2, <3>1 DEF Steady, CalmInv
    <3>3. status # "Submitting"
      BY <1>0, <2>2, <3>1, Actors DEF Steady, Pristine
    <3>4. QED
      BY <2>2, <3>2, <3>3, Actors DEF Calm, Preparing
  <2>3. CASE a \in Pilot
    <3>1. pilot[a] = "idle" /\ Live(a)
      <4>1. pilot[a] = "idle"
        BY <1>0, <1>2, <2>3 DEF PilotInv
      <4>2. Has(a, {"set", "report", "write", "reschedule", "restart"})
        BY <1>2
      <4>3. QED
        BY <4>1, <4>2 DEF Live
    <3>2. given = 1 /\ ~Offered /\ ~Preparing /\ \A p \in Pilot : p # a => ~Live(p)
      BY <1>0, <2>3, <3>1 DEF Steady, OneLive
    <3>3. ~Staged /\ status # "Submitting" /\ ~Calm
      BY <1>0, <2>3, <3>1, <3>2 DEF Steady, StagedInv, Pristine, Calm
    <3>4. Free("StalledJobAgent") /\ ~Resuming
      BY <1>0, <3>3 DEF Steady, CalmInv
    <3>5. ~Restarting("User")
      <4>1. ~Free(a)
        BY <1>3, FreeHas DEF Restarting
      <4>2. QED
        BY <1>0, <2>3, <4>1 DEF Steady, Sealed
    <3>6. QED
      BY <2>3, <3>1, <3>2, <3>3, <3>4, <3>5 DEF Preparing
  <2>4. QED
    BY <2>1, <2>2, <2>3
<1>5. /\ task'.pc = task.pc /\ copy'.want = copy.want /\ ~task'.same /\ ~copy'.same
  BY TypeParts DEF Touch, MindOK
<1>6. todo'["Mind"] = todo["Mind"]
  BY <1>1, <1>2, Actors
<1>7. /\ ~Compared' <=> ~Compared
      /\ ~ToSet' /\ ~Entering' /\ ~Rereading' /\ ~Valid'
      /\ MindInv'
  BY <1>0, <1>4, <1>5, <1>6, SameMindSteps DEF Offered
<1>8. \A p \in Pilot : ~Matching(p) /\ ~Matching(p)'
  BY <1>4 DEF Matching, Offered
<1>9. ~Offered'
  BY <1>4, <1>7, <1>8 DEF Offered
<1>10. ASSUME NEW p \in Pilot PROVE PilotInv(p)' /\ ~Live(p)' /\ MatchStatus(p)'
  <2>1. PilotInv(p)' /\ ~Live(p)'
    <3>1. CASE p # a
      BY <1>0, <1>2, <1>4, <3>1, Actors DEF Live, PilotInv, Matching, Has, HasTo, Free
    <3>2. CASE p = a
      <4>1. pilot'[p] = "idle"
        BY <1>4, <3>2
      <4>2. QED
        BY <1>2, <3>2, <4>1, <1>8 DEF Live, PilotInv, Matching
    <3>3. QED
      BY <3>1, <3>2
  <2>2. MatchStatus(p)'
    BY <2>1, <1>8 DEF MatchStatus, Past, PilotInv
  <2>3. QED
    BY <2>1, <2>2
<1>11. Free("StalledJobAgent")'
  BY <1>2, <1>4, Actors DEF Free
<1>12. /\ ~Staged' /\ ~Resuming' /\ ~Confirming' /\ ~Restarting("User")'
       /\ ~Restarting("StalledJobAgent")'
  <2>1. ~Confirming
    BY <1>0, <1>4 DEF Steady, CalmInv
  <2>2. ~Staged' /\ ~Resuming'
    BY <1>1, <1>2, <1>4, Actors DEF Staged, Resuming, Has, HasTo
  <2>3. ASSUME a = "User" PROVE ~Confirming' /\ ~Restarting("User")'
    BY <1>2, <2>3 DEF Confirming, Restarting
  <2>4. ASSUME a # "User" PROVE ~Confirming' /\ ~Restarting("User")'
    BY <1>2, <1>4, <2>1, <2>4, Actors DEF Confirming, Restarting, Has, HasTo
  <2>5. ~Restarting("StalledJobAgent")'
    <3>1. CASE a = "StalledJobAgent"
      BY <1>2, <3>1 DEF Restarting
    <3>2. CASE a # "StalledJobAgent"
      BY <1>2, <1>4, <3>2, FreeHas, Actors DEF Restarting, Has
    <3>3. QED
      BY <3>1, <3>2
  <2>6. QED
    BY <2>2, <2>3, <2>4, <2>5
<1>13. OneOffer' /\ OneLive'
  BY <1>8, <1>9, <1>10 DEF OneOffer, OneLive, Offered
<1>14. OfferStatus'
  BY <1>5, <1>9 DEF OfferStatus, Offered, Optimizing
<1>15. StagedInv' /\ Pristine' /\ CalmInv' /\ Sealed'
  BY <1>11, <1>12 DEF StagedInv, Pristine, CalmInv, Sealed
<1>16. QED
  BY <1>2, <1>7, <1>10, <1>13, <1>14, <1>15 DEF JobInv, Steady

-----------------------------------------------------------------------------
(***************************************************************************)
(* The steps of services and agents.                                       *)
(***************************************************************************)
LEMMA GoesOn ==
  ASSUME TypeOK, JobInv, NEW a \in Actor, a # "Mind", NEW op, At(a, op),
         (Done(a) /\ op # "await") \/ GiveUp(a), Shift,
         a \in Pilot => ~Matching(a),
         UNCHANGED <<pilot, given, told>>, pool' \subseteq pool,
         Renewed, copy'.want = copy.want, copy'.same => copy.same,
         staging' => staging, request' => request
  PROVE  JobInv'
<1>0. TodoOK /\ Scripted /\ todo[a] # <<>> /\ \A p \in Pilot : PilotInv(p)
  BY TypeParts DEF JobInv, At
<1>1. /\ Scripted'
      /\ \A b \in Actor : b # a => todo'[b] = todo[b]
      /\ \A S : Has(a, S)' => Has(a, S)
      /\ \A o, S : HasTo(a, o, S)' => HasTo(a, o, S)
      /\ Free(a)' \/ (op # "await" /\ \A S : Has(a, S) <=> op \in S \/ Has(a, S)')
  BY <1>0, AfterDone, AfterGiveUp
<1>2. Staged' => Staged
  <2>1. CASE a = "Stager"
    <3>1. \A S : Free(a)' => ~Has(a, S)'
      BY NoStep DEF Free, Has
    <3>2. HasTo(a, "report", {"Checking"})' => Has(a, {"report"})'
      <4>1. TodoOK'
        BY <1>0, DoneOK, GiveUpOK
      <4>2. QED
        BY <4>1, OpsIs, ToIs DEF HasTo, Has, Some, To, Ops
    <3>3. QED
      BY <1>1, <2>1, <3>1, <3>2 DEF Staged
  <2>2. CASE a # "Stager"
    BY <1>1, <2>2, Actors DEF Staged, Has, HasTo
  <2>3. QED
    BY <2>1, <2>2
<1>3. Confirming' => Confirming
  <2>1. a = "User" \/ todo'["User"] = todo["User"]
    BY <1>1, Actors
  <2>2. QED
    BY <1>1, <2>1 DEF Confirming, HasTo
<1>4. Resuming' => Resuming
  <2>1. a = "RMS" \/ todo'["RMS"] = todo["RMS"]
    BY <1>1, Actors
  <2>2. QED
    BY <1>1, <2>1 DEF Resuming, HasTo
<1>5. Onwards(a)
  BY <1>0, <1>1, <1>2, <1>3, <1>4 DEF Onwards, Restarting
<1>6. a \in Pilot => PilotInv(a)' /\ (Live(a)' => Live(a))
  <2> SUFFICES ASSUME a \in Pilot PROVE PilotInv(a)' /\ (Live(a)' => Live(a))
    OBVIOUS
  <2>1. PilotInv(a) /\ ~Matching(a) /\ ~Matching(a)'
    BY <1>0 DEF Matching
  <2>2. pilot'[a] = pilot[a] /\ pilot[a] # "assigned"
    BY <1>0, <2>1 DEF PilotInv, Free
  <2>3. PilotInv(a)'
    BY <1>1, <2>1, <2>2 DEF PilotInv, Matching
  <2>4. QED
    BY <1>1, <2>2, <2>3 DEF Live
<1>7. QED
  BY <1>1, <1>5, <1>6, Harmless

LEMMA Touched ==
  ASSUME TypeOK, Touch
  PROVE  /\ Renewed
         /\ task'.pc = task.pc /\ copy'.want = copy.want /\ task'.want = task.want
         /\ ~task'.same /\ ~copy'.same
BY TypeParts DEF Touch, MindOK, Renewed

LEMMA SameMindIs ==
  ASSUME UNCHANGED mind
  PROVE  task' = task /\ copy' = copy /\ Renewed
BY DEF mind, Renewed

LEMMA Unmoved ==
  ASSUME UNCHANGED status, UNCHANGED old
  PROVE  Shift /\ (UNCHANGED task => Renewed)
BY DEF Shift, Renewed

\* whose a step is
LEMMA Whose ==
  ASSUME TypeOK, JobInv, NEW a \in Actor, NEW op, At(a, op)
  PROVE  Head(todo[a]) \in Steps /\ Head(todo[a]).op = op /\ May(a, Head(todo[a])) /\ todo[a] # <<>>
BY TypeParts, Rest DEF JobInv, At

\* a matching pilot only looks at the job and sets its status
LEMMA MatchingOps ==
  ASSUME TypeOK, JobInv, NEW p \in Pilot, Matching(p), NEW op, At(p, op)
  PROVE  op \notin {"report", "dequeue", "reschedule", "restart", "message", "beat", "restore", "obey"}
<1>1. Has(p, {op})
  <2>1. TodoOK /\ Scripted /\ p \in Actor /\ todo[p] # <<>> /\ Head(todo[p]).op = op
    BY TypeParts, Actors DEF JobInv, At
  <2>2. Head(todo[p]) \in Ops({op})
    BY <2>1, Rest, OpsIs
  <2>3. QED
    BY <2>1, <2>2, Rest DEF Has
<1>2. PilotInv(p)
  BY DEF JobInv
<1>3. op \in {"report", "dequeue", "reschedule", "restart", "message"} =>
          Has(p, {"report", "dequeue", "reschedule", "restart", "message"})
  BY <1>1 DEF Has, Some, Ops
<1>4. op \in {"beat", "restore", "obey"} => Has(p, {"beat", "restore", "obey"})
  BY <1>1 DEF Has, Some, Ops
<1>5. QED
  BY <1>2, <1>3, <1>4 DEF PilotInv, Matching

LEMMA RestartJobStep ==
  ASSUME TypeOK, JobInv, NEW a \in Actor, RestartJob(a)
  PROVE  JobInv'
<1>0. /\ At(a, "restart") /\ a \in Pilot \cup {"User", "StalledJobAgent"} /\ a # "Mind"
      /\ UNCHANGED <<pilot, pool, told, staging, request>>
  BY Whose, Actors DEF RestartJob, May, others, queue
<1>1. CASE HasRow
  BY <1>0, <1>1, Restarted DEF RestartJob
<1>2. CASE ~HasRow
  <2>1. GiveUp(a) /\ UNCHANGED <<status, old, given, task, copy>>
    BY <1>2 DEF RestartJob, mind
  <2>2. a \in Pilot => ~Matching(a)
    BY <1>0, MatchingOps
  <2>3. QED
    BY <1>0, <2>1, <2>2, Unmoved, GoesOn
<1>3. QED
  BY <1>1, <1>2

LEMMA ResetCounterStep ==
  ASSUME TypeOK, JobInv, NEW a \in Actor, ResetCounter(a)
  PROVE  JobInv'
<1>0. At(a, "zero") /\ a = "User"
  BY Whose DEF ResetCounter, May
<1>1. QED
  BY <1>0, Unmoved, GoesOn, Actors DEF ResetCounter, mind, worker, others, queue

LEMMA DequeueStep ==
  ASSUME TypeOK, JobInv, NEW a \in Actor, Dequeue(a)
  PROVE  JobInv'
<1>0. At(a, "dequeue") /\ a \in Pilot \cup Janitors /\ a # "Mind"
  BY Whose, Actors DEF Dequeue, May, Janitors
<1>1. a \in Pilot => ~Matching(a)
  BY <1>0, MatchingOps
<1>2. pool' \subseteq pool /\ told' = told
  BY DEF Dequeue, Q!Remove, queue
<1>3. QED
  BY <1>0, <1>1, <1>2, Unmoved, GoesOn DEF Dequeue, row, mind, worker, others

LEMMA SetJobCommandStep ==
  ASSUME TypeOK, JobInv, NEW a \in Actor, SetJobCommand(a)
  PROVE  JobInv'
<1>0. At(a, "command") /\ a \in Janitors /\ a # "Mind" /\ a \notin Pilot
  BY Whose, Actors DEF SetJobCommand, May, Janitors
<1>1. QED
  BY <1>0, Unmoved, GoesOn DEF SetJobCommand, mind, worker, others, queue

LEMMA KillStagingStep ==
  ASSUME TypeOK, JobInv, NEW a \in Actor, KillStaging(a)
  PROVE  JobInv'
<1>0. At(a, "unstage") /\ a \in Janitors /\ a # "Mind" /\ a \notin Pilot
  BY Whose, Actors DEF KillStaging, May, Janitors
<1>1. QED
  BY <1>0, Unmoved, GoesOn DEF KillStaging, row, mind, worker, queue

LEMMA DeleteDescriptionStep ==
  ASSUME TypeOK, JobInv, NEW a \in Actor, DeleteDescription(a)
  PROVE  JobInv'
<1>0. At(a, "deleteDescription") /\ a = "JobCleaningAgent" /\ a \notin Pilot
  BY Whose, Actors DEF DeleteDescription, May
<1>1. QED
  BY <1>0, Unmoved, GoesOn DEF DeleteDescription, mind, worker, others, queue

LEMMA RecheckStep ==
  ASSUME TypeOK, JobInv, NEW a \in Actor, Recheck(a)
  PROVE  JobInv'
<1>0. At(a, "recheck") /\ a = "StalledJobAgent" /\ a \notin Pilot
  BY Whose, Actors DEF Recheck, May
<1>1. QED
  BY <1>0, Unmoved, GoesOn DEF Recheck, row, mind, worker, others, queue

\* while a submission is confirmed nobody else is at the job
LEMMA AloneWhenConfirming ==
  ASSUME TypeOK, JobInv, NEW a \in Actor, a # "User", todo[a] # <<>>
  PROVE  ~Confirming /\ status # "Submitting"
BY DEF JobInv, Steady, CalmInv, Pristine, Free

LEMMA DeleteRowStep ==
  ASSUME TypeOK, JobInv, NEW a \in Actor, DeleteRow(a)
  PROVE  JobInv'
<1>0. At(a, "deleteRow") /\ a = "JobCleaningAgent" /\ a \notin Pilot /\ todo[a] # <<>>
  BY Whose, Actors DEF DeleteRow, May
<1>1. ~Confirming
  BY <1>0, AloneWhenConfirming
<1>2. /\ Renewed /\ copy'.want = copy.want
      /\ ~task'.same /\ ~copy'.same
  BY Touched DEF DeleteRow
<1>3. Shift
  BY <1>1, <1>2 DEF DeleteRow, Shift, Over
<1>4. QED
  BY <1>0, <1>2, <1>3, GoesOn DEF DeleteRow, worker, others, queue

LEMMA ServiceStores ==
  ASSUME Orderly, NEW a \in Service, NEW s, Store(a, s)
  PROVE  Done(a) /\ status' = s /\ ~old' /\ Touch
BY PilotsAssumption DEF Orderly, Store, Put

LEMMA SetStatusOfJanitor ==
  ASSUME TypeOK, JobInv, Orderly, NEW a \in Janitors, SetStatus(a), Arg(a) # "Received"
  PROVE  JobInv'
<1>0. /\ At(a, "set") /\ a \in Actor /\ a \in Service /\ a # "Mind" /\ a \notin Pilot
      /\ todo[a] # <<>>
  BY Whose, Actors DEF SetStatus, Janitors, Service, At, Actor
<1>1. UNCHANGED <<pilot, given, told, pool, staging, request>>
  BY DEF SetStatus, worker, others, queue
<1>2. CASE HasRow
  <2> DEFINE s == NextState(status, Arg(a))
  <2>1. Store(a, s)
    BY <1>2 DEF SetStatus
  <2>2. Done(a) /\ status' = s /\ ~old' /\ Touch
    BY <1>0, <2>1, ServiceStores
  <2>3. /\ Renewed /\ task'.pc = task.pc /\ copy'.want = copy.want
        /\ ~task'.same /\ ~copy'.same
    BY <2>2, Touched
  <2>4. Shift
    <3>1. CASE s = status
      BY <2>2, <3>1 DEF Shift
    <3>2. CASE s # status
      <4>1. s = Arg(a)
        BY <3>2, NextStateIs
      <4>2. /\ MaySet(a, Arg(a)) /\ Head(todo[a]).op = "set"
            /\ \A b : b \in Janitors /\ b # "User" => b \in Actor
        BY <1>0, Whose, Actors DEF May, Arg, Janitors
      <4>3. ~Confirming
        <5>1. CASE a # "User"
          BY <1>0, <5>1, AloneWhenConfirming
        <5>2. CASE a = "User"
          <6>1. Confirming => status = "Submitting" /\ HasTo("User", "set", {"Received"})
            BY DEF JobInv, Steady, CalmInv, Confirming
          <6>2. Confirming => HasTo("User", "set", {"Received"})'
            BY <1>0, <2>2, <5>2, <6>1, AfterDone, TypeParts DEF JobInv
          <6>3. Confirming => Arg(a) = "Killed"
            BY <1>0, <2>2, <5>2, <6>2, AfterDone, TypeParts DEF JobInv, Before, Arg
          <6>4. NextState("Submitting", "Killed") = "Submitting"
            BY DEF NextState, Transitions
          <6>5. QED
            BY <3>2, <6>1, <6>3, <6>4
        <5>3. QED
          BY <5>1, <5>2
      <4>4. CASE Arg(a) \in {"Killed", "Deleted", "Failed"}
        BY <2>2, <2>3, <4>1, <4>3, <4>4 DEF Shift, Over
      <4>5. CASE a = "StalledJobAgent" /\ Arg(a) = "Stalled"
        <5>1. Calm
          BY <1>0, <4>5 DEF JobInv, Steady, CalmInv, Free
        <5>2. ~Restarting(a)
          BY <1>0, <2>2, AfterDone, TypeParts DEF JobInv, Before, Restarting
        <5>3. QED
          BY <2>2, <2>3, <4>1, <4>3, <4>5, <5>1, <5>2 DEF Shift, Over
      <4>6. QED
        BY <1>0, <4>2, <4>4, <4>5, Actors DEF MaySet
    <3>3. QED
      BY <3>1, <3>2
  <2>5. QED
    BY <1>0, <1>1, <2>2, <2>3, <2>4, GoesOn
<1>3. CASE ~HasRow
  <2>1. (Done(a) \/ GiveUp(a)) /\ UNCHANGED <<status, old, mind>>
    BY <1>3 DEF SetStatus, Nothing
  <2>2. QED
    BY <1>0, <1>1, <2>1, Unmoved, SameMindIs, GoesOn
<1>4. QED
  BY <1>2, <1>3

\* what a report of a status makes of the status
LEMMA Reported ==
  ASSUME NEW c, NEW s, c # "none"
  PROVE  LET current == IF c = "Stalled" THEN "Running" ELSE c
             n == IF s = "none" THEN current ELSE NextState(current, s)
         IN  n \in {c, s} \/ (c = "Stalled" /\ n \in {"Running", s})
BY NextStateIs

LEMMA ReportOfRequest ==
  ASSUME TypeOK, JobInv, Orderly, ReportStatus("RMS")
  PROVE  JobInv'
<1>0. /\ At("RMS", "report") /\ "RMS" \in Actor /\ "RMS" \in Service /\ "RMS" \notin Pilot
      /\ todo["RMS"] # <<>>
  BY Whose, Actors DEF ReportStatus, Service, At
<1>1. UNCHANGED <<pilot, given, told, pool, staging, request>>
  BY DEF ReportStatus, worker, others, queue
<1>2. CASE HasRow
  <2> DEFINE current == IF status = "Stalled" THEN "Running" ELSE status
             s == IF Arg("RMS") = "none" THEN current ELSE NextState(current, Arg("RMS"))
  <2>1. Store("RMS", s)
    BY <1>2 DEF ReportStatus
  <2>2. Done("RMS") /\ status' = s /\ ~old' /\ Touch
    BY <1>0, <2>1, ServiceStores
  <2>3. /\ Renewed /\ task'.pc = task.pc /\ copy'.want = copy.want
        /\ ~task'.same /\ ~copy'.same
    BY <2>2, Touched
  <2>4. MayReport("RMS", Arg("RMS")) /\ Head(todo["RMS"]).op = "report"
    BY <1>0, Whose DEF May, Arg
  <2>5. Arg("RMS") \in {"Done", "Failed", "Running", "Completing", "none"}
    BY <1>0, <2>4 DEF MayReport
  <2>6. Arg("RMS") \in {"Running", "Completing"} => Resuming
    BY <1>0, <2>2, AfterDone, TypeParts DEF JobInv, Resuming
  <2>7. Steady
    BY DEF JobInv
  <2>8. s \in {status, Arg("RMS")} \/ (status = "Stalled" /\ s \in {"Running", Arg("RMS")})
    BY <1>2, Reported DEF HasRow
  <2>9. status = "Stalled" \/ Resuming => Calm
    BY <2>7 DEF Steady, CalmInv
  <2>10. ~Confirming
    BY <1>0, AloneWhenConfirming
  <2>11. Restarting("StalledJobAgent") /\ (status = "Stalled" \/ Resuming) => FALSE
    BY <2>7 DEF Steady, CalmInv
  <2>12. Arg("RMS") = "none" /\ s # status => status = "Stalled" /\ s = "Running"
    OBVIOUS
  <2>13. Shift
    <3> HIDE DEF s, current
    <3>1. CASE s = status
      BY <2>2, <3>1 DEF Shift
    <3>2. CASE s \in {"Done", "Failed"}
      BY <2>2, <2>3, <2>10, <3>2 DEF Shift, Over
    <3>3. CASE s # status /\ s \notin {"Done", "Failed"}
      <4>1. s \in {"Running", "Completing"} /\ Calm
        BY <2>5, <2>6, <2>8, <2>9, <2>12, <3>3
      <4>2. QED
        BY <2>2, <2>3, <2>10, <4>1 DEF Shift
    <3>4. QED
      BY <3>1, <3>2, <3>3
  <2>14. QED
    BY <1>0, <1>1, <2>2, <2>3, <2>13, GoesOn
<1>3. CASE ~HasRow
  <2>1. Done("RMS") /\ UNCHANGED <<status, old, mind>>
    BY <1>3 DEF ReportStatus, Nothing
  <2>2. QED
    BY <1>0, <1>1, <2>1, Unmoved, SameMindIs, GoesOn
<1>4. QED
  BY <1>2, <1>3

LEMMA RejectStep ==
  ASSUME TypeOK, JobInv, Orderly, NEW a \in Actor, Reject(a)
  PROVE  JobInv'
<1>0. At(a, "reject") /\ a = "StalledJobAgent" /\ a \in Service /\ a \notin Pilot /\ todo[a] # <<>>
  BY Whose, Actors DEF Reject, May, Service
<1>1. UNCHANGED <<pilot, given, told, pool, staging, request>>
  BY DEF Reject, worker, others, queue
<1>2. CASE HasRow
  <2>1. Store(a, "Rescheduled")
    BY <1>2 DEF Reject
  <2>2. Done(a) /\ status' = "Rescheduled" /\ ~old' /\ Touch
    BY <1>0, <2>1, ServiceStores
  <2>3. /\ Renewed /\ task'.pc = task.pc /\ copy'.want = copy.want
        /\ ~task'.same /\ ~copy'.same
    BY <2>2, Touched
  <2>4. ~Confirming /\ Calm
    BY <1>0, AloneWhenConfirming DEF JobInv, Steady, CalmInv, Free
  <2>5. Shift
    BY <2>2, <2>3, <2>4 DEF Shift
  <2>6. QED
    BY <1>0, <1>1, <2>2, <2>3, <2>5, GoesOn
<1>3. CASE ~HasRow
  <2>1. Done(a) /\ UNCHANGED <<status, old, mind>>
    BY <1>3 DEF Reject, Nothing
  <2>2. QED
    BY <1>0, <1>1, <2>1, Unmoved, SameMindIs, GoesOn
<1>4. QED
  BY <1>2, <1>3

\* what an actor has to do once its first step has become others
LEMMA AfterInstead ==
  ASSUME TodoOK, Scripted, NEW a \in Actor, NEW op, At(a, op), NEW s, Script(a, s), Instead(a, s),
         \A i \in DOMAIN s, y \in Steps : Before(Head(todo[a]), y) => Before(s[i], y)
  PROVE  /\ Scripted'
         /\ \A b \in Actor : b # a => todo'[b] = todo[b]
         /\ \A S : Has(a, S)' => \/ Some(s, Ops(S))
                                 \/ /\ Has(a, S)
                                    /\ \E x \in Steps : x.op \in S /\ Before(Head(todo[a]), x)
         /\ \A o, S : HasTo(a, o, S)' =>
                         \/ Some(s, To(o, S))
                         \/ /\ HasTo(a, o, S)
                            /\ \E x \in Steps : x.op = o /\ x.to \in S /\ Before(Head(todo[a]), x)
         /\ \A S : (Has(a, S) /\ op \notin S) \/ Some(s, Ops(S)) => Has(a, S)'
<1> DEFINE h == Head(todo[a])
           r == Tail(todo[a])
<1>1. todo[a] # <<>> /\ h.op = op
  BY DEF At
<1>2. /\ h \in Steps
      /\ \A X : Some(todo[a], X) <=> h \in X \/ Some(r, X)
      /\ \A X : Some(r, X) => \E x \in X : x \in Steps /\ Before(h, x)
  BY <1>1, Rest
<1>3. /\ Scripted'
      /\ \A X : Some(todo'[a], X) <=> Some(s, X) \/ Some(r, X)
      /\ \A b \in Actor : b # a => todo'[b] = todo[b]
  BY <1>1, StepInstead
<1> DEFINE t == todo[a]
           u == todo'[a]
<1>4. /\ \A S : Has(a, S) <=> Some(t, Ops(S))
      /\ \A S : Has(a, S)' <=> Some(u, Ops(S))
      /\ \A o, S : HasTo(a, o, S) <=> Some(t, To(o, S))
      /\ \A o, S : HasTo(a, o, S)' <=> Some(u, To(o, S))
  BY DEF Has, HasTo
<1> HIDE DEF h, r, t, u
<1>5. /\ \A X : Some(t, X) <=> h \in X \/ Some(r, X)
      /\ \A X : Some(u, X) <=> Some(s, X) \/ Some(r, X)
  BY <1>2, <1>3 DEF t, u
<1>6. \A S : Has(a, S)' => Some(s, Ops(S)) \/ (Has(a, S) /\ \E x \in Steps : x.op \in S /\ Before(h, x))
  BY <1>2, <1>4, <1>5, OpsIs
<1>7. \A o, S : HasTo(a, o, S)' =>
                   Some(s, To(o, S))
                   \/ (HasTo(a, o, S) /\ \E x \in Steps : x.op = o /\ x.to \in S /\ Before(h, x))
  BY <1>2, <1>4, <1>5, ToIs
<1>8. \A S : (Has(a, S) /\ op \notin S) \/ Some(s, Ops(S)) => Has(a, S)'
  BY <1>1, <1>2, <1>4, <1>5, OpsIs
<1>9. QED
  BY <1>3, <1>6, <1>7, <1>8 DEF h

LEMMA Substituted ==
  ASSUME TypeOK, JobInv, NEW a \in Actor, a # "Mind", NEW op, At(a, op), op # "await",
         NEW s, Script(a, s), Instead(a, s),
         \A i \in DOMAIN s, y \in Steps : Before(Head(todo[a]), y) => Before(s[i], y),
         UNCHANGED <<status, old, task, copy, pilot, given, pool, told, staging, request>>,
         Some(s, Ops({"reschedule", "restart"})) => Restarting(a),
         ~Some(s, To("set", {"Received"})), ~Some(s, Ops({"report"})),
         a \in Pilot => ~Matching(a) /\ PilotInv(a)' /\ (Live(a)' => Live(a))
  PROVE  JobInv'
<1>0. TodoOK /\ Scripted /\ todo[a] # <<>>
  BY TypeParts DEF JobInv, At
<1>1. /\ Scripted'
      /\ \A b \in Actor : b # a => todo'[b] = todo[b]
      /\ \A S : Has(a, S)' => Some(s, Ops(S)) \/ Has(a, S)
      /\ \A o, S : HasTo(a, o, S)' => Some(s, To(o, S)) \/ HasTo(a, o, S)
      /\ \A S : Has(a, S) /\ op \notin S => Has(a, S)'
  BY <1>0, AfterInstead
<1>2. \A S : ~Some(s, To("report", S))
  <2>1. \A S : Some(s, To("report", S)) => Some(s, Ops({"report"}))
    BY DEF Some, To, Ops
  <2>2. QED
    BY <2>1
<1>3. (Restarting(a)' => Restarting(a))
  BY <1>1 DEF Restarting
<1>4. Confirming' => Confirming
  <2>1. a = "User" \/ todo'["User"] = todo["User"]
    BY <1>1, Actors
  <2>2. QED
    BY <1>1, <2>1 DEF Confirming, HasTo
<1>5. Resuming' => Resuming
  <2>1. a = "RMS" \/ todo'["RMS"] = todo["RMS"]
    BY <1>1, Actors
  <2>2. QED
    BY <1>1, <1>2, <2>1 DEF Resuming, HasTo
<1>6. Staged' => Staged
  <2>1. CASE a = "Stager"
    BY <1>1, <1>2, <2>1 DEF Staged
  <2>2. CASE a # "Stager"
    BY <1>1, <2>2, Actors DEF Staged, Has, HasTo
  <2>3. QED
    BY <2>1, <2>2
<1>7. Onwards(a)
  BY <1>0, <1>1, <1>3, <1>4, <1>5, <1>6 DEF Onwards
<1>8. QED
  BY <1>1, <1>7, Unmoved, Harmless

LEMMA KillOrDeleteStep ==
  ASSUME TypeOK, JobInv, NEW a \in Actor, KillOrDelete(a)
  PROVE  JobInv'
<1>1. PICK right \in {"kill", "delete"} : At(a, right) /\ Instead(a, KillSteps(right))
  BY DEF KillOrDelete
<1>2. a \in Janitors /\ a # "Mind" /\ a \notin Pilot /\ Head(todo[a]).op = right /\ Head(todo[a]) \in Steps
  BY <1>1, Whose, Actors DEF May, Janitors
<1> DEFINE s == KillSteps(right)
<1>3. /\ Script(a, s)
      /\ \A X : Some(s, X) => \E x \in X : /\ x.op \in {"command", "set", "dequeue", "unstage"}
                                           /\ x.op = "set" => x.to \in {"Killed", "Deleted"}
      /\ \A i \in DOMAIN s, y \in Steps : Before(Head(todo[a]), y) => Before(s[i], y)
  BY <1>2, KillScript
<1>4. UNCHANGED <<status, old, task, copy, pilot, given, pool, told, staging, request>>
  BY DEF KillOrDelete, row, mind, worker, others, queue
<1> HIDE DEF s
<1>5. /\ ~Some(s, Ops({"reschedule", "restart"})) /\ ~Some(s, Ops({"report"}))
      /\ ~Some(s, To("set", {"Received"}))
  BY <1>3 DEF Ops, To
<1>6. QED
  BY <1>1, <1>2, <1>3, <1>4, <1>5, Substituted DEF s

LEMMA RescheduleStep ==
  ASSUME TypeOK, JobInv, NEW a \in Actor, Reschedule(a)
  PROVE  JobInv'
<1>0. /\ At(a, "reschedule") /\ a \in Pilot \cup {"User", "StalledJobAgent"} /\ a # "Mind"
      /\ todo[a] # <<>> /\ Head(todo[a]).op = "reschedule" /\ TodoOK /\ Scripted
      /\ UNCHANGED <<status, old, task, copy, pilot, given, pool, told, staging, request>>
  BY Whose, TypeParts, Actors DEF Reschedule, May, row, mind, worker, others, queue, JobInv
<1>1. a \in Pilot => ~Matching(a)
  BY <1>0, MatchingOps
<1>2. Restarting(a)
  BY <1>0, Rest, OpsIs DEF Restarting, Has
<1>3. a \in Pilot => PilotInv(a) /\ pilot[a] = "idle" /\ Live(a)
  <2>1. Has(a, {"reschedule", "restart"}) /\ Has(a, {"set", "report", "write", "reschedule", "restart"})
    BY <1>0, Rest, OpsIs DEF Has
  <2>2. a \in Pilot => PilotInv(a)
    BY DEF JobInv
  <2>3. QED
    BY <2>1, <2>2 DEF PilotInv, Live
<1>4. CASE ~HasRow
  BY <1>0, <1>1, <1>4, Unmoved, GoesOn DEF Reschedule
<1>5. CASE HasRow /\ counter + 1 > MaxRescheduling
  <2> DEFINE x == Set("Failed")
             s == <<x>>
  <2>1. x \in Steps /\ May(a, x) /\ x.op = "set" /\ x.to = "Failed"
    BY <1>0, KindsOfSteps, Names DEF May, MaySet, Set, Janitors
  <2>2. todo' = [todo EXCEPT ![a] = s]
    BY <1>5 DEF Reschedule
  <2>3. Script(a, s) /\ \A X : Some(s, X) <=> x \in X
    BY <2>1, SingleScript
  <2> HIDE DEF s, x
  <2>4. Scripted' /\ todo'[a] = s /\ \A b \in Actor : b # a => todo'[b] = todo[b]
    BY <1>0, <2>2, <2>3, StepAfresh
  <2>5. /\ \A S : Has(a, S)' <=> "set" \in S
        /\ \A o, S : HasTo(a, o, S)' <=> o = "set" /\ "Failed" \in S
    BY <2>1, <2>3, <2>4, OpsIs, ToIs DEF Has, HasTo
  <2>6. Onwards(a)
    <3>1. ~Restarting(a)'
      BY <2>5 DEF Restarting
    <3>2. Confirming' => Confirming
      BY <2>4, <2>5, Actors DEF Confirming, HasTo
    <3>3. (Staged' => Staged) /\ (Resuming' => Resuming)
      BY <1>0, <2>4, Actors DEF Staged, Resuming, HasTo, Has
    <3>4. QED
      BY <1>0, <2>4, <3>1, <3>2, <3>3 DEF Onwards
  <2>7. a \in Pilot => PilotInv(a)'
    BY <1>0, <1>3, <2>5 DEF PilotInv, Matching, Over
  <2>8. QED
    BY <1>0, <1>1, <1>3, <2>4, <2>6, <2>7, Unmoved, Harmless
<1>6. CASE HasRow /\ ~(counter + 1 > MaxRescheduling)
  <2> DEFINE x == Restart(counter + 1)
             s == <<x>>
  <2>1. x \in Steps
    <3>1. counter + 1 \in 0 .. MaxRescheduling
      BY <1>6, TypeParts, JobsAssumption DEF RowTypeOK
    <3>2. QED
      BY <3>1, KindsOfSteps
  <2>2. May(a, x) /\ x.op = "restart"
    BY <1>0 DEF May, Restart
  <2>3. Instead(a, s)
    BY <1>6 DEF Reschedule
  <2>4. Script(a, s) /\ (\A X : Some(s, X) <=> x \in X) /\ \A i \in DOMAIN s : s[i] = x
    BY <2>1, <2>2, SingleScript
  <2> HIDE DEF s, x
  <2>5. \A y \in Steps : Before(Head(todo[a]), y) => Before(x, y)
    BY <1>0, <2>2 DEF Before
  <2>6. \A i \in DOMAIN s, y \in Steps : Before(Head(todo[a]), y) => Before(s[i], y)
    BY <2>4, <2>5
  <2>7. /\ Scripted'
        /\ \A b \in Actor : b # a => todo'[b] = todo[b]
        /\ \A S : Has(a, S)' => Some(s, Ops(S)) \/ Has(a, S)
        /\ \A o, S : HasTo(a, o, S)' => Some(s, To(o, S)) \/ HasTo(a, o, S)
        /\ \A S : Has(a, S) /\ "reschedule" \notin S => Has(a, S)'
    BY <1>0, <2>3, <2>4, <2>6, AfterInstead
  <2>8. /\ \A S : Some(s, Ops(S)) <=> "restart" \in S
        /\ \A o, S : Some(s, To(o, S)) => o = "restart"
    BY <2>1, <2>2, <2>4, OpsIs, ToIs
  <2>9. a \in Pilot => PilotInv(a)'
    BY <1>0, <1>3, <2>7, <2>8 DEF PilotInv, Matching
  <2>10. QED
    BY <1>0, <1>1, <1>2, <1>3, <2>3, <2>4, <2>6, <2>8, <2>9, Substituted
<1>7. QED
  BY <1>4, <1>5, <1>6

\* the job is to be optimised, and nobody offers it or has it
LEMMA Prepares ==
  ASSUME TypeOK, JobInv, Scripted', todo'["Mind"] = todo["Mind"],
         \A p \in Pilot : PilotInv(p)' /\ ~Live(p)',
         status' \in Optimizing, ~old', given' = 0, ~task'.same, ~copy'.same,
         task'.pc = task.pc, copy'.want = copy.want,
         UNCHANGED <<pilot, pool, told>>, ~Offered,
         Free("StalledJobAgent")', ~Staged', ~Resuming', ~Confirming', ~Restarting("User")'
  PROVE  JobInv'
<1>0. Steady /\ MindInv
  BY DEF JobInv
<1>1. ~Entering' /\ MindInv'
  BY <1>0, SameMindSteps DEF Offered
<1>2. \A p \in Pilot : ~Matching(p)'
  BY DEF Matching, Offered
<1>3. ~Offered'
  BY <1>1, <1>2 DEF Offered
<1>4. OneOffer' /\ OneLive' /\ OfferStatus'
  BY <1>2, <1>3 DEF OneOffer, OneLive, OfferStatus, Offered, Optimizing
<1>5. ASSUME NEW p \in Pilot PROVE MatchStatus(p)'
  BY <1>2 DEF MatchStatus, Past, PilotInv
<1>6. ~Restarting("StalledJobAgent")'
  BY NoStep DEF Restarting, Free, Has
<1>7. StagedInv' /\ Pristine' /\ CalmInv' /\ Sealed'
  BY <1>6 DEF StagedInv, Pristine, CalmInv, Sealed, Optimizing
<1>8. QED
  BY <1>1, <1>4, <1>5, <1>7 DEF JobInv, Steady

LEMMA ReportOfStager ==
  ASSUME TypeOK, JobInv, Orderly, ReportStatus("Stager")
  PROVE  JobInv'
<1>0. /\ At("Stager", "report") /\ "Stager" \in Actor /\ "Stager" \in Service
      /\ "Stager" \notin Pilot /\ todo["Stager"] # <<>> /\ TodoOK /\ Scripted /\ Steady
  BY Whose, Actors, TypeParts DEF ReportStatus, Service, At, JobInv
<1>1. UNCHANGED <<pilot, given, told, pool, staging, request>>
  BY DEF ReportStatus, worker, others, queue
<1>2. CASE HasRow
  <2> DEFINE current == IF status = "Stalled" THEN "Running" ELSE status
             s == IF Arg("Stager") = "none" THEN current ELSE NextState(current, Arg("Stager"))
  <2>1. Store("Stager", s)
    BY <1>2 DEF ReportStatus
  <2>2. Done("Stager") /\ status' = s /\ ~old' /\ Touch
    BY <1>0, <2>1, ServiceStores
  <2>3. /\ Renewed /\ task'.pc = task.pc /\ copy'.want = copy.want
        /\ ~task'.same /\ ~copy'.same
    BY <2>2, Touched
  <2>4. MayReport("Stager", Arg("Stager")) /\ Head(todo["Stager"]).op = "report"
    BY <1>0, Whose DEF May, Arg
  <2>5. Arg("Stager") \in {"Checking", "none"}
    BY <1>0, <2>4 DEF MayReport
  <2>6. CASE s = status
    <3>1. Shift
      BY <2>2, <2>6 DEF Shift
    <3>2. QED
      BY <1>0, <1>1, <2>2, <2>3, <3>1, GoesOn
  <2>7. CASE s # status /\ status = "Stalled" /\ s = "Running"
    <3>1. Calm /\ ~Confirming
      BY <1>0, <2>7, AloneWhenConfirming DEF Steady, CalmInv
    <3>2. Shift
      <4> HIDE DEF s
      <4>1. QED
        BY <2>2, <2>3, <2>7, <3>1 DEF Shift
    <3>3. QED
      BY <1>0, <1>1, <2>2, <2>3, <3>2, GoesOn
  <2>8. CASE s # status /\ Arg("Stager") = "Checking"
    <3> HIDE DEF s
    <3>1. /\ \A b \in Actor : b # "Stager" => todo'[b] = todo[b]
          /\ Scripted'
          /\ ~HasTo("Stager", "report", {"Checking"})'
          /\ HasTo("Stager", "report", {"Checking"}) /\ ~Has("Stager", {"await"})
      <4>1. ~HasTo("Stager", "report", {"Checking"})'
        BY <1>0, <2>2, <2>8, AfterDone DEF Before, Arg
      <4>2. ~Has("Stager", {"await"})'
        BY <1>0, <2>2, AfterDone DEF Before
      <4>3. QED
        BY <1>0, <2>2, <2>8, <4>1, <4>2, AfterDone
    <3>2. Staged
      BY <3>1 DEF Staged
    <3>3. given = 0 /\ ~Preparing /\ ~Offered /\ status \in Over \cup {"Staging"}
      BY <1>0, <3>2 DEF Steady, StagedInv
    <3>4. s = "Checking"
      <4>1. status # "Stalled"
        BY <3>3, Labels
      <4>2. s = NextState(status, "Checking")
        BY <2>8, <4>1 DEF s
      <4>3. QED
        BY <2>8, <4>2, NextStateIs
    <3>5. \A p \in Pilot : ~Live(p)
      BY <1>0, <3>3 DEF Steady, OneLive
    <3>6. \A p \in Pilot : PilotInv(p)' /\ ~Live(p)'
      BY <1>1, <3>1, <3>5, Actors DEF JobInv, PilotInv, Live, Matching, Has, HasTo, Free
    <3>7. ~Calm
      BY <3>2 DEF Calm
    <3>8. Free("StalledJobAgent") /\ ~Resuming /\ ~Confirming /\ ~Restarting("User")
      BY <1>0, <3>2, <3>7, AloneWhenConfirming DEF Steady, CalmInv, Sealed
    <3>9. /\ Free("StalledJobAgent")' /\ ~Staged' /\ ~Resuming' /\ ~Confirming'
          /\ ~Restarting("User")' /\ todo'["Mind"] = todo["Mind"]
      BY <3>1, <3>8, Actors DEF Free, Staged, Resuming, Confirming, Restarting, Has, HasTo
    <3>10. status' \in Optimizing /\ given' = 0
      BY <1>1, <2>2, <3>3, <3>4 DEF Optimizing
    <3>11. QED
      BY <1>1, <2>2, <2>3, <3>1, <3>3, <3>6, <3>9, <3>10, Prepares
  <2>9. QED
    BY <2>5, <2>6, <2>7, <2>8
<1>3. CASE ~HasRow
  <2>1. Done("Stager") /\ UNCHANGED <<status, old, mind>>
    BY <1>3 DEF ReportStatus, Nothing
  <2>2. QED
    BY <1>0, <1>1, <2>1, Unmoved, SameMindIs, GoesOn
<1>4. QED
  BY <1>2, <1>3

\* the submission is confirmed
LEMMA SetReceived ==
  ASSUME TypeOK, JobInv, Orderly, NEW a \in Actor, a # "Mind", a \notin Pilot,
         SetStatus(a), Arg(a) = "Received"
  PROVE  JobInv'
<1>0. /\ At(a, "set") /\ a = "User" /\ a \in Service /\ todo[a] # <<>>
      /\ TodoOK /\ Scripted /\ Steady
  BY Whose, Actors, TypeParts DEF SetStatus, Service, At, JobInv, May, MaySet, Arg
<1>1. UNCHANGED <<pilot, given, told, pool, staging, request>>
  BY DEF SetStatus, worker, others, queue
<1>2. Confirming
  <2>1. Head(todo[a]) \in Steps /\ Head(todo[a]).op = "set" /\ Head(todo[a]).to = "Received"
    BY <1>0, Whose DEF Arg
  <2>2. Head(todo[a]) \in To("set", {"Received"})
    BY <2>1, ToIs
  <2>3. QED
    BY <1>0, <2>2, Rest DEF Confirming, HasTo
<1>3. status = "Submitting"
  BY <1>0, <1>2 DEF Steady, CalmInv
<1>4. /\ given = 0 /\ J \notin pool
      /\ \A b \in Actor : b # "User" => Free(b)
      /\ \A p \in Pilot : pilot[p] = "idle"
      /\ task.pc = "none" /\ ~Restarting("User")
  BY <1>0, <1>3 DEF Steady, Pristine
<1>5. Done(a) /\ status' = "Received" /\ ~old' /\ Touch
  <2>1. NextState("Submitting", "Received") = "Received"
    BY DEF NextState, Transitions
  <2>2. Store(a, "Received")
    BY <1>3, <2>1 DEF SetStatus, HasRow
  <2>3. QED
    BY <1>0, <2>2, ServiceStores
<1>6. /\ task'.pc = task.pc /\ copy'.want = copy.want
      /\ ~task'.same /\ ~copy'.same
  BY <1>5, Touched
<1>7. /\ Scripted'
      /\ \A b \in Actor : b # a => todo'[b] = todo[b]
      /\ ~Restarting(a)' /\ ~Confirming'
  <2>1. Scripted' /\ \A b \in Actor : b # a => todo'[b] = todo[b]
    BY <1>0, <1>5, AfterDone
  <2>2. ~Restarting(a)'
    BY <1>0, <1>4, <1>5, AfterDone DEF Restarting
  <2>3. ~Confirming'
    BY <1>0, <1>5, AfterDone DEF Confirming, Before, Arg
  <2>4. QED
    BY <2>1, <2>2, <2>3
<1>8. \A b \in Actor : b # "User" => Free(b)'
  BY <1>0, <1>4, <1>7 DEF Free
<1>9. \A b \in Actor : b # "User" =>
          /\ \A S : ~Has(b, S) /\ ~Has(b, S)'
          /\ \A o, S : ~HasTo(b, o, S) /\ ~HasTo(b, o, S)'
  BY <1>4, <1>8, NoStep DEF Free, Has, HasTo
<1>10. \A p \in Pilot : PilotInv(p)' /\ ~Live(p)' /\ ~Matching(p)
  BY <1>1, <1>4, <1>8, <1>9, Actors DEF PilotInv, Live, Matching
<1>11. ~Offered
  BY <1>4, <1>9, <1>10, Actors DEF Offered, Entering, Compared
<1>12. ~Staged' /\ ~Resuming' /\ Free("StalledJobAgent")' /\ todo'["Mind"] = todo["Mind"]
  BY <1>0, <1>7, <1>8, <1>9, Actors DEF Staged, Resuming
<1>13. QED
  BY <1>0, <1>1, <1>4, <1>5, <1>6, <1>7, <1>10, <1>11, <1>12, Prepares DEF Optimizing

LEMMA AwaitStagingStep ==
  ASSUME TypeOK, JobInv, NEW a \in Actor, AwaitStaging(a)
  PROVE  JobInv'
<1>0. /\ At(a, "await") /\ a = "Stager" /\ a \notin Pilot /\ TodoOK /\ Scripted /\ Steady /\ MindInv
      /\ UNCHANGED <<status, old, task, copy, pilot, given, pool, told, staging, request>>
  BY Whose, Actors, TypeParts
     DEF AwaitStaging, May, JobInv, row, mind, worker, others, queue
<1>1. CASE status # "Staging"
  BY <1>0, <1>1, Unmoved, GoesOn DEF AwaitStaging
<1>2. CASE status = "Staging"
  <2>1. Done(a)
    BY <1>2 DEF AwaitStaging
  <2>2. Scripted' /\ \A b \in Actor : b # a => todo'[b] = todo[b]
    BY <1>0, <2>1, AfterDone
  <2>3. todo'["Mind"] = todo["Mind"] /\ a # "RMS" /\ a # "User" /\ a # "StalledJobAgent"
    BY <1>0, <2>2, Actors
  <2>4. /\ Compared' <=> Compared
        /\ ToSet' <=> ToSet
        /\ Entering' <=> Entering
        /\ Rereading' => Rereading
        /\ Valid' => Valid
        /\ MindInv'
    BY <1>0, <2>3, SameMindSteps
  <2>5. \A p \in Pilot : /\ Matching(p)' <=> Matching(p)
                         /\ Live(p)' <=> Live(p)
                         /\ PilotInv(p) => PilotInv(p)'
                         /\ MatchStatus(p) => MatchStatus(p)'
    BY <1>0, <2>2, Actors DEF Live, PilotInv, Matching, Has, HasTo, Free, MatchStatus, Past
  <2>6. (Preparing' => Preparing) /\ (Offered' => Offered)
    BY <1>0, <2>4, <2>5 DEF Preparing, Offered
  <2>7. OneOffer'
    BY <1>0, <2>4, <2>5, <2>6 DEF Steady, OneOffer
  <2>8. OneLive'
    BY <1>0, <2>5, <2>6 DEF Steady, OneLive
  <2>9. OfferStatus'
    BY <1>0, <2>4, <2>6 DEF Steady, OfferStatus, HasRow
  <2>10. StagedInv'
    BY <1>0, <1>2, <2>6 DEF Steady, StagedInv
  <2>11. Pristine'
    BY <1>0, <1>2 DEF Pristine
  <2>12. ~Calm /\ ~Restarting("User")
    BY <1>0, <1>2, Labels DEF Steady, Calm, Sealed
  <2>13. /\ Free("StalledJobAgent")' <=> Free("StalledJobAgent")
         /\ Resuming' <=> Resuming
         /\ Confirming' <=> Confirming
         /\ Restarting("User")' <=> Restarting("User")
         /\ Restarting("StalledJobAgent")' <=> Restarting("StalledJobAgent")
    BY <2>2, <2>3, Actors DEF Free, Resuming, Confirming, Restarting, Has, HasTo
  <2>14. CalmInv' /\ Sealed'
    BY <1>0, <2>12, <2>13 DEF Steady, CalmInv, Sealed
  <2>15. QED
    BY <1>0, <2>2, <2>4, <2>5, <2>7, <2>8, <2>9, <2>10, <2>11, <2>14 DEF JobInv, Steady
<1>3. QED
  BY <1>1, <1>2

LEMMA AgeStep ==
  ASSUME TypeOK, JobInv, Orderly, Age
  PROVE  JobInv'
<1>0. /\ UNCHANGED <<status, task, copy, pilot, given, pool, told, staging, request, todo>>
      /\ Steady /\ MindInv /\ Scripted /\ \A p \in Pilot : PilotInv(p) /\ MatchStatus(p)
  BY DEF Age, mind, worker, others, queue, JobInv, Steady
<1>1. /\ status \notin {"Submitting", "Waiting", "none"} /\ \A p \in Pilot : pilot[p] = "idle"
      /\ \A a \in Actor : Free(a)
  BY DEF Age, Orderly, HasPilot, Quiet, HasRow
<1>2. Scripted'
  BY <1>0, StillScripted
<1>3. \A a \in Actor : /\ \A S : ~Has(a, S) /\ ~Has(a, S)'
                       /\ \A o, S : ~HasTo(a, o, S) /\ ~HasTo(a, o, S)'
                       /\ Free(a)'
  BY <1>0, <1>1, NoStep DEF Free, Has, HasTo
<1>4. \A p \in Pilot : ~Live(p) /\ ~Live(p)' /\ ~Matching(p) /\ ~Matching(p)' /\ PilotInv(p)'
                       /\ MatchStatus(p)'
  BY <1>0, <1>1, <1>3, Actors DEF Live, Matching, PilotInv, MatchStatus, Past
<1>5. /\ MindInv'
      /\ Entering' <=> Entering
      /\ Rereading' => Rereading
      /\ Valid' => Valid
      /\ ToSet' <=> ToSet
  BY <1>0, SameMindSteps
<1>6. (Preparing' => Preparing) /\ (Offered' => Offered)
  BY <1>0, <1>4, <1>5 DEF Preparing, Offered
<1>7. /\ ~Staged /\ ~Staged' /\ ~Resuming' /\ ~Confirming /\ ~Confirming'
      /\ ~Restarting("User") /\ ~Restarting("User")' /\ ~Restarting("StalledJobAgent")'
      /\ Free("StalledJobAgent")'
  BY <1>3, Actors DEF Staged, Resuming, Confirming, Restarting
<1>8. OneOffer' /\ OneLive' /\ OfferStatus'
  BY <1>0, <1>4, <1>5, <1>6 DEF Steady, OneOffer, OneLive, OfferStatus, HasRow
<1>9. StagedInv' /\ Pristine' /\ Sealed'
  BY <1>0, <1>1, <1>6, <1>7 DEF Steady, StagedInv, Pristine, Sealed
<1>10. CalmInv'
  <2>1. status \in {"Running", "Completing", "Matched", "Rescheduled"} => Calm
    <3>1. status \in {"Running", "Completing", "Matched", "Rescheduled"} => ~Preparing
      BY <1>0, Labels DEF Steady, OfferStatus, Optimizing
    <3>2. status \in {"Running", "Completing", "Matched", "Rescheduled"} => ~Offered
      BY <1>0, <1>4, Labels DEF Steady, OfferStatus, Offered
    <3>3. QED
      BY <1>4, <1>7, <3>1, <3>2 DEF Calm
  <2>2. status = "Stalled" => Calm
    BY <1>0 DEF Steady, CalmInv
  <2>3. Calm => Calm'
    BY <1>0, <1>4, <1>6, <1>7 DEF Calm
  <2>4. QED
    BY <1>0, <1>1, <1>7, <2>1, <2>2, <2>3 DEF CalmInv
<1>11. QED
  BY <1>2, <1>4, <1>5, <1>8, <1>9, <1>10 DEF JobInv, Steady

\* what a service has to do once it has begun
LEMMA AfterBegin ==
  ASSUME TypeOK, JobInv, NEW a \in Actor, NEW s, Script(a, s), Begin(a, s)
  PROVE  /\ Scripted' /\ Free(a)
         /\ \A b \in Actor : b # a => todo'[b] = todo[b]
         /\ \A S : Has(a, S)' <=> Some(s, Ops(S))
         /\ \A o, S : HasTo(a, o, S)' <=> Some(s, To(o, S))
<1>1. TodoOK /\ Scripted
  BY TypeParts DEF JobInv
<1>2. Scripted' /\ todo'[a] = s /\ \A b \in Actor : b # a => todo'[b] = todo[b]
  BY <1>1, StepBegin
<1>3. QED
  BY <1>2 DEF Begin, Has, HasTo

LEMMA ScriptOfOne ==
  ASSUME NEW a, NEW x \in Steps, May(a, x)
  PROVE  LET s == <<x>>
         IN  /\ Script(a, s)
             /\ \A S : Some(s, Ops(S)) <=> x.op \in S
             /\ \A o, S : Some(s, To(o, S)) <=> x.op = o /\ x.to \in S
<1> DEFINE s == <<x>>
<1>1. Script(a, s) /\ \A X : Some(s, X) <=> x \in X
  BY SingleScript
<1> HIDE DEF s
<1>2. QED
  BY <1>1, OpsIs, ToIs DEF s

LEMMA ScriptOfTwo ==
  ASSUME NEW a, NEW x \in Steps, NEW y \in Steps, May(a, x), May(a, y), Before(x, y)
  PROVE  LET s == <<x, y>>
         IN  /\ Script(a, s)
             /\ \A S : Some(s, Ops(S)) <=> x.op \in S \/ y.op \in S
             /\ \A o, S : Some(s, To(o, S)) <=> (x.op = o /\ x.to \in S) \/ (y.op = o /\ y.to \in S)
<1> DEFINE s == <<x, y>>
<1>1. Script(a, s) /\ \A X : Some(s, X) <=> x \in X \/ y \in X
  BY PairScript
<1> HIDE DEF s
<1>2. QED
  BY <1>1, OpsIs, ToIs DEF s

LEMMA ScriptOfThree ==
  ASSUME NEW a, NEW x \in Steps, NEW y \in Steps, NEW z \in Steps,
         May(a, x), May(a, y), May(a, z), Before(x, y), Before(x, z), Before(y, z)
  PROVE  LET s == <<x, y, z>>
         IN  /\ Script(a, s)
             /\ \A S : Some(s, Ops(S)) <=> x.op \in S \/ y.op \in S \/ z.op \in S
             /\ \A o, S : Some(s, To(o, S)) <=> \/ x.op = o /\ x.to \in S
                                                \/ y.op = o /\ y.to \in S
                                                \/ z.op = o /\ z.to \in S
<1> DEFINE s == <<x, y, z>>
<1>1. Script(a, s) /\ \A X : Some(s, X) <=> x \in X \/ y \in X \/ z \in X
  BY TripleScript
<1> HIDE DEF s
<1>2. QED
  BY <1>1, OpsIs, ToIs DEF s

LEMMA ScriptOfFour ==
  ASSUME NEW a, NEW w \in Steps, NEW x \in Steps, NEW y \in Steps, NEW z \in Steps,
         May(a, w), May(a, x), May(a, y), May(a, z),
         Before(w, x), Before(w, y), Before(w, z), Before(x, y), Before(x, z), Before(y, z)
  PROVE  LET s == <<w, x, y, z>>
         IN  /\ Script(a, s)
             /\ \A S : Some(s, Ops(S)) <=> w.op \in S \/ x.op \in S \/ y.op \in S \/ z.op \in S
             /\ \A o, S : Some(s, To(o, S)) <=> \/ w.op = o /\ w.to \in S
                                                \/ x.op = o /\ x.to \in S
                                                \/ y.op = o /\ y.to \in S
                                                \/ z.op = o /\ z.to \in S
<1> DEFINE s == <<w, x, y, z>>
<1>1. Script(a, s) /\ \A X : Some(s, X) <=> w \in X \/ x \in X \/ y \in X \/ z \in X
  BY QuadScript
<1> HIDE DEF s
<1>2. QED
  BY <1>1, OpsIs, ToIs DEF s

LEMMA StagerAnswersStep ==
  ASSUME TypeOK, JobInv, NEW s \in {"Checking", "none"}, StagerAnswers(s)
  PROVE  JobInv'
<1>0. /\ "Stager" \in Actor /\ "Stager" \in Service /\ Steady
      /\ UNCHANGED <<status, old, task, copy, pilot, given, pool, told, request>>
      /\ staging /\ ~staging'
  BY Actors, TypeParts DEF StagerAnswers, Service, JobInv, Steady, row, mind, worker, queue
<1> DEFINE x == Op("await")
           y == Report(s)
           q == <<x, y>>
<1>1. x \in Steps /\ y \in Steps
  BY KindsOfSteps, Names
<1>2. /\ May("Stager", x) /\ May("Stager", y) /\ Before(x, y)
      /\ x.op = "await" /\ y.op = "report"
  BY DEF May, MayReport, Before, Op, Report
<1>3. Begin("Stager", q)
  BY DEF StagerAnswers
<1> HIDE DEF x, y
<1>4. /\ Script("Stager", q)
      /\ \A S : Some(q, Ops(S)) <=> x.op \in S \/ y.op \in S
  BY <1>1, <1>2, ScriptOfTwo
<1> HIDE DEF q
<1>5. /\ Scripted' /\ Free("Stager")
      /\ \A b \in Actor : b # "Stager" => todo'[b] = todo[b]
      /\ \A S : Has("Stager", S)' <=> Some(q, Ops(S))
  BY <1>0, <1>3, <1>4, AfterBegin
<1>6. ~Staged'
  BY <1>2, <1>4, <1>5 DEF Staged
<1>7. status # "Submitting"
  BY <1>0 DEF Steady, Pristine
<1>8. /\ Restarting("StalledJobAgent")' => Restarting("StalledJobAgent")
      /\ Resuming' => Resuming
      /\ Confirming' => Confirming
      /\ Restarting("User")' => Restarting("User")
  BY <1>5, Actors DEF Restarting, Resuming, Confirming, Has, HasTo
<1>9. QED
  BY <1>0, <1>5, <1>6, <1>7, <1>8, ServiceBegins

LEMMA FinalizeRequestStep ==
  ASSUME TypeOK, JobInv, FinalizeRequest
  PROVE  JobInv'
<1>0. /\ "RMS" \in Actor /\ "RMS" \in Service /\ Steady /\ "RMS" # "Mind"
      /\ UNCHANGED <<status, old, task, copy, pilot, given, pool, told, staging>>
      /\ request /\ ~request'
  BY Actors, TypeParts DEF FinalizeRequest, Service, JobInv, Steady, row, mind, worker, queue
<1>1. PICK s \in FinalStatus : Begin("RMS", IF HasRow THEN <<Report(s)>> ELSE <<>>)
  BY DEF FinalizeRequest
<1> DEFINE x == Report(s)
           q == IF HasRow THEN <<x>> ELSE <<>>
<1>2. s \in {"Done", "Failed", "Running", "Completing", "none"}
      /\ (s \in {"Running", "Completing"} => status = "Stalled")
  BY DEF FinalStatus
<1>3. x \in Steps /\ May("RMS", x) /\ x.op = "report" /\ x.to = s
  BY <1>2, KindsOfSteps, Names DEF May, MayReport, Report
<1>4. Begin("RMS", q)
  BY <1>1
<1> HIDE DEF x
<1>5. Script("RMS", q) /\ \A o, S : Some(q, To(o, S)) => x.op = o /\ x.to \in S
  <2>1. CASE HasRow
    BY <1>3, <2>1, ScriptOfOne
  <2>2. CASE ~HasRow
    BY <2>2, EmptyScript
  <2>3. QED
    BY <2>1, <2>2
<1> HIDE DEF q
<1>6. /\ Scripted' /\ Free("RMS")
      /\ \A b \in Actor : b # "RMS" => todo'[b] = todo[b]
      /\ \A o, S : HasTo("RMS", o, S)' <=> Some(q, To(o, S))
  BY <1>0, <1>4, <1>5, AfterBegin
<1>7. Resuming' => status = "Stalled"
  BY <1>2, <1>3, <1>5, <1>6 DEF Resuming
<1>8. status # "Submitting"
  BY <1>0 DEF Steady, Pristine
<1>9. Staged' => Staged
  BY <1>6, Actors DEF Staged, Has, HasTo
<1>10. QED
  BY <1>0, <1>6, <1>7, <1>8, <1>9, ServiceBegins

LEMMA ConfirmSubmissionStep ==
  ASSUME TypeOK, JobInv, ConfirmSubmission
  PROVE  JobInv'
<1>0. /\ "User" \in Actor /\ "User" \in Service /\ Steady /\ "User" # "Mind"
      /\ UNCHANGED <<status, old, task, copy, pilot, given, pool, told, staging, request>>
      /\ status = "Submitting"
  BY Actors, TypeParts DEF ConfirmSubmission, Service, JobInv, Steady, row, mind, worker, others, queue
<1> DEFINE x == Set("Received")
           y == Op("message")
           q == <<x, y>>
<1>1. x \in Steps /\ y \in Steps
  BY KindsOfSteps, Names
<1>2. /\ May("User", x) /\ May("User", y) /\ Before(x, y)
      /\ x.op = "set" /\ y.op = "message"
  BY DEF May, MaySet, Before, Op, Set
<1>3. Begin("User", q)
  BY DEF ConfirmSubmission
<1> HIDE DEF x, y
<1>4. /\ Script("User", q)
      /\ \A S : Some(q, Ops(S)) <=> x.op \in S \/ y.op \in S
  BY <1>1, <1>2, ScriptOfTwo
<1> HIDE DEF q
<1>5. /\ Scripted' /\ Free("User")
      /\ \A b \in Actor : b # "User" => todo'[b] = todo[b]
      /\ \A S : Has("User", S)' <=> Some(q, Ops(S))
  BY <1>0, <1>3, <1>4, AfterBegin
<1>6. ~Restarting("User")'
  BY <1>2, <1>4, <1>5 DEF Restarting
<1>7. Staged' => Staged
  BY <1>5, Actors DEF Staged, Has, HasTo
<1>8. QED
  BY <1>0, <1>5, <1>6, <1>7, ServiceBegins

LEMMA UserCommandStep ==
  ASSUME TypeOK, JobInv, Orderly, NEW c \in Commands, UserCommand(c)
  PROVE  JobInv'
<1>0. /\ "User" \in Actor /\ "User" \in Service /\ Steady /\ "User" # "Mind"
      /\ UNCHANGED <<status, old, task, copy, pilot, given, pool, told, staging, request>>
  BY Actors, TypeParts DEF UserCommand, Service, JobInv, Steady, row, mind, worker, queue
<1> DEFINE w == Op("zero")
           x == Op("dequeue")
           y == Op("reschedule")
           z == Op("message")
           k == Op(c)
<1>1. w \in Steps /\ x \in Steps /\ y \in Steps /\ z \in Steps
  BY KindsOfSteps
<1>2. /\ May("User", w) /\ May("User", x) /\ May("User", y) /\ May("User", z)
      /\ Before(w, x) /\ Before(w, y) /\ Before(w, z) /\ Before(x, y) /\ Before(x, z) /\ Before(y, z)
      /\ w.op = "zero" /\ x.op = "dequeue" /\ y.op = "reschedule" /\ z.op = "message"
  BY DEF May, Before, Op, Janitors
<1>3. c \in {"kill", "delete", "reschedule", "reset"}
  BY JobsAssumption
<1>4. c \in {"kill", "delete"} => k \in Steps /\ May("User", k) /\ k.op = c
  BY KindsOfSteps DEF May, Op, Janitors
<1>5. PICK q : /\ q = CASE c \in {"kill", "delete"} -> <<k>>
                        [] c = "reschedule" -> <<x, y, z>>
                        [] c = "reset" -> <<w, x, y, z>>
               /\ Begin("User", q)
  BY DEF UserCommand
<1> HIDE DEF w, x, y, z, k
<1>6. /\ Script("User", q)
      /\ \A o, S : ~Some(q, To("set", S))
      /\ c \in {"kill", "delete"} => ~Some(q, Ops({"reschedule", "restart"}))
  <2>1. CASE c \in {"kill", "delete"}
    BY <1>4, <1>5, <2>1, ScriptOfOne
  <2>2. CASE c = "reschedule"
    <3>1. q = <<x, y, z>>
      BY <1>5, <2>2
    <3>2. QED
      BY <1>1, <1>2, <2>2, <3>1, ScriptOfThree
  <2>3. CASE c = "reset"
    <3>1. q = <<w, x, y, z>>
      BY <1>5, <2>3
    <3>2. QED
      BY <1>1, <1>2, <2>3, <3>1, ScriptOfFour
  <2>4. QED
    BY <1>3, <2>1, <2>2, <2>3
<1>7. /\ Scripted' /\ Free("User")
      /\ \A b \in Actor : b # "User" => todo'[b] = todo[b]
      /\ \A S : Has("User", S)' <=> Some(q, Ops(S))
      /\ \A o, S : HasTo("User", o, S)' <=> Some(q, To(o, S))
  BY <1>0, <1>5, <1>6, AfterBegin
<1>8. ~Confirming'
  BY <1>6, <1>7 DEF Confirming
<1>9. Staged' => Staged
  BY <1>7, Actors DEF Staged, Has, HasTo
<1>10. Restarting("User")' => Ended
  BY <1>3, <1>6, <1>7 DEF Restarting, UserCommand, Orderly
<1>11. Restarting("User")' =>
          /\ status \in Over /\ \A b \in Actor : b # "User" => Free(b)
          /\ task.pc = "none" /\ J \notin pool
          /\ \A p \in Pilot : pilot[p] = "idle"
  BY <1>10 DEF Ended, Quiet, HasPilot, Over, NoTask
<1>12. QED
  BY <1>0, <1>7, <1>8, <1>9, <1>11, ServiceBegins

\* the agents begin
LEMMA AgentBegins ==
  ASSUME TypeOK, JobInv, NEW a \in {"StalledJobAgent", "JobCleaningAgent"}, NEW q,
         Script(a, q), Begin(a, q), status # "Submitting",
         UNCHANGED <<status, old, task, copy, pilot, given, pool, told, staging, request>>,
         a = "StalledJobAgent" => Calm,
         Some(q, Ops({"reschedule", "restart"})) => status # "Stalled" /\ ~Resuming
  PROVE  JobInv'
<1>0. a \in Actor /\ a \in Service /\ a \notin {"Mind", "RMS", "User", "Stager"} /\ Steady
  BY Actors DEF Service, JobInv
<1>1. /\ Scripted' /\ Free(a)
      /\ \A b \in Actor : b # a => todo'[b] = todo[b]
      /\ \A S : Has(a, S)' <=> Some(q, Ops(S))
  BY <1>0, AfterBegin
<1>2. Restarting(a)' => status # "Stalled" /\ ~Resuming
  BY <1>1 DEF Restarting
<1>3. Staged' => Staged
  BY <1>0, <1>1, Actors DEF Staged, Has, HasTo
<1>4. ~Staged \/ ~(a = "StalledJobAgent")
  BY DEF Calm
<1>5. QED
  BY <1>0, <1>1, <1>2, <1>3, <1>4, ServiceBegins

LEMMA AgentStartsStep ==
  ASSUME TypeOK, JobInv, AgentStarts
  PROVE  JobInv'
<1> DEFINE S == "StalledJobAgent"
           C == "JobCleaningAgent"
<1>0. /\ Steady
      /\ UNCHANGED <<status, old, task, copy, pilot, given, pool, told, staging, request>>
  BY DEF AgentStarts, JobInv, row, mind, worker, others, queue
<1>1. ASSUME MarkStalled PROVE JobInv'
  <2> DEFINE x == Op("recheck")
             y == Set("Stalled")
             q == <<x, y>>
  <2>1. x \in Steps /\ y \in Steps
    BY KindsOfSteps, Names
  <2>2. /\ May(S, x) /\ May(S, y) /\ Before(x, y)
        /\ x.op = "recheck" /\ y.op = "set"
    BY DEF May, MaySet, Before, Op, Set
  <2>3. Begin(S, q) /\ status \in {"Running", "Completing"} /\ old
    BY <1>1 DEF MarkStalled
  <2> HIDE DEF x, y
  <2>4. Script(S, q) /\ ~Some(q, Ops({"reschedule", "restart"}))
    BY <2>1, <2>2, ScriptOfTwo
  <2> HIDE DEF q
  <2>5. Calm /\ status # "Submitting"
    BY <1>0, <2>3 DEF Steady, CalmInv
  <2>6. QED
    BY <1>0, <2>3, <2>4, <2>5, AgentBegins
<1>2. ASSUME FailStalled PROVE JobInv'
  <2>1. PICK last \in {Set("Failed"), Op("reject")} : Begin(S, <<Op("kill"), last>>)
    BY <1>2 DEF FailStalled
  <2> DEFINE x == Op("kill")
             q == <<x, last>>
  <2>2. x \in Steps /\ last \in Steps
    BY KindsOfSteps, Names
  <2>3. /\ May(S, x) /\ May(S, last) /\ Before(x, last)
        /\ x.op = "kill" /\ last.op \in {"set", "reject"}
    BY DEF May, MaySet, Before, Op, Set, Janitors
  <2>4. Begin(S, q) /\ status = "Stalled"
    BY <1>2, <2>1 DEF FailStalled
  <2> HIDE DEF x
  <2>5. Script(S, q) /\ ~Some(q, Ops({"reschedule", "restart"}))
    BY <2>2, <2>3, ScriptOfTwo
  <2> HIDE DEF q
  <2>6. Calm /\ status # "Submitting"
    BY <1>0, <2>4 DEF Steady, CalmInv
  <2>7. QED
    BY <1>0, <2>4, <2>5, <2>6, AgentBegins
<1>3. ASSUME KickStuck PROVE JobInv'
  <2> DEFINE x == Op("reschedule")
             q == <<x>>
  <2>1. x \in Steps
    BY KindsOfSteps
  <2>2. May(S, x) /\ x.op = "reschedule"
    BY DEF May, Op
  <2>3. Begin(S, q) /\ status \in {"Matched", "Rescheduled"} /\ old
    BY <1>3 DEF KickStuck
  <2> HIDE DEF x
  <2>4. Script(S, q)
    BY <2>1, <2>2, ScriptOfOne
  <2> HIDE DEF q
  <2>5. Calm /\ status # "Submitting" /\ status # "Stalled" /\ ~Resuming
    BY <1>0, <2>3 DEF Steady, CalmInv
  <2>6. QED
    BY <1>0, <2>3, <2>4, <2>5, AgentBegins
<1>4. ASSUME FailSubmitting PROVE JobInv'
  BY <1>0, <1>4 DEF FailSubmitting, Steady, CalmInv
<1>5. ASSUME RemoveDeleted PROVE JobInv'
  <2> DEFINE x == Op("deleteRow")
             y == Op("deleteDescription")
             z == Op("dequeue")
             q == <<x, y, z>>
  <2>1. x \in Steps /\ y \in Steps /\ z \in Steps
    BY KindsOfSteps
  <2>2. /\ May(C, x) /\ May(C, y) /\ May(C, z) /\ Before(x, y) /\ Before(x, z) /\ Before(y, z)
        /\ x.op = "deleteRow" /\ y.op = "deleteDescription" /\ z.op = "dequeue"
    BY DEF May, Before, Op, Janitors
  <2>3. Begin(C, q) /\ status = "Deleted"
    BY <1>5 DEF RemoveDeleted
  <2> HIDE DEF x, y, z
  <2>4. Script(C, q) /\ ~Some(q, Ops({"reschedule", "restart"}))
    BY <2>1, <2>2, ScriptOfThree
  <2> HIDE DEF q
  <2>5. QED
    BY <1>0, <2>3, <2>4, AgentBegins
<1>6. ASSUME DeleteOld PROVE JobInv'
  <2> DEFINE x == Op("delete")
             q == <<x>>
  <2>1. x \in Steps
    BY KindsOfSteps
  <2>2. May(C, x) /\ x.op = "delete"
    BY DEF May, Op, Janitors
  <2>3. Begin(C, q) /\ status \in {"Done", "Failed", "Killed"}
    BY <1>6 DEF DeleteOld
  <2> HIDE DEF x
  <2>4. Script(C, q) /\ ~Some(q, Ops({"reschedule", "restart"}))
    BY <2>1, <2>2, ScriptOfOne
  <2> HIDE DEF q
  <2>5. QED
    BY <1>0, <2>3, <2>4, AgentBegins
<1>7. QED
  BY <1>1, <1>2, <1>3, <1>4, <1>5, <1>6 DEF AgentStarts

\* the mind hears of a job that is to be optimised
LEMMA OptimizeJobsStep ==
  ASSUME TypeOK, JobInv, NEW a \in Actor, OptimizeJobs(a)
  PROVE  JobInv'
<1>0. /\ At(a, "message") /\ a \in Pilot \cup {"User"} /\ a # "Mind" /\ Done(a)
      /\ UNCHANGED <<status, old, copy, pilot, given, pool, told, staging, request>>
      /\ task' = Fresh \/ UNCHANGED task
  BY Whose, Actors DEF OptimizeJobs, May, row, worker, others, queue
<1>1. a \in Pilot => ~Matching(a)
  BY <1>0, MatchingOps
<1>2. Shift /\ Renewed
  BY <1>0 DEF Shift, Renewed
<1>3. QED
  BY <1>0, <1>1, <1>2, GoesOn

\* nobody goes on, but the mind may have found a job
LEMMA NobodySteps ==
  ASSUME TypeOK, JobInv,
         UNCHANGED <<status, old, copy, pilot, given, pool, told, staging, request, todo>>,
         UNCHANGED task \/ (task' = Fresh /\ status \in Optimizing)
  PROVE  JobInv'
<1>0. Steady /\ MindInv /\ Scripted
  BY DEF JobInv
<1>1. Scripted'
  BY <1>0, StillScripted
<1>2. /\ Compared' <=> Compared
      /\ ToSet' <=> ToSet
      /\ Entering' <=> Entering
      /\ Rereading' => Rereading
      /\ ValidCopy' => ValidCopy
      /\ MindInv'
  BY <1>0, SameCopySteps
<1>3. \A p \in Pilot : /\ Matching(p)' <=> Matching(p)
                       /\ Live(p)' <=> Live(p)
                       /\ PilotInv(p)'
                       /\ MatchStatus(p)'
  BY <1>0 DEF Live, PilotInv, Matching, Has, HasTo, Free, MatchStatus, Past, Steady, JobInv
<1>4. UNCHANGED task \/ status \in Optimizing
  OBVIOUS
<1>5. ValidTask' => Preparing
  BY <1>4 DEF ValidTask, Preparing, Valid
<1>6. (Preparing' => Preparing) /\ (Offered' => Offered)
  BY <1>2, <1>3, <1>5 DEF Preparing, Offered, Valid
<1>7. OneOffer'
  BY <1>0, <1>2, <1>3, <1>6 DEF Steady, OneOffer
<1>8. OneLive'
  BY <1>0, <1>3, <1>6 DEF Steady, OneLive
<1>9. OfferStatus'
  BY <1>0, <1>2, <1>4, <1>6, Labels DEF Steady, OfferStatus, HasRow, Optimizing
<1>10. StagedInv' /\ Pristine' /\ CalmInv' /\ Sealed'
  <2>1. /\ Free("StalledJobAgent")' <=> Free("StalledJobAgent")
        /\ Free("Mind")' <=> Free("Mind")
        /\ \A a \in Actor : Free(a)' <=> Free(a)
        /\ Resuming' <=> Resuming
        /\ Staged' <=> Staged
        /\ Confirming' <=> Confirming
        /\ Restarting("User")' <=> Restarting("User")
        /\ Restarting("StalledJobAgent")' <=> Restarting("StalledJobAgent")
    BY DEF Free, Resuming, Staged, Confirming, Restarting, Has, HasTo
  <2>2. Calm => Calm'
    BY <1>3, <1>6, <2>1 DEF Calm
  <2>3. StagedInv' /\ CalmInv'
    BY <1>0, <1>6, <2>1, <2>2 DEF Steady, StagedInv, CalmInv
  <2>4. Pristine'
    BY <1>0, <1>4, <2>1 DEF Steady, Pristine, Optimizing
  <2>5. Sealed'
    BY <1>0, <1>4, <2>1, Labels, Actors DEF Steady, Sealed, Optimizing
  <2>6. QED
    BY <2>3, <2>4, <2>5
<1>11. QED
  BY <1>1, <1>2, <1>3, <1>7, <1>8, <1>9, <1>10 DEF JobInv, Steady

LEMMA LoadJobsStep ==
  ASSUME TypeOK, JobInv, LoadJobs
  PROVE  JobInv'
BY NobodySteps DEF LoadJobs, row, worker, others, queue

LEMMA Stutter ==
  ASSUME TypeOK, JobInv, UNCHANGED vars
  PROVE  JobInv'
BY NobodySteps DEF vars, row, mind, worker, others, queue

-----------------------------------------------------------------------------
(***************************************************************************)
(* The steps of the pilot that has the job.                                *)
(***************************************************************************)
LEMMA PilotHas ==
  ASSUME TypeOK, JobInv, NEW p \in Pilot, NEW op, At(p, op), ~Matching(p)
  PROVE  /\ p \in Actor /\ p # "Mind" /\ TodoOK /\ Scripted /\ PilotInv(p)
         /\ todo[p] # <<>> /\ pilot[p] \in {"idle", "running"}
         /\ op \in {"beat", "restore", "obey"} => pilot[p] = "running"
         /\ op \in {"beat", "restore", "obey", "set", "report", "write"} => Live(p)
<1>1. p \in Actor /\ p # "Mind" /\ TodoOK /\ Scripted /\ PilotInv(p) /\ todo[p] # <<>>
  BY Actors, TypeParts DEF JobInv, At
<1>2. pilot[p] \in {"idle", "running"}
  BY <1>1, TypeParts DEF WorkersOK, PilotInv, Free, Matching
<1>3. \A S : op \in S => Has(p, S)
  BY <1>1, Rest, OpsIs DEF At, Has
<1>4. QED
  BY <1>1, <1>2, <1>3 DEF PilotInv, Live

\* statuses that no pilot writes
Foreign == Optimizing \cup {"Waiting", "Staging", "Submitting", "Stalled"}

LEMMA StatusOfLive ==
  ASSUME TypeOK, JobInv, NEW p \in Pilot, Live(p)
  PROVE  status \notin Foreign
<1>0. Steady
  BY DEF JobInv
<1>1. given = 1 /\ ~Preparing /\ status \notin {"Waiting", "Staging"}
  BY <1>0 DEF Steady, OneLive
<1>2. status # "Submitting" /\ ~Calm
  BY <1>0, <1>1 DEF Steady, Pristine, Calm
<1>3. QED
  BY <1>0, <1>1, <1>2 DEF Steady, CalmInv, Preparing, Foreign

LEMMA PilotStores ==
  ASSUME TypeOK, JobInv, NEW p \in Pilot, NEW op \in {"set", "report"}, At(p, op), ~Matching(p),
         NEW s \in Statuses \cup {"none"}, s \notin Foreign, Store(p, s),
         UNCHANGED <<pilot, given, told, pool, staging>>
  PROVE  JobInv'
<1>0. /\ p \in Actor /\ TodoOK /\ Scripted /\ PilotInv(p) /\ todo[p] # <<>> /\ Live(p)
      /\ pilot[p] \in {"idle", "running"} /\ ~Matching(p)'
  BY PilotHas DEF Matching
<1>1. CASE p \in Overlapping
  <2> DEFINE x == Write(s)
             q == <<x>>
  <2>1. Instead(p, q) /\ UNCHANGED <<status, old, task, copy>>
    BY <1>1 DEF Store, mind
  <2>2. x \in Steps /\ May(p, x) /\ x.op = "write" /\ x.to = s
    BY KindsOfSteps DEF May, Write
  <2> HIDE DEF x
  <2>3. /\ Script(p, q)
        /\ \A i \in DOMAIN q : q[i] = x
        /\ \A S : Some(q, Ops(S)) <=> x.op \in S
        /\ \A o, S : Some(q, To(o, S)) <=> x.op = o /\ x.to \in S
    BY <2>2, SingleScript, ScriptOfOne
  <2> HIDE DEF q
  <2>4. \A y \in Steps : Before(Head(todo[p]), y) => Before(x, y)
    BY <2>2 DEF Before, At
  <2>5. /\ Scripted'
        /\ \A b \in Actor : b # p => todo'[b] = todo[b]
        /\ \A S : Has(p, S)' => Some(q, Ops(S)) \/ Has(p, S)
        /\ \A o, S : HasTo(p, o, S)' => Some(q, To(o, S)) \/ HasTo(p, o, S)
    BY <1>0, <2>1, <2>3, <2>4, AfterInstead
  <2>6. PilotInv(p)'
    BY <1>0, <2>1, <2>2, <2>3, <2>5 DEF PilotInv, Matching, Foreign
  <2>7. QED
    BY <1>0, <2>1, <2>5, <2>6, LiveStep
<1>2. CASE p \notin Overlapping
  <2>1. Done(p) /\ status' = s /\ ~old' /\ Touch
    BY <1>2 DEF Store, Put, Matching
  <2>2. /\ Scripted'
        /\ \A b \in Actor : b # p => todo'[b] = todo[b]
        /\ \A S : Has(p, S)' => Has(p, S)
        /\ \A o, S : HasTo(p, o, S)' => HasTo(p, o, S)
    BY <1>0, <2>1, AfterDone
  <2>3. PilotInv(p)'
    BY <1>0, <2>2 DEF PilotInv, Matching
  <2>4. QED
    BY <1>0, <2>1, <2>2, <2>3, Touched, LiveStep DEF Foreign
<1>3. QED
  BY <1>1, <1>2

LEMMA ReportOfPilot ==
  ASSUME TypeOK, JobInv, NEW p \in Pilot, ReportStatus(p)
  PROVE  JobInv'
<1>0. At(p, "report") /\ UNCHANGED <<pilot, given, told, pool, staging, request>>
  BY DEF ReportStatus, worker, others, queue
<1>1. ~Matching(p)
  BY <1>0, MatchingOps
<1>2. p \in Actor /\ p # "Mind" /\ Live(p) /\ TodoOK
  BY <1>0, <1>1, PilotHas
<1>3. CASE HasRow
  <2> DEFINE current == IF status = "Stalled" THEN "Running" ELSE status
             s == IF Arg(p) = "none" THEN current ELSE NextState(current, Arg(p))
  <2>1. Store(p, s)
    BY <1>3 DEF ReportStatus
  <2>2. status \notin Foreign
    BY <1>2, StatusOfLive
  <2>3. Arg(p) \in PilotReports
    <3>1. MayReport(p, Arg(p))
      BY <1>0, <1>2, Whose DEF May, Arg
    <3>2. QED
      BY <3>1, Actors DEF MayReport, PilotReports
  <2>4. s \in {status, Arg(p)}
    BY <2>2, NextStateIs DEF Foreign
  <2>5. s \notin Foreign /\ s \in Statuses \cup {"none"}
    <3>1. status \in Statuses \cup {"none"}
      BY TypeParts DEF RowTypeOK
    <3> HIDE DEF s
    <3>2. QED
      BY <2>2, <2>3, <2>4, <3>1, Names DEF PilotReports, Foreign, Optimizing
  <2> HIDE DEF s
  <2>6. QED
    BY <1>0, <1>1, <2>1, <2>5, PilotStores
<1>4. CASE ~HasRow
  <2>1. Done(p) /\ UNCHANGED <<status, old, mind>>
    BY <1>4 DEF ReportStatus, Nothing
  <2>2. QED
    BY <1>0, <1>1, <1>2, <2>1, Unmoved, SameMindIs, GoesOn
<1>5. QED
  BY <1>3, <1>4

LEMMA SetOfPilot ==
  ASSUME TypeOK, JobInv, NEW p \in Pilot, SetStatus(p), ~Matching(p)
  PROVE  JobInv'
<1>0. At(p, "set") /\ UNCHANGED <<pilot, given, told, pool, staging, request>>
  BY DEF SetStatus, worker, others, queue
<1>2. p \in Actor /\ p # "Mind" /\ Live(p) /\ TodoOK
  BY <1>0, PilotHas
<1>3. CASE HasRow
  <2> DEFINE s == NextState(status, Arg(p))
  <2>1. Store(p, s)
    BY <1>3 DEF SetStatus
  <2>2. status \notin Foreign
    BY <1>2, StatusOfLive
  <2>3. Arg(p) \in {"Matched", "Running", "Failed"}
    <3>1. MaySet(p, Arg(p))
      BY <1>0, <1>2, Whose DEF May, Arg
    <3>2. QED
      BY <3>1, Actors DEF MaySet
  <2>4. s \in {status, Arg(p)}
    BY NextStateIs
  <2>5. s \notin Foreign /\ s \in Statuses \cup {"none"}
    <3>1. status \in Statuses \cup {"none"}
      BY TypeParts DEF RowTypeOK
    <3> HIDE DEF s
    <3>2. QED
      BY <2>2, <2>3, <2>4, <3>1, Names DEF Foreign, Optimizing
  <2> HIDE DEF s
  <2>6. QED
    BY <1>0, <2>1, <2>5, PilotStores
<1>4. CASE ~HasRow
  <2>1. (Done(p) \/ GiveUp(p)) /\ UNCHANGED <<status, old, mind>>
    BY <1>4 DEF SetStatus, Nothing
  <2>2. QED
    BY <1>0, <1>2, <2>1, Unmoved, SameMindIs, GoesOn
<1>5. QED
  BY <1>3, <1>4

\* the row is written by the pilot that has the job
LEMMA PilotPuts ==
  ASSUME TypeOK, JobInv, NEW p \in Pilot, NEW op \in {"beat", "write"}, At(p, op), ~Matching(p),
         Done(p), NEW s, s \notin Foreign, Put(p, s),
         UNCHANGED <<pilot, given, told, pool, staging>>
  PROVE  JobInv'
<1>0. /\ p \in Actor /\ TodoOK /\ Scripted /\ PilotInv(p) /\ todo[p] # <<>> /\ Live(p)
      /\ pilot[p] \in {"idle", "running"} /\ ~Matching(p)'
  BY PilotHas DEF Matching
<1>1. status' = s /\ ~old' /\ Touch
  BY DEF Put, Matching
<1>2. /\ Scripted'
      /\ \A b \in Actor : b # p => todo'[b] = todo[b]
      /\ \A S : Has(p, S)' => Has(p, S)
      /\ \A o, S : HasTo(p, o, S)' => HasTo(p, o, S)
  BY <1>0, AfterDone
<1>3. PilotInv(p)'
  BY <1>0, <1>2 DEF PilotInv, Matching
<1>4. QED
  BY <1>0, <1>1, <1>2, <1>3, Touched, LiveStep DEF Foreign

LEMMA WriteOfPilot ==
  ASSUME TypeOK, JobInv, NEW p \in Pilot, WriteStatus(p), ~Matching(p)
  PROVE  JobInv'
<1>0. At(p, "write") /\ UNCHANGED <<pilot, given, told, pool, staging, request>>
  BY DEF WriteStatus, worker, others, queue
<1>1. /\ p \in Actor /\ p # "Mind" /\ TodoOK /\ Scripted /\ PilotInv(p) /\ todo[p] # <<>>
  BY <1>0, PilotHas
<1>2. CASE HasRow \/ described
  <2>1. Done(p) /\ Put(p, Arg(p))
    BY <1>2 DEF WriteStatus
  <2>2. Arg(p) \notin Foreign
    <3>1. \A S : Arg(p) \in S => HasTo(p, "write", S)
      BY <1>0, <1>1, Rest, ToIs DEF HasTo, At, Arg
    <3>2. QED
      BY <1>1, <3>1 DEF PilotInv, Foreign
  <2>3. QED
    BY <1>0, <2>1, <2>2, PilotPuts
<1>3. CASE ~(HasRow \/ described)
  <2>1. Done(p) /\ UNCHANGED <<status, old, mind>>
    BY <1>3 DEF WriteStatus, Nothing
  <2>2. QED
    BY <1>0, <1>1, <2>1, Unmoved, SameMindIs, GoesOn
<1>4. QED
  BY <1>2, <1>3

LEMMA BeatStep ==
  ASSUME TypeOK, JobInv, NEW p \in Pilot, Beat(p)
  PROVE  JobInv'
<1>0. At(p, "beat") /\ UNCHANGED <<pilot, given, told, pool, staging, request>>
  BY DEF Beat, worker, others, queue
<1>1. ~Matching(p)
  BY <1>0, MatchingOps
<1>2. p \in Actor /\ p # "Mind"
  BY Actors
<1>3. CASE HasRow
  BY <1>0, <1>1, <1>3, PilotPuts DEF Beat, Foreign, Optimizing
<1>4. CASE ~HasRow
  <2>1. Done(p) /\ UNCHANGED <<status, old, mind>>
    BY <1>4 DEF Beat, Nothing
  <2>2. QED
    BY <1>0, <1>1, <1>2, <2>1, Unmoved, SameMindIs, GoesOn
<1>5. QED
  BY <1>3, <1>4

LEMMA RestoreStep ==
  ASSUME TypeOK, JobInv, NEW p \in Pilot, Restore(p)
  PROVE  JobInv'
<1>0. /\ At(p, "restore")
      /\ UNCHANGED <<status, old, task, copy, pilot, given, told, pool, staging, request>>
  BY DEF Restore, row, mind, worker, others, queue
<1>1. ~Matching(p)
  BY <1>0, MatchingOps
<1>2. /\ p \in Actor /\ p # "Mind" /\ TodoOK /\ Scripted /\ PilotInv(p)
      /\ todo[p] # <<>> /\ pilot[p] = "running" /\ Live(p)
  BY <1>0, <1>1, PilotHas
<1>3. CASE Done(p) \/ GiveUp(p)
  BY <1>0, <1>1, <1>2, <1>3, Unmoved, GoesOn
<1>4. CASE Instead(p, <<Set("Running")>>)
  <2> DEFINE x == Set("Running")
             q == <<x>>
  <2>1. x \in Steps /\ May(p, x) /\ x.op = "set" /\ x.to = "Running"
    BY KindsOfSteps, Names DEF May, MaySet, Set
  <2> HIDE DEF x
  <2>2. /\ Script(p, q)
        /\ \A i \in DOMAIN q : q[i] = x
        /\ \A S : Some(q, Ops(S)) <=> x.op \in S
        /\ \A o, S : Some(q, To(o, S)) <=> x.op = o /\ x.to \in S
    BY <2>1, SingleScript, ScriptOfOne
  <2>3. Instead(p, q)
    BY <1>4 DEF x
  <2> HIDE DEF q
  <2>4. \A y \in Steps : Before(Head(todo[p]), y) => Before(x, y)
    BY <1>0, <2>1 DEF Before, At
  <2>5. /\ Scripted'
        /\ \A b \in Actor : b # p => todo'[b] = todo[b]
        /\ \A S : Has(p, S)' => Some(q, Ops(S)) \/ Has(p, S)
        /\ \A o, S : HasTo(p, o, S)' => Some(q, To(o, S)) \/ HasTo(p, o, S)
    BY <1>0, <1>2, <2>2, <2>3, <2>4, AfterInstead
  <2>6. PilotInv(p)' /\ ~Matching(p)'
    BY <1>0, <1>1, <1>2, <2>1, <2>2, <2>5 DEF PilotInv, Matching
  <2>7. QED
    BY <1>0, <1>2, <2>5, <2>6, LiveStep
<1>5. QED
  BY <1>3, <1>4 DEF Restore

LEMMA ObeyStep ==
  ASSUME TypeOK, JobInv, NEW p \in Pilot, Obey(p)
  PROVE  JobInv'
<1>0. /\ At(p, "obey")
      /\ UNCHANGED <<status, old, task, copy, given, told, pool, staging, request>>
  BY DEF Obey, mind, others, queue
<1>1. ~Matching(p)
  BY <1>0, MatchingOps
<1>2. /\ p \in Actor /\ p # "Mind" /\ TodoOK /\ Scripted /\ PilotInv(p)
      /\ todo[p] # <<>> /\ pilot[p] = "running" /\ Live(p)
  BY <1>0, <1>1, PilotHas
<1>3. CASE Done(p) /\ UNCHANGED pilot
  BY <1>0, <1>1, <1>2, <1>3, Unmoved, GoesOn
<1>4. CASE Instead(p, <<Report("Failed")>>) /\ GoTo(p, "idle")
  <2> DEFINE x == Report("Failed")
             q == <<x>>
  <2>1. x \in Steps /\ May(p, x) /\ x.op = "report"
    BY KindsOfSteps, Names DEF May, MayReport, Report
  <2> HIDE DEF x
  <2>2. /\ Script(p, q)
        /\ \A i \in DOMAIN q : q[i] = x
        /\ \A S : Some(q, Ops(S)) <=> x.op \in S
        /\ \A o, S : Some(q, To(o, S)) <=> x.op = o /\ x.to \in S
    BY <2>1, SingleScript, ScriptOfOne
  <2>3. Instead(p, q)
    BY <1>4 DEF x
  <2> HIDE DEF q
  <2>4. \A y \in Steps : ~Before(Head(todo[p]), y)
    BY <1>0 DEF Before, At
  <2>5. /\ Scripted'
        /\ \A b \in Actor : b # p => todo'[b] = todo[b]
        /\ \A S : Has(p, S)' => Some(q, Ops(S))
        /\ \A o, S : HasTo(p, o, S)' => Some(q, To(o, S))
    BY <1>0, <1>2, <2>2, <2>3, <2>4, AfterInstead
  <2>6. pilot'[p] = "idle" /\ \A r \in Pilot : r # p => pilot'[r] = pilot[r]
    BY <1>4, TypeParts DEF GoTo, WorkersOK
  <2>7. PilotInv(p)' /\ ~Matching(p)'
    BY <2>1, <2>2, <2>5, <2>6 DEF PilotInv, Matching
  <2>8. QED
    BY <1>0, <1>2, <2>5, <2>6, <2>7, LiveStep
<1>5. QED
  BY <1>3, <1>4 DEF Obey

\* a pilot that has the job begins something
LEMMA PilotBegins ==
  ASSUME TypeOK, JobInv, NEW p \in Pilot, pilot[p] \in {"assigned", "running"},
         NEW q, Script(p, q), Begin(p, q), pilot'[p] \in {"idle", "running"},
         \A r \in Pilot : r # p => pilot'[r] = pilot[r],
         UNCHANGED <<status, old, task, copy, given, told, pool, staging>>,
         ~Some(q, Ops({"check", "give", "set", "write"})),
         Some(q, Ops({"beat", "restore", "obey"})) => pilot'[p] = "running",
         Some(q, Ops({"reschedule", "restart"})) => pilot'[p] = "idle"
  PROVE  JobInv'
<1>0. p \in Actor /\ Live(p)
  BY Actors DEF Live
<1>1. /\ Scripted'
      /\ \A b \in Actor : b # p => todo'[b] = todo[b]
      /\ \A S : Has(p, S)' <=> Some(q, Ops(S))
      /\ \A o, S : HasTo(p, o, S)' <=> Some(q, To(o, S))
  BY <1>0, AfterBegin
<1>3. /\ ~Some(q, Ops({"check"})) /\ ~Some(q, Ops({"give"}))
      /\ \A S : ~Some(q, To("set", S)) /\ ~Some(q, To("write", S))
  BY DEF Some, Ops, To
<1>4. PilotInv(p)' /\ ~Matching(p)'
  BY <1>1, <1>3 DEF PilotInv, Matching
<1>5. QED
  BY <1>0, <1>1, <1>4, LiveStep

LEMMA StartWrapperStep ==
  ASSUME TypeOK, JobInv, NEW p \in Pilot, StartWrapper(p)
  PROVE  JobInv'
<1> DEFINE x == Report("Running")
           q == <<x>>
<1>1. x \in Steps /\ May(p, x) /\ x.op = "report"
  BY KindsOfSteps, Names DEF May, MayReport, Report
<1>2. Begin(p, q)
  BY DEF StartWrapper
<1> HIDE DEF x
<1>3. Script(p, q) /\ \A S : Some(q, Ops(S)) <=> x.op \in S
  BY <1>1, ScriptOfOne
<1> HIDE DEF q
<1>4. /\ pilot[p] = "assigned" /\ pilot'[p] = "running"
      /\ \A r \in Pilot : r # p => pilot'[r] = pilot[r]
      /\ UNCHANGED <<status, old, task, copy, given, told, pool, staging>>
  BY TypeParts DEF StartWrapper, GoTo, WorkersOK, row, mind, others, queue
<1>5. ~Some(q, Ops({"check", "give", "set", "write"})) /\ ~Some(q, Ops({"reschedule", "restart"}))
  BY <1>1, <1>3
<1>6. QED
  BY <1>2, <1>3, <1>4, <1>5, PilotBegins

LEMMA ReportProgressStep ==
  ASSUME TypeOK, JobInv, NEW p \in Pilot, ReportProgress(p)
  PROVE  JobInv'
<1>0. /\ pilot[p] = "running" /\ pilot' = pilot
      /\ UNCHANGED <<status, old, task, copy, given, told, pool, staging>>
  BY DEF ReportProgress, row, mind, worker, others, queue
<1>1. CASE Begin(p, <<Report("none")>>)
  <2> DEFINE x == Report("none")
             q == <<x>>
  <2>1. x \in Steps /\ May(p, x) /\ x.op = "report"
    BY KindsOfSteps, Names DEF May, MayReport, Report
  <2>2. Begin(p, q)
    BY <1>1
  <2> HIDE DEF x
  <2>3. Script(p, q) /\ \A S : Some(q, Ops(S)) <=> x.op \in S
    BY <2>1, ScriptOfOne
  <2> HIDE DEF q
  <2>4. /\ ~Some(q, Ops({"check", "give", "set", "write"}))
        /\ ~Some(q, Ops({"reschedule", "restart"}))
    BY <2>1, <2>3
  <2>5. QED
    BY <1>0, <2>2, <2>3, <2>4, PilotBegins
<1>2. CASE Begin(p, <<Op("beat"), Op("restore"), Op("obey")>>)
  <2> DEFINE x == Op("beat")
             y == Op("restore")
             z == Op("obey")
             q == <<x, y, z>>
  <2>1. x \in Steps /\ y \in Steps /\ z \in Steps
    BY KindsOfSteps
  <2>2. /\ May(p, x) /\ May(p, y) /\ May(p, z) /\ Before(x, y) /\ Before(x, z) /\ Before(y, z)
        /\ x.op = "beat" /\ y.op = "restore" /\ z.op = "obey"
    BY DEF May, Before, Op
  <2>3. Begin(p, q)
    BY <1>2
  <2> HIDE DEF x, y, z
  <2>4. Script(p, q) /\ \A S : Some(q, Ops(S)) <=> x.op \in S \/ y.op \in S \/ z.op \in S
    BY <2>1, <2>2, ScriptOfThree
  <2> HIDE DEF q
  <2>5. /\ ~Some(q, Ops({"check", "give", "set", "write"}))
        /\ ~Some(q, Ops({"reschedule", "restart"}))
    BY <2>2, <2>4
  <2>6. QED
    BY <1>0, <2>3, <2>4, <2>5, PilotBegins
<1>3. QED
  BY <1>1, <1>2 DEF ReportProgress

LEMMA FinishStep ==
  ASSUME TypeOK, JobInv, NEW p \in Pilot, NEW s \in {"Done", "Completed", "Failed"}, Finish(p, s)
  PROVE  JobInv'
<1> DEFINE x == Report("Completing")
           y == Report(s)
           q == <<x, y>>
<1>1. x \in Steps /\ y \in Steps
  BY KindsOfSteps, Names
<1>2. /\ May(p, x) /\ May(p, y) /\ Before(x, y)
      /\ x.op = "report" /\ y.op = "report"
  BY DEF May, MayReport, Before, Report
<1>3. Begin(p, q)
  BY DEF Finish
<1> HIDE DEF x, y
<1>4. Script(p, q) /\ \A S : Some(q, Ops(S)) <=> x.op \in S \/ y.op \in S
  BY <1>1, <1>2, ScriptOfTwo
<1> HIDE DEF q
<1>5. /\ pilot[p] \in {"assigned", "running"} /\ pilot'[p] = "idle"
      /\ \A r \in Pilot : r # p => pilot'[r] = pilot[r]
      /\ UNCHANGED <<status, old, task, copy, given, told, pool, staging>>
  BY TypeParts DEF Finish, GoTo, WorkersOK, row, mind, others, queue
<1>6. /\ ~Some(q, Ops({"check", "give", "set", "write"}))
      /\ ~Some(q, Ops({"beat", "restore", "obey"}))
  BY <1>2, <1>4
<1>7. QED
  BY <1>3, <1>4, <1>5, <1>6, PilotBegins

LEMMA GiveBackStep ==
  ASSUME TypeOK, JobInv, NEW p \in Pilot, GiveBack(p)
  PROVE  JobInv'
<1> DEFINE w == Report("Rescheduled")
           x == Op("dequeue")
           y == Op("reschedule")
           z == Op("message")
           q == <<w, x, y, z>>
<1>1. w \in Steps /\ x \in Steps /\ y \in Steps /\ z \in Steps
  BY KindsOfSteps, Names
<1>2. /\ May(p, w) /\ May(p, x) /\ May(p, y) /\ May(p, z)
      /\ Before(w, x) /\ Before(w, y) /\ Before(w, z) /\ Before(x, y) /\ Before(x, z) /\ Before(y, z)
      /\ w.op = "report" /\ x.op = "dequeue" /\ y.op = "reschedule" /\ z.op = "message"
  BY DEF May, MayReport, Before, Op, Report
<1>3. Begin(p, q)
  BY DEF GiveBack
<1> HIDE DEF w, x, y, z
<1>4. /\ Script(p, q)
      /\ \A S : Some(q, Ops(S)) <=> w.op \in S \/ x.op \in S \/ y.op \in S \/ z.op \in S
  BY <1>1, <1>2, ScriptOfFour
<1> HIDE DEF q
<1>5. /\ pilot[p] \in {"assigned", "running"} /\ pilot'[p] = "idle"
      /\ \A r \in Pilot : r # p => pilot'[r] = pilot[r]
      /\ UNCHANGED <<status, old, task, copy, given, told, pool, staging>>
  BY TypeParts DEF GiveBack, GoTo, WorkersOK, row, mind, others, queue
<1>6. /\ ~Some(q, Ops({"check", "give", "set", "write"}))
      /\ ~Some(q, Ops({"beat", "restore", "obey"}))
  BY <1>2, <1>4
<1>7. QED
  BY <1>3, <1>4, <1>5, <1>6, PilotBegins

LEMMA LosePilotStep ==
  ASSUME TypeOK, JobInv, NEW p \in Pilot, LosePilot(p)
  PROVE  JobInv'
<1>0. /\ Live(p) /\ Free(p) /\ Free(p)' /\ Scripted'
      /\ UNCHANGED <<status, old, task, copy, given, told, pool, staging, todo>>
  BY StillScripted DEF LosePilot, Live, Free, JobInv, row, mind, others, queue
<1>1. pilot'[p] = "idle" /\ \A r \in Pilot : r # p => pilot'[r] = pilot[r]
  BY TypeParts DEF LosePilot, GoTo, WorkersOK
<1>2. (\A S : ~Has(p, S)') /\ (\A o, S : ~HasTo(p, o, S)')
  BY <1>0, NoStep DEF Free, Has, HasTo
<1>3. PilotInv(p)' /\ ~Matching(p)'
  BY <1>0, <1>1, <1>2 DEF PilotInv, Matching
<1>4. QED
  BY <1>0, <1>1, <1>3, LiveStep

-----------------------------------------------------------------------------
(***************************************************************************)
(* The steps of the Matcher.                                               *)
(***************************************************************************)
\* what a pilot or its matcher leaves as it is
LEMMA PilotFrame ==
  ASSUME JobInv, NEW p \in Pilot,
         \A b \in Actor : b # p => todo'[b] = todo[b],
         \A q \in Pilot : q # p => pilot'[q] = pilot[q],
         UNCHANGED told, task'.pc = task.pc, copy'.want = copy.want,
         task'.same => task.same, copy'.same => copy.same
  PROVE  /\ MindInv'
         /\ Entering' <=> Entering
         /\ status' \notin Optimizing \/ status' = status => (Preparing' => Preparing)
         /\ Free("StalledJobAgent")' <=> Free("StalledJobAgent")
         /\ Resuming' <=> Resuming
         /\ Staged' <=> Staged
         /\ Confirming' <=> Confirming
         /\ Restarting("User")' <=> Restarting("User")
         /\ Restarting("StalledJobAgent")' <=> Restarting("StalledJobAgent")
         /\ \A q \in Pilot : q # p => /\ Matching(q)' <=> Matching(q)
                                      /\ Live(q)' <=> Live(q)
                                      /\ PilotInv(q)'
<1>1. todo'["Mind"] = todo["Mind"]
  BY Actors
<1>2. /\ Compared' <=> Compared
      /\ ToSet' <=> ToSet
      /\ Entering' <=> Entering
      /\ Rereading' => Rereading
      /\ Valid' => Valid
      /\ MindInv'
  BY <1>1, SameMindSteps DEF JobInv
<1>3. status' \notin Optimizing \/ status' = status => (Preparing' => Preparing)
  BY <1>2 DEF Preparing
<1>4. /\ Free("StalledJobAgent")' <=> Free("StalledJobAgent")
      /\ Resuming' <=> Resuming
      /\ Staged' <=> Staged
      /\ Confirming' <=> Confirming
      /\ Restarting("User")' <=> Restarting("User")
      /\ Restarting("StalledJobAgent")' <=> Restarting("StalledJobAgent")
  <2>1. \A b \in {"User", "StalledJobAgent", "RMS", "Stager"} : todo'[b] = todo[b]
    BY Actors
  <2>2. QED
    BY <2>1 DEF Free, Resuming, Staged, Confirming, Restarting, Has, HasTo
<1>5. \A q \in Pilot : q # p => /\ Matching(q)' <=> Matching(q)
                                /\ Live(q)' <=> Live(q)
                                /\ PilotInv(q)'
  BY Actors DEF JobInv, Live, PilotInv, Matching, Has, HasTo, Free
<1>6. QED
  BY <1>2, <1>3, <1>4, <1>5

\* while a matcher has the job, nobody else offers it, prepares it or has it
LEMMA WhileMatching ==
  ASSUME JobInv, NEW p \in Pilot, Matching(p)
  PROVE  /\ ~Entering /\ J \notin pool /\ ~Preparing /\ given = 0
         /\ \A q \in Pilot : (q # p => ~Matching(q)) /\ ~Live(q)
         /\ ~Staged /\ Free("StalledJobAgent") /\ ~Resuming /\ ~Confirming /\ ~Restarting("User")
         /\ ~Restarting("StalledJobAgent")
         /\ status \in Over \cup {"Waiting", "Matched"}
<1>0. Steady /\ MatchStatus(p)
  BY DEF JobInv, Steady
<1>1. Offered
  BY DEF Offered
<1>2. /\ ~Entering /\ J \notin pool /\ ~Preparing
      /\ \A q \in Pilot : q # p => ~Matching(q)
  BY <1>0, <1>1 DEF Steady, OneOffer
<1>3. given = 0 /\ \A q \in Pilot : ~Live(q)
  BY <1>0, <1>1 DEF Steady, OneLive
<1>4. ~Staged /\ ~Calm
  BY <1>0, <1>1 DEF Steady, StagedInv, Calm
<1>5. status \in Over \cup {"Waiting", "Matched"}
  BY <1>0 DEF MatchStatus
<1>6. Free("StalledJobAgent") /\ ~Resuming
  BY <1>0, <1>4 DEF Steady, CalmInv
<1>7. ~Confirming
  BY <1>0, <1>5, Labels DEF Steady, CalmInv
<1>8. ~Restarting("User")
  BY <1>0 DEF Steady, Sealed, Matching
<1>9. ~Restarting("StalledJobAgent")
  BY <1>6, FreeHas DEF Restarting
<1>10. QED
  BY <1>2, <1>3, <1>4, <1>5, <1>6, <1>7, <1>8, <1>9

LEMMA MatcherGoesOn ==
  ASSUME TypeOK, JobInv, Scripted', NEW p \in Pilot, Matching(p),
         \A b \in Actor : b # p => todo'[b] = todo[b],
         \A q \in Pilot : q # p => pilot'[q] = pilot[q],
         UNCHANGED <<told, pool>>, task'.pc = task.pc, copy'.want = copy.want,
         \/ UNCHANGED <<status, old>> /\ task'.same = task.same /\ copy'.same = copy.same
         \/ status' \in Over \cup {"Matched"} /\ ~old' /\ ~task'.same /\ ~copy'.same,
         PilotInv(p)', MatchStatus(p)',
         \/ given' = given /\ ~Live(p)'
         \/ given' = 1 /\ ~Matching(p)' /\ status' \in Over \cup {"Matched"} /\ ~old'
  PROVE  JobInv'
<1>0. Steady
  BY DEF JobInv
<1>1. /\ ~Entering /\ J \notin pool /\ ~Preparing /\ given = 0
      /\ \A q \in Pilot : (q # p => ~Matching(q)) /\ ~Live(q)
      /\ ~Staged /\ Free("StalledJobAgent") /\ ~Resuming /\ ~Confirming /\ ~Restarting("User")
      /\ ~Restarting("StalledJobAgent")
      /\ status \in Over \cup {"Waiting", "Matched"}
  BY WhileMatching
<1>2. status' \in Over \cup {"Waiting", "Matched"} /\ (status' \notin Optimizing \/ status' = status)
  BY <1>1, Labels
<1>3. /\ MindInv' /\ ~Entering' /\ ~Preparing' /\ ~Staged' /\ Free("StalledJobAgent")'
      /\ ~Resuming' /\ ~Confirming' /\ ~Restarting("User")' /\ ~Restarting("StalledJobAgent")'
      /\ \A q \in Pilot : q # p => ~Matching(q)' /\ ~Live(q)' /\ PilotInv(q)'
  BY <1>1, <1>2, PilotFrame
<1>4. OneOffer'
  BY <1>1, <1>3 DEF OneOffer
<1>5. ~Offered' \/ given' = 0
  BY <1>1, <1>3 DEF Offered
<1>6. OneLive'
  BY <1>1, <1>3, <1>5, Labels DEF OneLive
<1>7. OfferStatus'
  BY <1>0, <1>1, <1>3 DEF Steady, OfferStatus, HasRow
<1>8. \A q \in Pilot : MatchStatus(q)'
  BY <1>3 DEF MatchStatus, PilotInv, Past
<1>9. StagedInv' /\ Pristine' /\ Sealed'
  BY <1>2, <1>3, Labels DEF StagedInv, Pristine, Sealed
<1>10. CalmInv'
  <2>1. old' => status' \in Over
    <3>1. old => status \notin {"Waiting", "Submitting"}
      BY <1>0 DEF Steady, CalmInv
    <3>2. old => status # "Matched"
      BY <1>0, WhileMatching DEF Steady, CalmInv, Calm, Offered
    <3>3. QED
      BY <1>1, <3>1, <3>2
  <2>2. QED
    BY <1>2, <1>3, <2>1, Labels DEF CalmInv
<1>11. QED
  BY <1>3, <1>4, <1>6, <1>7, <1>8, <1>9, <1>10 DEF JobInv, Steady

LEMMA TakeFromTQStep ==
  ASSUME TypeOK, JobInv, NEW p \in Pilot, TakeFromTQ(p)
  PROVE  JobInv'
<1>0. /\ p \in Actor /\ Steady /\ J \in pool /\ J \notin pool' /\ told' = told
      /\ UNCHANGED <<status, old, task, copy, given, staging, request>>
      /\ pilot'[p] = "matching" /\ \A q \in Pilot : q # p => pilot'[q] = pilot[q]
  BY TypeParts, Actors
     DEF TakeFromTQ, Q!Take, GoTo, WorkersOK, row, mind, others, JobInv, Steady
<1> DEFINE x == Op("check")
           y == Set("Matched")
           z == Op("give")
           q == <<x, y, z>>
<1>1. x \in Steps /\ y \in Steps /\ z \in Steps
  BY KindsOfSteps, Names
<1>2. /\ May(p, x) /\ May(p, y) /\ May(p, z) /\ Before(x, y) /\ Before(x, z) /\ Before(y, z)
      /\ x.op = "check" /\ y.op = "set" /\ y.to = "Matched" /\ z.op = "give"
  BY DEF May, MaySet, Before, Op, Set
<1>3. Begin(p, q)
  BY DEF TakeFromTQ
<1> HIDE DEF x, y, z
<1>4. /\ Script(p, q)
      /\ \A S : Some(q, Ops(S)) <=> x.op \in S \/ y.op \in S \/ z.op \in S
      /\ \A o, S : Some(q, To(o, S)) <=> \/ x.op = o /\ x.to \in S
                                         \/ y.op = o /\ y.to \in S
                                         \/ z.op = o /\ z.to \in S
  BY <1>1, <1>2, ScriptOfThree
<1> HIDE DEF q
<1>5. /\ Scripted' /\ \A b \in Actor : b # p => todo'[b] = todo[b]
      /\ \A S : Has(p, S)' <=> Some(q, Ops(S))
      /\ \A o, S : HasTo(p, o, S)' <=> Some(q, To(o, S))
  BY <1>0, <1>3, <1>4, AfterBegin
<1>6. PilotInv(p)' /\ Matching(p)' /\ ~Past(p)' /\ ~Live(p)'
  BY <1>0, <1>2, <1>4, <1>5 DEF PilotInv, Matching, Past, Live
<1>7. Offered
  BY <1>0 DEF Offered
<1>8. /\ ~Entering /\ \A r \in Pilot : ~Matching(r)
      /\ ~Preparing
  BY <1>0, <1>7 DEF Steady, OneOffer
<1>9. given = 0 /\ \A r \in Pilot : ~Live(r)
  BY <1>0, <1>7 DEF Steady, OneLive
<1>10. status \in Over \cup {"Waiting"} /\ ~Staged /\ ~Calm
  BY <1>0, <1>7 DEF Steady, OfferStatus, StagedInv, Calm
<1>11. /\ Free("StalledJobAgent") /\ ~Resuming /\ ~Confirming /\ ~Restarting("User")
       /\ ~Restarting("StalledJobAgent")
  BY <1>0, <1>10, Labels, FreeHas DEF Steady, CalmInv, Sealed, Restarting
<1>12. /\ MindInv' /\ ~Entering' /\ ~Preparing' /\ ~Staged' /\ Free("StalledJobAgent")'
       /\ ~Resuming' /\ ~Confirming' /\ ~Restarting("User")' /\ ~Restarting("StalledJobAgent")'
       /\ \A r \in Pilot : r # p => ~Matching(r)' /\ ~Live(r)' /\ PilotInv(r)'
  BY <1>0, <1>5, <1>8, <1>9, <1>10, <1>11, PilotFrame
<1>13. OneOffer' /\ OneLive'
  BY <1>0, <1>6, <1>9, <1>12 DEF OneOffer, OneLive
<1>14. OfferStatus'
  BY <1>0, <1>12 DEF Steady, OfferStatus, HasRow
<1>15. MatchStatus(p)'
  BY <1>0, <1>6, <1>10, Labels DEF MatchStatus
<1>16. \A r \in Pilot : MatchStatus(r)'
  BY <1>12, <1>15 DEF MatchStatus, PilotInv, Past
<1>17. StagedInv' /\ Pristine' /\ Sealed'
  BY <1>0, <1>10, <1>12, Labels DEF StagedInv, Pristine, Sealed
<1>18. CalmInv'
  BY <1>0, <1>10, <1>12, Labels DEF Steady, CalmInv
<1>19. QED
  BY <1>5, <1>6, <1>12, <1>13, <1>14, <1>16, <1>17, <1>18 DEF JobInv, Steady

LEMMA CheckWaitingStep ==
  ASSUME TypeOK, JobInv, NEW p \in Pilot, CheckWaiting(p)
  PROVE  JobInv'
<1>0. /\ p \in Actor /\ TodoOK /\ Scripted /\ Steady /\ PilotInv(p) /\ MatchStatus(p)
      /\ At(p, "check") /\ todo[p] # <<>>
      /\ UNCHANGED <<status, old, task, copy, given, staging, request, pool, told>>
  BY TypeParts, Actors
     DEF CheckWaiting, Q!HandOver, row, mind, others, queue, JobInv, Steady, At
<1>1. Has(p, {"check"}) /\ Matching(p)
  <2>1. Has(p, {"check"})
    BY <1>0, Rest, OpsIs DEF At, Has
  <2>2. QED
    BY <1>0, <2>1 DEF PilotInv
<1>2. CASE status = "Waiting"
  <2>1. Done(p) /\ UNCHANGED pilot
    BY <1>2 DEF CheckWaiting
  <2>2. /\ Scripted'
        /\ \A b \in Actor : b # p => todo'[b] = todo[b]
        /\ \A S : Has(p, S) <=> "check" \in S \/ Has(p, S)'
        /\ \A o, S : HasTo(p, o, S)' => HasTo(p, o, S)
        /\ ~Has(p, {"check"})'
    BY <1>0, <2>1, AfterDone DEF Before
  <2>3. Has(p, {"set"})
    BY <1>0, <1>1 DEF PilotInv
  <2>4. Has(p, {"set"})' /\ Has(p, {"set", "write"})'
    <3>1. Has(p, {"set"})'
      BY <2>2, <2>3
    <3>2. QED
      BY <3>1 DEF Has, Some, Ops
  <2>5. PilotInv(p)' /\ Matching(p)' /\ ~Live(p)'
    BY <1>0, <1>1, <2>1, <2>2 DEF PilotInv, Matching, Live
  <2>6. ~old
    BY <1>0, <1>2 DEF Steady, CalmInv
  <2>7. MatchStatus(p)'
    BY <1>0, <1>2, <2>2, <2>4, <2>6 DEF MatchStatus
  <2>8. QED
    BY <1>0, <1>1, <2>1, <2>2, <2>5, <2>7, MatcherGoesOn
<1>3. CASE status # "Waiting"
  <2> DEFINE x == Op("dequeue")
             q == IF HasRow THEN <<x>> ELSE <<>>
  <2>1. todo' = [todo EXCEPT ![p] = q] /\ GoTo(p, "idle")
    BY <1>3 DEF CheckWaiting
  <2>2. x \in Steps /\ May(p, x) /\ x.op = "dequeue"
    BY KindsOfSteps DEF May, Op
  <2> HIDE DEF x
  <2>3. /\ Script(p, q)
        /\ \A S : Some(q, Ops(S)) => x.op \in S
        /\ \A o, S : Some(q, To(o, S)) => x.op = o
    <3>1. CASE HasRow
      BY <2>2, <3>1, ScriptOfOne
    <3>2. CASE ~HasRow
      BY <3>2, EmptyScript
    <3>3. QED
      BY <3>1, <3>2
  <2> HIDE DEF q
  <2>4. Scripted' /\ todo'[p] = q /\ \A b \in Actor : b # p => todo'[b] = todo[b]
    BY <1>0, <2>1, <2>3, StepAfresh
  <2>5. /\ \A S : Has(p, S)' => "dequeue" \in S
        /\ \A o, S : HasTo(p, o, S)' => o = "dequeue"
    BY <2>2, <2>3, <2>4 DEF Has, HasTo
  <2>6. pilot'[p] = "idle" /\ \A r \in Pilot : r # p => pilot'[r] = pilot[r]
    BY <2>1, TypeParts DEF GoTo, WorkersOK
  <2>7. PilotInv(p)' /\ ~Matching(p)' /\ ~Live(p)'
    BY <2>5, <2>6 DEF PilotInv, Matching, Live
  <2>8. MatchStatus(p)'
    BY <2>5, <2>7 DEF MatchStatus, Past
  <2>9. QED
    BY <1>0, <1>1, <2>4, <2>6, <2>7, <2>8, MatcherGoesOn
<1>4. QED
  BY <1>2, <1>3

\* the matcher has looked at the job
LEMMA AfterCheck ==
  ASSUME TypeOK, JobInv, NEW p \in Pilot, Matching(p), NEW op \in {"set", "write", "give"}, At(p, op)
  PROVE  /\ p \in Actor /\ TodoOK /\ Scripted /\ PilotInv(p) /\ MatchStatus(p) /\ todo[p] # <<>>
         /\ Past(p) /\ ~old /\ status \in Over \cup {"Waiting", "Matched"}
         /\ Has(p, {"give"})
<1>1. p \in Actor /\ TodoOK /\ Scripted /\ PilotInv(p) /\ MatchStatus(p) /\ todo[p] # <<>>
  BY TypeParts, Actors DEF JobInv, Steady, At
<1>2. ~Has(p, {"check"})
  <2>1. Head(todo[p]).op = op
    BY DEF At
  <2>2. /\ \A X : Some(todo[p], X) <=> Head(todo[p]) \in X \/ Some(Tail(todo[p]), X)
        /\ \A X : Some(Tail(todo[p]), X) =>
                      \E x \in X : x \in Steps /\ Before(Head(todo[p]), x) /\ May(p, x)
        /\ Head(todo[p]) \in Steps
    BY <1>1, Rest
  <2>3. Has(p, {"check"}) <=> Head(todo[p]) \in Ops({"check"}) \/ Some(Tail(todo[p]), Ops({"check"}))
    BY <2>2 DEF Has
  <2>4. ~Some(Tail(todo[p]), Ops({"check"}))
    BY <2>2, OpsIs DEF Before
  <2>5. QED
    BY <2>1, <2>2, <2>3, <2>4, OpsIs
<1>3. Past(p) /\ ~old /\ status \in Over \cup {"Waiting", "Matched"}
  BY <1>1, <1>2 DEF Past, MatchStatus
<1>4. QED
  BY <1>1, <1>3 DEF PilotInv

\* the job is Matched, unless it is over, by the step that stores it
LEMMA MatcherStores ==
  ASSUME TypeOK, JobInv, NEW p \in Pilot, Matching(p), NEW op \in {"set", "write"}, At(p, op),
         Done(p), NEW s \in Over \cup {"Matched"}, Put(p, s),
         UNCHANGED <<pilot, given, told, pool>>
  PROVE  JobInv'
<1>0. /\ p \in Actor /\ TodoOK /\ Scripted /\ PilotInv(p) /\ todo[p] # <<>> /\ ~old
  BY AfterCheck
<1>1. status' = s /\ ~old' /\ Touch
  BY <1>0 DEF Put
<1>2. /\ Scripted'
      /\ \A b \in Actor : b # p => todo'[b] = todo[b]
      /\ \A S : Has(p, S) <=> op \in S \/ Has(p, S)'
      /\ \A o, S : HasTo(p, o, S)' => HasTo(p, o, S)
      /\ ~Has(p, {"check"})'
  BY <1>0, AfterDone DEF Before
<1>3. PilotInv(p)' /\ Matching(p)' /\ ~Live(p)'
  BY <1>0, <1>2 DEF PilotInv, Matching, Live
<1>4. MatchStatus(p)'
  BY <1>1, <1>2, Labels DEF MatchStatus
<1>5. QED
  BY <1>1, <1>2, <1>3, <1>4, Touched, MatcherGoesOn

LEMMA MatcherKeeps ==
  ASSUME TypeOK, JobInv, NEW p \in Pilot, Matching(p), NEW op \in {"set", "write"}, At(p, op),
         Nothing(p), status # "Waiting", UNCHANGED <<pilot, given, told, pool>>
  PROVE  JobInv'
<1>0. /\ p \in Actor /\ TodoOK /\ Scripted /\ PilotInv(p) /\ todo[p] # <<>> /\ ~old
      /\ status \in Over \cup {"Waiting", "Matched"}
  BY AfterCheck
<1>1. UNCHANGED <<status, old, task, copy>> /\ Done(p)
  BY DEF Nothing, mind
<1>2. /\ Scripted'
      /\ \A b \in Actor : b # p => todo'[b] = todo[b]
      /\ \A S : Has(p, S) <=> op \in S \/ Has(p, S)'
      /\ \A o, S : HasTo(p, o, S)' => HasTo(p, o, S)
      /\ ~Has(p, {"check"})'
  BY <1>0, <1>1, AfterDone DEF Before
<1>3. PilotInv(p)' /\ Matching(p)' /\ ~Live(p)'
  BY <1>0, <1>2 DEF PilotInv, Matching, Live
<1>4. MatchStatus(p)'
  BY <1>0, <1>1, <1>2 DEF MatchStatus
<1>5. QED
  BY <1>1, <1>2, <1>3, <1>4, MatcherGoesOn

LEMMA SetMatched ==
  ASSUME TypeOK, JobInv, NEW p \in Pilot, SetStatus(p), Matching(p)
  PROVE  JobInv'
<1>0. At(p, "set") /\ UNCHANGED <<pilot, given, told, pool>>
  BY DEF SetStatus, worker, queue
<1>1. /\ p \in Actor /\ TodoOK /\ Scripted /\ PilotInv(p) /\ MatchStatus(p) /\ todo[p] # <<>>
      /\ Past(p) /\ ~old /\ status \in Over \cup {"Waiting", "Matched"} /\ Has(p, {"give"})
  BY <1>0, AfterCheck
<1>2. Arg(p) = "Matched"
  <2>1. MaySet(p, Arg(p)) /\ Head(todo[p]).op = "set" /\ Head(todo[p]) \in Steps
    BY <1>0, <1>1, Whose DEF May, Arg
  <2>2. Arg(p) \in {"Running", "Failed"} => HasTo(p, "set", {"Running", "Failed"})
    BY <1>1, <2>1, Rest, ToIs DEF HasTo, Arg
  <2>3. QED
    BY <1>1, <2>1, <2>2, Actors DEF MaySet, PilotInv
<1>3. CASE HasRow
  <2> DEFINE s == NextState(status, "Matched")
  <2>1. Store(p, s)
    BY <1>2, <1>3 DEF SetStatus
  <2>2. s \in Over \cup {"Matched"}
    <3>1. NextState("Waiting", "Matched") = "Matched"
      BY DEF NextState, Transitions
    <3>2. QED
      BY <1>1, <3>1, NextStateIs
  <2>3. CASE p \in Overlapping
    <3> DEFINE x == Write(s)
               q == <<x>>
    <3>1. Instead(p, q) /\ UNCHANGED <<status, old, task, copy>>
      BY <2>1, <2>3 DEF Store, mind
    <3>2. x \in Steps /\ May(p, x) /\ x.op = "write" /\ x.to = s
      <4>1. s \in Statuses \cup {"none"}
        BY <2>2, Names DEF Over
      <4>2. QED
        BY <4>1, KindsOfSteps DEF May, Write
    <3> HIDE DEF x
    <3>3. /\ Script(p, q)
          /\ \A i \in DOMAIN q : q[i] = x
          /\ \A S : Some(q, Ops(S)) <=> x.op \in S
          /\ \A o, S : Some(q, To(o, S)) <=> x.op = o /\ x.to \in S
      BY <3>2, SingleScript, ScriptOfOne
    <3> HIDE DEF q
    <3>4. \A y \in Steps : Before(Head(todo[p]), y) => Before(x, y)
      BY <1>0, <3>2 DEF Before, At
    <3>5. /\ Scripted'
          /\ \A b \in Actor : b # p => todo'[b] = todo[b]
          /\ \A S : Has(p, S)' => Some(q, Ops(S)) \/ Has(p, S)
          /\ \A o, S : HasTo(p, o, S)' => Some(q, To(o, S)) \/ HasTo(p, o, S)
          /\ \A S : (Has(p, S) /\ "set" \notin S) \/ Some(q, Ops(S)) => Has(p, S)'
      BY <1>0, <1>1, <3>1, <3>3, <3>4, AfterInstead
    <3>6. PilotInv(p)' /\ Matching(p)' /\ ~Live(p)'
      <4>1. Has(p, {"give"})'
        BY <1>1, <3>5
      <4>2. ~Has(p, {"check"})'
        BY <1>1, <3>2, <3>3, <3>5 DEF Past
      <4>3. \A S : s \notin S => (HasTo(p, "write", S)' => HasTo(p, "write", S))
        BY <3>2, <3>3, <3>5
      <4>4. ~HasTo(p, "write", (Statuses \cup {"none"}) \ (Over \cup {"Matched"}))'
        BY <1>1, <2>2, <4>3 DEF PilotInv
      <4>5. ~HasTo(p, "write", Optimizing \cup {"Waiting", "Staging", "Submitting", "Stalled"})'
        BY <1>1, <2>2, <4>3, Labels DEF PilotInv, Optimizing
      <4>6. QED
        BY <1>0, <1>1, <3>2, <3>3, <3>5, <4>1, <4>2, <4>4, <4>5 DEF PilotInv, Matching, Live
    <3>7. MatchStatus(p)'
      <4>1. Has(p, {"set", "write"})' /\ ~Has(p, {"check"})'
        BY <1>1, <3>2, <3>3, <3>5 DEF Past
      <4>2. QED
        BY <1>1, <3>1, <4>1 DEF MatchStatus
    <3>8. QED
      BY <1>0, <3>1, <3>5, <3>6, <3>7, MatcherGoesOn
  <2>4. CASE p \notin Overlapping
    <3>1. Done(p) /\ Put(p, s)
      BY <2>1, <2>4 DEF Store
    <3> HIDE DEF s
    <3>2. QED
      BY <1>0, <2>2, <3>1, MatcherStores
  <2>5. QED
    BY <2>3, <2>4
<1>4. CASE ~HasRow
  <2>1. Nothing(p) /\ status # "Waiting"
    BY <1>2, <1>4 DEF SetStatus, HasRow
  <2>2. QED
    BY <1>0, <2>1, MatcherKeeps
<1>5. QED
  BY <1>3, <1>4

LEMMA WriteMatched ==
  ASSUME TypeOK, JobInv, NEW p \in Pilot, WriteStatus(p), Matching(p)
  PROVE  JobInv'
<1>0. At(p, "write") /\ UNCHANGED <<pilot, given, told, pool>>
  BY DEF WriteStatus, worker, queue
<1>1. /\ p \in Actor /\ TodoOK /\ Scripted /\ PilotInv(p) /\ todo[p] # <<>>
  BY <1>0, AfterCheck
<1>2. Arg(p) \in Over \cup {"Matched"}
  <2>1. /\ Head(todo[p]).op = "write" /\ Head(todo[p]) \in Steps
        /\ Arg(p) \in Statuses \cup {"none"}
    BY <1>0, <1>1, Whose, HeadOK
  <2>2. \A S : Arg(p) \in S => HasTo(p, "write", S)
    BY <1>1, <2>1, Rest, ToIs DEF HasTo, Arg
  <2>3. QED
    BY <1>1, <2>1, <2>2 DEF PilotInv
<1>3. CASE HasRow \/ described
  BY <1>0, <1>2, <1>3, MatcherStores DEF WriteStatus
<1>4. CASE ~(HasRow \/ described)
  BY <1>0, <1>4, MatcherKeeps DEF WriteStatus, HasRow
<1>5. QED
  BY <1>3, <1>4

LEMMA GiveJobStep ==
  ASSUME TypeOK, JobInv, NEW p \in Pilot, GiveJob(p)
  PROVE  JobInv'
<1>0. /\ At(p, "give") /\ Done(p)
      /\ UNCHANGED <<status, old, task, copy, pool, told>>
  BY DEF GiveJob, Q!HandOver, row, mind
<1>1. Matching(p)
  <2>1. p \in Actor /\ TodoOK /\ Scripted /\ todo[p] # <<>> /\ PilotInv(p)
    BY <1>0, TypeParts, Actors DEF JobInv, At
  <2>2. Has(p, {"give"})
    BY <1>0, <2>1, Rest, OpsIs DEF At, Has
  <2>3. QED
    BY <2>1, <2>2 DEF PilotInv
<1>2. /\ p \in Actor /\ TodoOK /\ Scripted /\ PilotInv(p) /\ MatchStatus(p) /\ todo[p] # <<>>
      /\ Past(p) /\ ~old /\ status \in Over \cup {"Waiting", "Matched"}
  BY <1>0, <1>1, AfterCheck
<1>3. /\ Scripted' /\ Free(p)'
      /\ \A b \in Actor : b # p => todo'[b] = todo[b]
      /\ \A S : Has(p, S) <=> "give" \in S \/ Has(p, S)'
  BY <1>0, <1>2, AfterDone DEF Before
<1>4. (\A S : ~Has(p, S)') /\ (\A o, S : ~HasTo(p, o, S)')
  BY <1>3, NoStep DEF Free, Has, HasTo
<1>5. status \in Over \cup {"Matched"}
  BY <1>2, <1>3, <1>4 DEF MatchStatus
<1>6. given = 0
  BY <1>1, WhileMatching
<1>7. /\ pilot'[p] \in {"assigned", "idle"} /\ \A q \in Pilot : q # p => pilot'[q] = pilot[q]
      /\ \/ given' = 1
         \/ given' = given /\ pilot'[p] = "idle"
  BY <1>6, TypeParts DEF GiveJob, GoTo, WorkersOK
<1>8. PilotInv(p)' /\ ~Matching(p)' /\ MatchStatus(p)'
  BY <1>3, <1>4, <1>7 DEF PilotInv, Matching, MatchStatus, Past
<1>9. given' = given /\ pilot'[p] = "idle" => ~Live(p)'
  BY <1>4 DEF Live
<1>10. QED
  BY <1>0, <1>1, <1>2, <1>3, <1>5, <1>7, <1>8, <1>9, MatcherGoesOn

-----------------------------------------------------------------------------
(***************************************************************************)
(* The steps of the mind.                                                  *)
(***************************************************************************)
LEMMA MindFrame ==
  ASSUME JobInv, \A b \in Actor : b # "Mind" => todo'[b] = todo[b], UNCHANGED pilot
  PROVE  /\ Free("StalledJobAgent")' <=> Free("StalledJobAgent")
         /\ Resuming' <=> Resuming
         /\ Staged' <=> Staged
         /\ Confirming' <=> Confirming
         /\ Restarting("User")' <=> Restarting("User")
         /\ Restarting("StalledJobAgent")' <=> Restarting("StalledJobAgent")
         /\ \A p \in Pilot : /\ Matching(p)' <=> Matching(p)
                             /\ Past(p)' <=> Past(p)
                             /\ Live(p)' <=> Live(p)
                             /\ PilotInv(p)'
                             /\ \A S : Has(p, S)' <=> Has(p, S)
<1>1. \A b \in {"User", "StalledJobAgent", "RMS", "Stager"} : todo'[b] = todo[b]
  BY Actors
<1>2. /\ Free("StalledJobAgent")' <=> Free("StalledJobAgent")
      /\ Resuming' <=> Resuming
      /\ Staged' <=> Staged
      /\ Confirming' <=> Confirming
      /\ Restarting("User")' <=> Restarting("User")
      /\ Restarting("StalledJobAgent")' <=> Restarting("StalledJobAgent")
  BY <1>1 DEF Free, Resuming, Staged, Confirming, Restarting, Has, HasTo
<1>3. \A p \in Pilot : todo'[p] = todo[p]
  BY Actors
<1>4. \A p \in Pilot : \A S : Has(p, S)' <=> Has(p, S)
  BY <1>3 DEF Has
<1>5. \A p \in Pilot : /\ Matching(p)' <=> Matching(p)
                       /\ Past(p)' <=> Past(p)
                       /\ Live(p)' <=> Live(p)
  BY <1>4 DEF Live, Matching, Past
<1>6. \A p \in Pilot : PilotInv(p)'
  BY <1>3 DEF JobInv, PilotInv, Matching, Has, HasTo, Free
<1>7. QED
  BY <1>2, <1>4, <1>5, <1>6

\* a step of the mind that offers or prepares nothing anew
LEMMA MindGoesOn ==
  ASSUME TypeOK, JobInv, Scripted', MindInv',
         \A b \in Actor : b # "Mind" => todo'[b] = todo[b],
         UNCHANGED <<pilot, given>>,
         status # "Submitting", ~Restarting("User"),
         \/ status' = status /\ (old' => old)
         \/ status' \in Over /\ ~old',
         task'.same \/ copy'.same => HasRow',
         Preparing' => Preparing,
         Entering' \/ J \in pool' => Entering \/ J \in pool,
         ~(Entering' /\ J \in pool')
  PROVE  JobInv'
<1>0. Steady /\ \A p \in Pilot : MatchStatus(p) /\ PilotInv(p)
  BY DEF JobInv, Steady
<1>1. /\ Free("StalledJobAgent")' <=> Free("StalledJobAgent")
      /\ Resuming' <=> Resuming
      /\ Staged' <=> Staged
      /\ Confirming' <=> Confirming
      /\ Restarting("User")' <=> Restarting("User")
      /\ Restarting("StalledJobAgent")' <=> Restarting("StalledJobAgent")
      /\ \A p \in Pilot : /\ Matching(p)' <=> Matching(p)
                          /\ Past(p)' <=> Past(p)
                          /\ Live(p)' <=> Live(p)
                          /\ PilotInv(p)'
                          /\ \A S : Has(p, S)' <=> Has(p, S)
  BY MindFrame
<1>2. Offered' => Offered
  BY <1>1 DEF Offered
<1>3. OneOffer'
  BY <1>0, <1>1, <1>2 DEF Steady, OneOffer
<1>4. OneLive'
  BY <1>0, <1>1, <1>2, Labels DEF Steady, OneLive
<1>5. OfferStatus'
  BY <1>0, Labels DEF Steady, OfferStatus
<1>6. \A p \in Pilot : MatchStatus(p)'
  BY <1>0, <1>1, Labels DEF MatchStatus
<1>7. StagedInv'
  BY <1>0, <1>1, <1>2, Labels DEF Steady, StagedInv
<1>8. Pristine' /\ Sealed'
  BY <1>1, Labels DEF Pristine, Sealed
<1>9. ~Confirming
  BY <1>0 DEF Steady, CalmInv
<1>10. CalmInv'
  <2>1. CASE status' = status /\ (old' => old)
    <3>1. Calm => Calm'
      BY <1>1, <1>2, <2>1 DEF Calm
    <3>2. QED
      BY <1>0, <1>1, <1>9, <2>1, <3>1 DEF Steady, CalmInv
  <2>2. CASE status' \in Over /\ ~old'
    <3>1. Calm => Calm'
      BY <1>1, <1>2, <2>2, Labels DEF Calm
    <3>2. QED
      BY <1>0, <1>1, <1>9, <2>2, <3>1, Labels DEF Steady, CalmInv
  <2>3. QED
    BY <2>1, <2>2
<1>11. QED
  BY <1>1, <1>3, <1>4, <1>5, <1>6, <1>7, <1>8, <1>10 DEF JobInv, Steady

\* where the mind is, the job was submitted, and no user starts it again
LEMMA MindIsAtIt ==
  ASSUME TypeOK, JobInv, ~Free("Mind") \/ task.pc # "none"
  PROVE  /\ status # "Submitting" /\ ~Restarting("User")
         /\ "Mind" \in Actor /\ TodoOK /\ Scripted /\ MindInv /\ Steady
BY TypeParts, Actors DEF JobInv, Steady, Pristine, Sealed

LEMMA Forgotten ==
  ASSUME TypeOK, JobInv, ~Free("Mind"), GiveUp("Mind"), ForgetTask,
         UNCHANGED <<status, old, pilot, given, pool, told>>
  PROVE  JobInv'
<1>0. /\ status # "Submitting" /\ ~Restarting("User")
      /\ "Mind" \in Actor /\ TodoOK /\ Scripted
  BY MindIsAtIt
<1>1. /\ Scripted' /\ \A b \in Actor : b # "Mind" => todo'[b] = todo[b]
      /\ \A S : ~Has("Mind", S)'
      /\ \A o, S : ~HasTo("Mind", o, S)'
  BY <1>0, AfterGiveUp
<1>2. task'.pc = "none" /\ ~task'.same /\ ~copy'.same /\ copy'.want = "none"
  BY DEF ForgetTask, NoTask, NoCopy
<1>3. MindInv'
  BY <1>1, <1>2 DEF MindInv
<1>4. ~Entering' /\ (Preparing' => Preparing)
  BY <1>1, <1>2 DEF Entering, Compared, Preparing, Valid, ValidTask, ValidCopy, ToSet, Rereading
<1>5. QED
  BY <1>0, <1>1, <1>2, <1>3, <1>4, MindGoesOn

LEMMA CompareStep ==
  ASSUME TypeOK, JobInv, Compare
  PROVE  JobInv'
<1>0. /\ At("Mind", "compare") /\ ~Free("Mind")
      /\ UNCHANGED <<status, old, pilot, given, pool, told>>
  BY DEF Compare, At, Free, row, worker, queue
<1>1. /\ status # "Submitting" /\ ~Restarting("User")
      /\ "Mind" \in Actor /\ TodoOK /\ Scripted /\ MindInv /\ Steady
  BY <1>0, MindIsAtIt
<1>2. CASE ~copy.same
  BY <1>0, <1>2, Forgotten DEF Compare
<1>3. CASE copy.same
  <2>1. Done("Mind") /\ UNCHANGED <<task, copy>>
    BY <1>3 DEF Compare, mind
  <2>2. /\ Scripted' /\ \A b \in Actor : b # "Mind" => todo'[b] = todo[b]
        /\ \A S : Has("Mind", S) <=> "compare" \in S \/ Has("Mind", S)'
        /\ \A o, S : HasTo("Mind", o, S)' => HasTo("Mind", o, S)
        /\ ~Has("Mind", {"compare"})'
    BY <1>0, <1>1, <2>1, AfterDone DEF Before
  <2>3. MindInv'
    BY <1>1, <2>1, <2>2 DEF MindInv
  <2>4. Preparing
    BY <1>3, <2>2 DEF Preparing, Valid, ValidCopy
  <2>5. ~Entering'
    BY <1>1, <2>2 DEF Entering, MindInv
  <2>6. task.same \/ copy.same => HasRow
    BY <1>1 DEF Steady, OfferStatus
  <2>7. task'.same \/ copy'.same => HasRow'
    BY <1>0, <2>1, <2>6 DEF HasRow
  <2>8. QED
    BY <1>0, <1>1, <2>2, <2>3, <2>4, <2>5, <2>7, MindGoesOn
<1>4. QED
  BY <1>2, <1>3

LEMMA RereadStep ==
  ASSUME TypeOK, JobInv, Reread
  PROVE  JobInv'
<1>0. /\ At("Mind", "reread") /\ ~Free("Mind")
      /\ UNCHANGED <<status, old, pilot, given, pool, told>>
  BY DEF Reread, At, Free, row, worker, queue
<1>1. /\ status # "Submitting" /\ ~Restarting("User")
      /\ "Mind" \in Actor /\ TodoOK /\ Scripted /\ MindInv /\ Steady
  BY <1>0, MindIsAtIt
<1>2. CASE ~HasRow
  BY <1>0, <1>2, Forgotten DEF Reread
<1>3. CASE HasRow
  <2>1. Done("Mind") /\ UNCHANGED task /\ copy'.same /\ copy'.want = copy.want
    BY <1>3, TypeParts DEF Reread, MindOK
  <2>2. /\ Scripted' /\ \A b \in Actor : b # "Mind" => todo'[b] = todo[b]
        /\ \A S : Has("Mind", S) <=> "reread" \in S \/ Has("Mind", S)'
        /\ \A o, S : HasTo("Mind", o, S)' => HasTo("Mind", o, S)
        /\ ~Has("Mind", {"compare"})' /\ ~Has("Mind", {"set"})' /\ ~Has("Mind", {"reread"})'
    BY <1>0, <1>1, <2>1, AfterDone DEF Before
  <2>3. MindInv'
    BY <1>1, <2>1, <2>2 DEF MindInv
  <2>4. Has("Mind", {"dispatch"}) /\ Has("Mind", {"reread"}) /\ Compared /\ ~Has("Mind", {"set"})
    <3>1. Has("Mind", {"reread"}) /\ ~Has("Mind", {"compare"}) /\ ~Has("Mind", {"set"})
      BY <2>2
    <3>2. Has("Mind", {"compare", "reread", "insert"})
      BY <2>2
    <3>3. QED
      BY <1>1, <3>1, <3>2 DEF MindInv, Compared
  <2>5. Entering' => Entering
    BY <2>1, <2>4 DEF Entering
  <2>6. Preparing' => Preparing
    <3>1. ValidTask' => ValidTask
      BY <2>1 DEF ValidTask
    <3>2. ~ValidCopy' /\ ~ToSet'
      BY <2>2 DEF ValidCopy, ToSet
    <3>3. Rereading' => Rereading
      BY <2>1, <2>4 DEF Rereading
    <3>4. QED
      BY <1>0, <3>1, <3>2, <3>3 DEF Preparing, Valid
  <2>7. HasRow'
    BY <1>0, <1>3 DEF HasRow
  <2>8. ~(Entering' /\ J \in pool')
    BY <1>0, <1>1, <2>5 DEF Steady, OneOffer
  <2>9. QED
    BY <1>0, <1>1, <2>2, <2>3, <2>5, <2>6, <2>7, <2>8, MindGoesOn
<1>4. QED
  BY <1>2, <1>3

LEMMA DispatchStep ==
  ASSUME TypeOK, JobInv, Dispatch
  PROVE  JobInv'
<1>0. /\ At("Mind", "dispatch") /\ ~Free("Mind") /\ Done("Mind") /\ copy' = NoCopy
      /\ UNCHANGED <<status, old, pilot, given, pool, told>>
  BY DEF Dispatch, At, Free, row, worker, queue
<1>1. /\ status # "Submitting" /\ ~Restarting("User")
      /\ "Mind" \in Actor /\ TodoOK /\ Scripted /\ MindInv /\ Steady
  BY <1>0, MindIsAtIt
<1>2. /\ Scripted' /\ \A b \in Actor : b # "Mind" => todo'[b] = todo[b]
      /\ \A S : Has("Mind", S) <=> "dispatch" \in S \/ Has("Mind", S)'
      /\ Free("Mind")'
  BY <1>0, <1>1, AfterDone DEF Before
<1>3. (\A S : ~Has("Mind", S)') /\ (\A o, S : ~HasTo("Mind", o, S)')
  BY <1>2, NoStep DEF Free, Has, HasTo
<1>4. MindInv'
  BY <1>0, <1>3 DEF MindInv, NoCopy
<1>5. Compared
  BY <1>2, <1>3 DEF Compared
<1>6. ~copy'.same /\ (task'.pc = "optimizing" /\ task'.same => ValidTask \/ Rereading)
      /\ (task'.same => task.same \/ copy.same)
  <2>1. CASE task.pc # "committing"
    BY <1>0, <2>1 DEF Dispatch, NoCopy, ValidTask
  <2>2. CASE task.pc = "committing" /\ copy.want \in Optimizing
    <3>1. copy.want = "Checking"
      BY <1>1, <2>2 DEF MindInv, Optimizing
    <3>2. QED
      BY <1>0, <1>5, <2>2, <3>1 DEF Dispatch, NoCopy, Rereading
  <2>3. CASE task.pc = "committing" /\ copy.want \notin Optimizing
    BY <1>0, <2>3 DEF Dispatch, NoCopy, NoTask
  <2>4. QED
    BY <2>1, <2>2, <2>3
<1>7. ~Entering' /\ (Preparing' => Preparing)
  BY <1>0, <1>3, <1>6 DEF Entering, Compared, Preparing, Valid, ValidTask, ValidCopy, ToSet, Rereading
<1>8. task'.same \/ copy'.same => HasRow'
  BY <1>0, <1>1, <1>6 DEF Steady, OfferStatus, HasRow
<1>9. QED
  BY <1>0, <1>1, <1>2, <1>4, <1>7, <1>8, MindGoesOn


LEMMA AtInsert ==
  ASSUME TypeOK, JobInv, At("Mind", "insert")
  PROVE  /\ Has("Mind", {"insert"}) /\ ~Has("Mind", {"compare"})
         /\ ~Has("Mind", {"set"}) /\ ~Has("Mind", {"reread"})
         /\ Compared /\ copy.want = "Waiting"
<1>0. "Mind" \in Actor /\ TodoOK /\ Scripted /\ MindInv
  BY TypeParts, Actors DEF JobInv
<1> DEFINE h == Head(todo["Mind"])
           r == Tail(todo["Mind"])
<1>1. /\ h \in Steps /\ h.op = "insert"
      /\ \A X : Some(todo["Mind"], X) <=> h \in X \/ Some(r, X)
      /\ \A X : Some(r, X) => \E x \in X : x \in Steps /\ Before(h, x)
  BY <1>0, Rest DEF At
<1> HIDE DEF h, r
<1>2. h \in Ops({"insert"}) /\ \A o \in {"compare", "set", "reread"} : h \notin Ops({o})
  BY <1>1, OpsIs
<1>3. \A o \in {"compare", "set", "reread"} : ~Some(r, Ops({o}))
  BY <1>1, OpsIs DEF Before
<1>4. Has("Mind", {"insert"}) /\ \A o \in {"compare", "set", "reread"} : ~Has("Mind", {o})
  BY <1>1, <1>2, <1>3 DEF Has
<1>5. Has("Mind", {"compare", "reread", "insert"})
  BY <1>4 DEF Has, Some, Ops
<1>6. QED
  BY <1>0, <1>4, <1>5 DEF MindInv, Compared

LEMMA InsertIntoTQStep ==
  ASSUME TypeOK, JobInv, Orderly, InsertIntoTQ
  PROVE  JobInv'
<1>0. /\ At("Mind", "insert") /\ ~Free("Mind")
      /\ UNCHANGED <<status, old, pilot, given>>
  BY DEF InsertIntoTQ, At, Free, row, worker
<1>1. /\ status # "Submitting" /\ ~Restarting("User")
      /\ "Mind" \in Actor /\ TodoOK /\ Scripted /\ MindInv /\ Steady
  BY <1>0, MindIsAtIt
<1>2. /\ Has("Mind", {"insert"}) /\ ~Has("Mind", {"compare"})
      /\ ~Has("Mind", {"set"}) /\ ~Has("Mind", {"reread"})
      /\ Compared /\ copy.want = "Waiting"
  BY <1>0, AtInsert
<1>3. task.same \/ copy.same => HasRow
  BY <1>1 DEF Steady, OfferStatus
<1>4. told \in [{J} -> {"none", "asked", "entered", "ok", "error"}]
  BY TypeParts DEF Q!PoolTypeOK
<1>5. ASSUME UNCHANGED <<todo, mind>> PROVE
         /\ Scripted' /\ MindInv' /\ \A b \in Actor : b # "Mind" => todo'[b] = todo[b]
         /\ (task'.same \/ copy'.same => HasRow') /\ (Preparing' => Preparing)
         /\ Compared' /\ ~Has("Mind", {"set"})' /\ ~Has("Mind", {"reread"})'
         /\ Has("Mind", {"insert"})' /\ copy'.want = "Waiting"
  <2>1. task' = task /\ copy' = copy /\ todo' = todo
    BY <1>5 DEF mind
  <2>2. Scripted'
    BY <1>1, <2>1 DEF Scripted
  <2>3. \A S : Has("Mind", S)' <=> Has("Mind", S)
    BY <2>1 DEF Has
  <2>4. \A o, S : HasTo("Mind", o, S)' <=> HasTo("Mind", o, S)
    BY <2>1 DEF HasTo
  <2>5. MindInv' /\ Compared'
    BY <1>1, <1>2, <2>1, <2>3, <2>4 DEF MindInv, Compared
  <2>6. Preparing' => Preparing
    BY <1>0, <2>1, <2>3
       DEF Preparing, Valid, ValidTask, ValidCopy, ToSet, Compared, Rereading
  <2>7. QED
    BY <1>0, <1>2, <1>3, <2>1, <2>2, <2>3, <2>5, <2>6 DEF HasRow
<1>6. CASE Q!Ask(J) /\ UNCHANGED <<todo, mind>>
  <2>1. told[J] # "entered" /\ pool' = pool
    BY <1>6 DEF Q!Ask
  <2>2. Entering
    BY <1>2, <2>1 DEF Entering
  <2>3. J \notin pool
    BY <1>1, <2>2 DEF Steady, OneOffer
  <2>4. QED
    BY <1>0, <1>1, <1>5, <1>6, <2>1, <2>2, <2>3, MindGoesOn
<1>7. CASE told[J] = "asked" /\ Q!Enter(J) /\ UNCHANGED <<todo, mind>>
  <2>1. Entering
    BY <1>2, <1>7 DEF Entering
  <2>2. told'[J] = "entered"
    BY <1>4, <1>7 DEF Q!Enter
  <2>3. ~Entering'
    BY <1>5, <1>7, <2>2 DEF Entering
  <2>4. QED
    BY <1>0, <1>1, <1>5, <1>7, <2>1, <2>3, MindGoesOn
<1>8. CASE Q!Confirm(J) /\ Done("Mind") /\ UNCHANGED mind
  <2>1. pool' = pool /\ task' = task /\ copy' = copy
    BY <1>8 DEF Q!Confirm, mind
  <2>2. /\ Scripted' /\ \A b \in Actor : b # "Mind" => todo'[b] = todo[b]
        /\ \A S : Has("Mind", S) <=> "insert" \in S \/ Has("Mind", S)'
        /\ \A o, S : HasTo("Mind", o, S)' => HasTo("Mind", o, S)
        /\ ~Has("Mind", {"insert"})'
    BY <1>0, <1>1, <1>8, AfterDone DEF Before
  <2>3. MindInv'
    BY <1>1, <1>2, <2>1, <2>2 DEF MindInv, Compared
  <2>4. ~Has("Mind", {"reread"})' /\ ~Has("Mind", {"set"})' /\ ~Has("Mind", {"compare"})'
    BY <1>2, <2>2
  <2>5. ~Entering'
    BY <2>2, <2>4 DEF Entering
  <2>6. Preparing' => Preparing
    BY <1>0, <1>2, <2>1, <2>4 DEF Preparing, Valid, ValidTask, ValidCopy, ToSet, Rereading
  <2>7. task'.same \/ copy'.same => HasRow'
    BY <1>0, <1>3, <2>1 DEF HasRow
  <2>8. QED
    BY <1>0, <1>1, <2>1, <2>2, <2>3, <2>5, <2>6, <2>7, MindGoesOn
<1>9. "queue" \notin Faults
  BY DEF Orderly
<1>10. QED
  BY <1>6, <1>7, <1>8, <1>9 DEF InsertIntoTQ

\* the commit of a copy that prepares an offer
LEMMA MindOffers ==
  ASSUME TypeOK, JobInv, Scripted', MindInv', ToSet, ~Free("Mind"),
         \A b \in Actor : b # "Mind" => todo'[b] = todo[b],
         UNCHANGED <<pilot, given, pool>>,
         ~Has("Mind", {"set"})', ~Has("Mind", {"compare"})',
         copy'.want = copy.want, ~task'.same, ~copy'.same,
         old' => status' = "none",
         status' \in IF copy.want = "Checking" THEN Optimizing \cup Over
                     ELSE IF copy.want = "Waiting" THEN Over \cup {"Waiting"}
                     ELSE Over \cup {"Received", "Staging"}
  PROVE  JobInv'
<1>0. /\ Steady /\ ~Restarting("User") /\ \A p \in Pilot : PilotInv(p)
  BY MindIsAtIt DEF JobInv
<1>1. Preparing /\ copy.want \in {"Checking", "Waiting", "Staging"}
  BY DEF Preparing, ToSet
<1>2. ~Offered /\ given = 0 /\ \A p \in Pilot : ~Live(p)
  BY <1>0, <1>1 DEF Steady, OneOffer, OneLive
<1>3. ~Calm /\ ~Staged /\ status # "Staging"
  BY <1>0, <1>1 DEF Steady, StagedInv, Calm
<1>4. Free("StalledJobAgent") /\ ~Resuming /\ status # "Submitting"
  BY <1>0, <1>3, MindIsAtIt DEF Steady, CalmInv
<1>5. ~Confirming /\ ~Restarting("StalledJobAgent")
  BY <1>0, <1>4, FreeHas DEF Steady, CalmInv, Restarting
<1>6. /\ Free("StalledJobAgent")' /\ ~Resuming' /\ ~Staged' /\ ~Confirming'
      /\ ~Restarting("User")' /\ ~Restarting("StalledJobAgent")'
      /\ \A p \in Pilot : ~Matching(p)' /\ ~Past(p)' /\ ~Live(p)' /\ PilotInv(p)'
  BY <1>0, <1>2, <1>3, <1>4, <1>5, MindFrame DEF Offered, Past
<1>7. J \notin pool' /\ given' = 0 /\ (Offered' => Entering')
  BY <1>2, <1>6 DEF Offered
<1>8. Entering' => copy.want = "Waiting"
  BY DEF Entering
<1>9. Preparing' => status' \in Optimizing \/ copy.want = "Checking"
  BY DEF Preparing, Valid, ValidTask, ValidCopy, ToSet, Rereading
<1>10. Entering' => ~Preparing' /\ status' \in Over \cup {"Waiting"}
  BY <1>8, <1>9, Labels
<1>11. OneOffer' /\ OneLive'
  BY <1>6, <1>7, <1>10 DEF OneOffer, OneLive
<1>12. OfferStatus'
  BY <1>7, <1>9, <1>10 DEF OfferStatus
<1>13. \A p \in Pilot : MatchStatus(p)'
  BY <1>6 DEF MatchStatus, PilotInv
<1>14. status' # "Submitting" /\ status' # "Stalled"
  BY <1>1, Labels DEF Optimizing
<1>15. status' = "Staging" => copy.want = "Staging"
  BY <1>1, Labels
<1>16. StagedInv'
  BY <1>6, <1>7, <1>8, <1>9, <1>15, Labels DEF StagedInv
<1>17. Pristine' /\ Sealed'
  BY <1>6, <1>14 DEF Pristine, Sealed
<1>18. CalmInv'
  BY <1>6, <1>14 DEF CalmInv
<1>19. QED
  BY <1>6, <1>11, <1>12, <1>13, <1>16, <1>17, <1>18 DEF JobInv, Steady

\* where the state machine lets the mind go
LEMMA Offers ==
  ASSUME NEW c \in Optimizing \cup Over, c # "none", NEW w \in {"Checking", "Waiting", "Staging"}
  PROVE  NextState(c, w) \in IF w = "Checking" THEN Optimizing \cup Over
                             ELSE IF w = "Waiting" THEN Over \cup {"Waiting"}
                             ELSE Over \cup {"Received", "Staging"}
BY DEF NextState, Transitions, Over, Optimizing

LEMMA SetOfMind ==
  ASSUME TypeOK, JobInv, Orderly, SetStatus("Mind")
  PROVE  JobInv'
<1>0. /\ At("Mind", "set") /\ ~Free("Mind") /\ "Mind" \in Service
      /\ UNCHANGED <<pilot, given, told, pool>>
  BY DEF SetStatus, At, Free, worker, queue, Service
<1>1. /\ status # "Submitting" /\ ~Restarting("User")
      /\ "Mind" \in Actor /\ TodoOK /\ Scripted /\ MindInv /\ Steady
  BY <1>0, MindIsAtIt
<1>2. Arg("Mind") \in {"Checking", "Waiting", "Staging", "Failed"}
  BY <1>0, <1>1, Whose, Actors DEF Arg, May, MaySet, Janitors
<1> DEFINE w == Arg("Mind")
           s == NextState(status, w)
<1>3. /\ Done("Mind") /\ status' \in {status, s} /\ (status' = status \/ HasRow)
      /\ \/ HasRow /\ status' = s /\ ~old' /\ Touch
         \/ ~HasRow /\ UNCHANGED <<status, old, mind>>
  <2>1. CASE HasRow
    BY <1>0, <2>1, ServiceStores DEF SetStatus
  <2>2. CASE ~HasRow
    BY <1>2, <2>2 DEF SetStatus, Nothing
  <2>3. QED
    BY <2>1, <2>2
<1>4. task.same \/ copy.same => HasRow
  BY <1>1 DEF Steady, OfferStatus
<1>5. /\ task'.pc = task.pc /\ copy'.want = copy.want /\ ~task'.same /\ ~copy'.same
  BY <1>3, <1>4, Touched DEF mind
<1>6. /\ Scripted' /\ \A b \in Actor : b # "Mind" => todo'[b] = todo[b]
      /\ \A S : Has("Mind", S) <=> "set" \in S \/ Has("Mind", S)'
      /\ \A o, S : HasTo("Mind", o, S) <=> (o = "set" /\ w \in S) \/ HasTo("Mind", o, S)'
  BY <1>0, <1>1, <1>3, AfterDone
<1>7. ~Has("Mind", {"set"})' /\ ~Has("Mind", {"compare"})'
  <2>1. /\ \A S : Has("Mind", S)' => \E x \in Steps : x.op \in S /\ Before(Head(todo["Mind"]), x)
        /\ Head(todo["Mind"]).op = "set"
    BY <1>0, <1>1, <1>3, AfterDone
  <2>2. QED
    BY <1>2, <2>1 DEF Before, Arg
<1>8. MindInv'
  BY <1>1, <1>5, <1>6, <1>7 DEF MindInv
<1>9. /\ ~ValidTask' /\ ~ValidCopy' /\ ~ToSet'
      /\ Compared' => Compared
  BY <1>5, <1>6, <1>7 DEF ValidTask, ValidCopy, ToSet, Compared
<1>10. CASE ~Has("Mind", {"dispatch"}) \/ copy.want \notin {"Checking", "Waiting", "Staging"}
  <2>1. w = "Failed"
    <3>1. CASE ~Has("Mind", {"dispatch"})
      BY <1>1, <1>2, <1>6, <3>1 DEF MindInv
    <3>2. CASE Has("Mind", {"dispatch"}) /\ copy.want \notin {"Checking", "Waiting", "Staging"}
      <4>1. w \notin Statuses \ {copy.want}
        BY <1>1, <1>6, <3>2 DEF MindInv
      <4>2. QED
        BY <1>2, <3>2, <4>1, Names
    <3>3. QED
      BY <1>10, <3>1, <3>2
  <2>2. s \in {status, "Failed"}
    BY <2>1, NextStateIs
  <2>3. (status' = status /\ (old' => old)) \/ (status' \in Over /\ ~old')
    <3>1. CASE s = "Failed"
      BY <1>3, <3>1 DEF Over
    <3>2. CASE s = status
      BY <1>3, <3>2
    <3>3. QED
      BY <2>2, <3>1, <3>2
  <2>4. ~Compared' \/ copy'.want \notin {"Checking", "Waiting"}
    BY <1>5, <1>6, <1>10 DEF Compared
  <2>5. ~Entering' /\ ~Rereading'
    BY <2>4 DEF Entering, Rereading
  <2>6. status' \in Optimizing => status \in Optimizing
    BY <2>3, Labels
  <2>7. Preparing' => Preparing
    BY <1>9, <2>5, <2>6 DEF Preparing, Valid
  <2>8. QED
    BY <1>0, <1>1, <1>5, <1>6, <1>8, <2>3, <2>5, <2>7, MindGoesOn
<1>11. CASE Has("Mind", {"dispatch"}) /\ copy.want \in {"Checking", "Waiting", "Staging"}
  <2>1. w = copy.want
    BY <1>1, <1>2, <1>6, <1>11, Names DEF MindInv
  <2>2. Has("Mind", {"set"}) /\ ~Has("Mind", {"compare"})
    BY <1>6, <1>7
  <2>3. ToSet
    BY <1>11, <2>2 DEF ToSet, Compared
  <2>4. status \in Optimizing \cup Over
    BY <1>1, <2>3 DEF Steady, OfferStatus, Preparing
  <2>5. status' \in IF copy.want = "Checking" THEN Optimizing \cup Over
                    ELSE IF copy.want = "Waiting" THEN Over \cup {"Waiting"}
                    ELSE Over \cup {"Received", "Staging"}
    <3>1. CASE HasRow
      BY <1>3, <1>11, <2>1, <2>4, <3>1, Offers DEF HasRow
    <3>2. CASE ~HasRow
      BY <1>3, <3>2 DEF HasRow, Over
    <3>3. QED
      BY <3>1, <3>2
  <2>6. old' => status' = "none"
    BY <1>3 DEF HasRow
  <2>7. QED
    BY <1>0, <1>5, <1>6, <1>7, <1>8, <2>3, <2>5, <2>6, MindOffers
<1>12. QED
  BY <1>10, <1>11

LEMMA TaskErrorStep ==
  ASSUME TypeOK, JobInv, TaskError
  PROVE  JobInv'
<1>0. /\ Begin("Mind", <<Set("Failed")>>) /\ task' = NoTask
      /\ UNCHANGED <<status, old, copy, pilot, given, told, pool>>
  BY DEF TaskError, row, worker, queue
<1>1. /\ status # "Submitting" /\ ~Restarting("User")
      /\ "Mind" \in Actor /\ MindInv /\ Steady
  BY MindIsAtIt DEF TaskError
<1> DEFINE x == Set("Failed")
           q == <<x>>
<1>2. x \in Steps /\ May("Mind", x) /\ x.op = "set" /\ x.to = "Failed"
  BY KindsOfSteps, Names DEF May, MaySet, Set
<1>3. Begin("Mind", q)
  BY <1>0
<1> HIDE DEF x
<1>4. /\ Script("Mind", q)
      /\ \A S : Some(q, Ops(S)) <=> x.op \in S
      /\ \A o, S : Some(q, To(o, S)) <=> x.op = o /\ x.to \in S
  BY <1>2, ScriptOfOne
<1> HIDE DEF q
<1>5. /\ Scripted' /\ \A b \in Actor : b # "Mind" => todo'[b] = todo[b]
      /\ \A S : Has("Mind", S)' <=> "set" \in S
      /\ \A o, S : HasTo("Mind", o, S)' <=> o = "set" /\ "Failed" \in S
  BY <1>1, <1>2, <1>3, <1>4, AfterBegin
<1>6. MindInv'
  BY <1>0, <1>1, <1>5 DEF MindInv
<1>7. ~Compared' /\ ~ValidTask' /\ ~ValidCopy'
  BY <1>0, <1>5 DEF Compared, ValidTask, ValidCopy, NoTask
<1>8. ~Entering' /\ (Preparing' => Preparing)
  BY <1>0, <1>7 DEF Entering, Preparing, Valid, ToSet, Rereading
<1>9. task'.same \/ copy'.same => HasRow'
  BY <1>0, <1>1 DEF Steady, OfferStatus, HasRow, NoTask
<1>10. QED
  BY <1>0, <1>1, <1>5, <1>6, <1>8, <1>9, MindGoesOn

LEMMA CommitScript ==
  ASSUME NEW s \in {"Checking", "Waiting", "Staging", "Failed"}
  PROVE  LET q == Commit(s)
         IN  /\ Script("Mind", q)
             /\ Some(q, Ops({"compare"})) /\ Some(q, Ops({"dispatch"})) /\ Some(q, Ops({"set"}))
             /\ Some(q, Ops({"insert"})) => s = "Waiting"
             /\ ~Some(q, To("set", Statuses \ {s}))
<1> DEFINE q == Commit(s)
           steps == {Op("compare"), Set(s), Op("reread"), Op("insert"), Op("dispatch")}
<1>1. s \in Statuses
  BY Names
<1>2. /\ q \in Seq(Steps) /\ Ordered(q)
      /\ \A X : Some(q, X) <=> \/ Op("compare") \in X \/ Set(s) \in X \/ Op("reread") \in X
                               \/ s = "Waiting" /\ Op("insert") \in X
                               \/ Op("dispatch") \in X
  BY <1>1, CommitSteps
<1> HIDE DEF q
<1>3. \A x \in steps : x \in Steps /\ May("Mind", x)
  BY <1>1, KindsOfSteps DEF May, MaySet, Op, Set
<1>4. \A X : Some(q, X) => \E x \in steps : x \in X
  BY <1>2
<1>5. ~Some(q, Strange("Mind"))
  BY <1>3, <1>4, StrangeIs
<1>6. /\ Op("compare") \in Ops({"compare"}) /\ Op("dispatch") \in Ops({"dispatch"})
      /\ Set(s) \in Ops({"set"})
  BY <1>3, OpsIs DEF Op, Set
<1>7. \A x \in steps : x \in Ops({"insert"}) => x = Op("insert")
  BY DEF Ops, Op, Set
<1>8. \A x \in steps : x \notin To("set", Statuses \ {s})
  BY DEF To, Op, Set
<1>9. Op("insert") \notin {Op("compare"), Set(s), Op("reread"), Op("dispatch")}
  BY DEF Op, Set
<1>10. Some(q, Ops({"insert"})) => s = "Waiting"
  BY <1>2, <1>7, <1>9
<1>11. Some(q, Ops({"compare"})) /\ Some(q, Ops({"dispatch"})) /\ Some(q, Ops({"set"}))
  BY <1>2, <1>6
<1>12. ~Some(q, To("set", Statuses \ {s}))
  BY <1>4, <1>8
<1>13. Script("Mind", q)
  BY <1>2, <1>5 DEF Script
<1>14. QED
  BY <1>10, <1>11, <1>12, <1>13 DEF q

LEMMA TaskDoneStep ==
  ASSUME TypeOK, JobInv, NEW s \in Statuses, TaskDone(s)
  PROVE  JobInv'
<1>0. /\ task.pc = "optimizing" /\ copy' = [want |-> s, same |-> task.same]
      /\ UNCHANGED <<status, old, pilot, given, told, pool>>
      /\ task'.pc = "committing" /\ ~task'.same
  BY DEF TaskDone, row, worker, queue, NoTask
<1>1. /\ status # "Submitting" /\ ~Restarting("User")
      /\ "Mind" \in Actor /\ MindInv /\ Steady
  BY <1>0, MindIsAtIt
<1>2. s \in {"Checking", "Waiting", "Staging", "Failed"}
  BY DEF TaskDone, Outcomes
<1> DEFINE q == Commit(s)
<1>3. /\ Script("Mind", q)
      /\ Some(q, Ops({"compare"})) /\ Some(q, Ops({"dispatch"})) /\ Some(q, Ops({"set"}))
      /\ Some(q, Ops({"insert"})) => s = "Waiting"
      /\ ~Some(q, To("set", Statuses \ {s}))
  BY <1>2, CommitScript
<1>4. Begin("Mind", q)
  BY DEF TaskDone
<1> HIDE DEF q
<1>5. /\ Scripted' /\ \A b \in Actor : b # "Mind" => todo'[b] = todo[b]
      /\ \A S : Has("Mind", S)' <=> Some(q, Ops(S))
      /\ \A o, S : HasTo("Mind", o, S)' <=> Some(q, To(o, S))
  BY <1>1, <1>3, <1>4, AfterBegin
<1>6. MindInv'
  BY <1>0, <1>2, <1>3, <1>5 DEF MindInv
<1>7. ~Compared' /\ ~ValidTask' /\ (ValidCopy' => ValidTask)
  BY <1>0, <1>3, <1>5 DEF Compared, ValidTask, ValidCopy
<1>8. ~Entering' /\ (Preparing' => Preparing)
  BY <1>0, <1>7 DEF Entering, Preparing, Valid, ToSet, Rereading
<1>9. task'.same \/ copy'.same => HasRow'
  BY <1>0, <1>1 DEF Steady, OfferStatus, HasRow
<1>10. QED
  BY <1>0, <1>1, <1>5, <1>6, <1>8, <1>9, MindGoesOn

-----------------------------------------------------------------------------
(***************************************************************************)
(* Every step.                                                             *)
(***************************************************************************)
LEMMA StatusSteps ==
  ASSUME TypeOK, JobInv, Orderly, NEW a \in Actor, StatusStep(a)
  PROVE  JobInv'
<1>1. ASSUME SetStatus(a) PROVE JobInv'
  <2>1. CASE a = "Mind"
    BY <1>1, <2>1, SetOfMind
  <2>2. CASE a \in Pilot
    BY <1>1, <2>2, SetMatched, SetOfPilot
  <2>3. CASE a # "Mind" /\ a \notin Pilot /\ Arg(a) = "Received"
    BY <1>1, <2>3, SetReceived
  <2>4. CASE a # "Mind" /\ a \notin Pilot /\ Arg(a) # "Received"
    <3>1. At(a, "set")
      BY <1>1 DEF SetStatus
    <3>2. MaySet(a, Arg(a))
      BY <3>1, Whose DEF May, Arg
    <3>3. a \in Janitors
      BY <2>4, <3>2 DEF MaySet, Janitors
    <3>4. QED
      BY <1>1, <2>4, <3>3, SetStatusOfJanitor
  <2>5. QED
    BY <2>1, <2>2, <2>3, <2>4
<1>2. ASSUME ReportStatus(a) PROVE JobInv'
  <2>1. At(a, "report")
    BY <1>2 DEF ReportStatus
  <2>2. MayReport(a, Arg(a))
    BY <2>1, Whose DEF May, Arg
  <2>3. a = "Stager" \/ a = "RMS" \/ a \in Pilot
    BY <2>2 DEF MayReport
  <2>4. QED
    BY <1>2, <2>3, ReportOfStager, ReportOfRequest, ReportOfPilot
<1>3. ASSUME WriteStatus(a) PROVE JobInv'
  <2>1. At(a, "write")
    BY <1>3 DEF WriteStatus
  <2>2. a \in Pilot
    BY <2>1, Whose DEF May
  <2>3. QED
    BY <1>3, <2>2, WriteMatched, WriteOfPilot
<1>4. QED
  BY <1>1, <1>2, <1>3 DEF StatusStep

LEMMA NextJobs == TypeOK /\ JobInv /\ Orderly /\ [Next]_vars => JobInv'
<1> SUFFICES ASSUME TypeOK, JobInv, Orderly, [Next]_vars PROVE JobInv'
  OBVIOUS
<1>1. ASSUME NEW a \in Actor, RowStep(a) PROVE JobInv'
  BY <1>1, StatusSteps, RescheduleStep, RestartJobStep, ResetCounterStep, DequeueStep,
     SetJobCommandStep, KillOrDeleteStep, KillStagingStep, DeleteRowStep, DeleteDescriptionStep,
     OptimizeJobsStep, RecheckStep, RejectStep, AwaitStagingStep
     DEF RowStep
<1>2. ASSUME MindStep PROVE JobInv'
  BY <1>2, CompareStep, RereadStep, InsertIntoTQStep, DispatchStep DEF MindStep
<1>3. ASSUME NEW p \in Pilot, TakeFromTQ(p) \/ PilotStep(p) PROVE JobInv'
  BY <1>3, TakeFromTQStep, CheckWaitingStep, GiveJobStep, BeatStep, RestoreStep, ObeyStep
     DEF PilotStep
<1>4. ASSUME NEW p \in Pilot, StartWrapper(p) \/ ReportProgress(p) \/ GiveBack(p) \/ LosePilot(p)
      PROVE  JobInv'
  BY <1>4, StartWrapperStep, ReportProgressStep, GiveBackStep, LosePilotStep
<1>5. ASSUME NEW p \in Pilot, NEW s \in {"Done", "Completed", "Failed"}, Finish(p, s)
      PROVE  JobInv'
  BY <1>5, FinishStep
<1>6. CASE LoadJobs \/ TaskError \/ \E s \in Statuses : TaskDone(s)
  BY <1>6, LoadJobsStep, TaskErrorStep, TaskDoneStep
<1>7. CASE \/ Age \/ AgentStarts \/ FinalizeRequest \/ ConfirmSubmission
           \/ \E s \in {"Checking", "none"} : StagerAnswers(s)
           \/ \E c \in Commands : UserCommand(c)
  BY <1>7, AgeStep, AgentStartsStep, FinalizeRequestStep, ConfirmSubmissionStep,
     StagerAnswersStep, UserCommandStep
<1>8. CASE UNCHANGED vars
  BY <1>8, Stutter
<1>9. QED
  BY <1>1, <1>2, <1>3, <1>4, <1>5, <1>6, <1>7, <1>8 DEF Next

(***************************************************************************)
(* Between two starts of a job at most one pilot gets it, whatever         *)
(* messages and pilots are lost and wherever the others come between the   *)
(* read and the write of a pilot or of the Matcher, as long as nobody      *)
(* starts a job again that somebody is at, no pilot is silent while it     *)
(* works, and an insertion into the task queues does not fail: the copy    *)
(* that is committed, the entry in the pool, the pilot that is being       *)
(* served and the pilot that has the job are never two at a time.          *)
(***************************************************************************)
THEOREM OnePilot == Orderly => (Spec => []OnePilotPerStart)
<1>1. Init => TypeOK /\ JobInv
  BY InitTypes, InitJobs
<1>2. Orderly /\ TypeOK /\ JobInv /\ [Next]_vars => (TypeOK /\ JobInv)'
  BY NextTypes, NextJobs
<1>3. JobInv => OnePilotPerStart
  BY DEF JobInv, Steady, OneLive, OnePilotPerStart
<1> SUFFICES ASSUME Orderly PROVE Spec => []OnePilotPerStart
  OBVIOUS
<1>4. (TypeOK /\ JobInv) /\ [Next]_vars => (TypeOK /\ JobInv)'
  BY <1>2
<1>5. QED
  BY <1>1, <1>3, <1>4, PTL DEF Spec
=============================================================================
