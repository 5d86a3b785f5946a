------------------------ MODULE RequestStatusProofs -------------------------
(***************************************************************************)
(* Lemmas about the operators of RequestStatus, for requests of any number *)
(* of operations with any number of files: what Notify does to each        *)
(* operation, which one getWaiting returns, what the status of the request *)
(* is, and that reading a request back from JSON changes nothing.          *)
(*                                                                         *)
(* Notify and Reload are folds, so their lemmas are proved by induction    *)
(* over the operations.  The induction is over a set of numbers: the       *)
(* library's theorem that a well-founded relation has minimal elements,    *)
(* applied to the numbers that are not in the set.                         *)
(***************************************************************************)
EXTENDS RequestStatus, FiniteSetTheorems, WellFoundedInduction, TLAPS

-----------------------------------------------------------------------------
(***************************************************************************)
(* Induction.                                                              *)
(***************************************************************************)
Less == {p \in Nat \X Nat : p[1] < p[2]}

LEMMA LessWellFounded == IsWellFoundedOn(Less, Nat)
BY NatLessThanWellFounded, Zenon DEF OpToRel, Less

\* A set of numbers has a least one.
LEMMA LeastNumber ==
    ASSUME NEW T \in SUBSET Nat, T # {}
    PROVE  \E n \in T : \A m \in T : ~ (m < n)
<1>1. PICK n \in T : \A m \in T : ~ (<<m, n>> \in Less)
  BY WFMin, LessWellFounded, Zenon
<1> QED BY <1>1 DEF Less

\* Induction on the numbers up to n.
LEMMA UpTo ==
    ASSUME NEW n \in Nat, NEW G, 0 \in G, \A k \in 1 .. n : k - 1 \in G => k \in G
    PROVE  \A k \in 0 .. n : k \in G
<1>1. SUFFICES ASSUME {i \in 0 .. n : i \notin G} # {} PROVE FALSE
  OBVIOUS
<1>2. PICK k \in {i \in 0 .. n : i \notin G} : \A m \in {i \in 0 .. n : i \notin G} : ~ (m < k)
  <2>1. {i \in 0 .. n : i \notin G} \in SUBSET Nat
    OBVIOUS
  <2> QED BY <1>1, <2>1, LeastNumber
<1>3. k # 0 /\ k \in 1 .. n /\ k - 1 \in 0 .. n /\ k - 1 < k
  BY <1>2
<1> QED BY <1>2, <1>3

-----------------------------------------------------------------------------
(***************************************************************************)
(* FoldLeft visits the elements of a sequence in their order.  FoldLeft is *)
(* a recursive function on the sets of indices; such a function exists     *)
(* when F, one step of the fold at an index, stays in St.                  *)
(***************************************************************************)
Recursion(g, b, F, D) ==
    \A s \in SUBSET D : g[s] = IF s = {} THEN b ELSE F[Max(s)][g[s \ {Max(s)}]]

Stays(F, St, N) == \A k \in 1 .. N : \A x \in St : F[k][x] \in St

LEMMA MaxOf ==
    ASSUME NEW n \in Nat, NEW s \in SUBSET (1 .. n + 1), n + 1 \in s
    PROVE  Max(s) = n + 1
<1>1. \A y \in s : n + 1 >= y
  OBVIOUS
<1>2. \A x \in s : (\A y \in s : x >= y) => x = n + 1
  OBVIOUS
<1> QED BY <1>1, <1>2 DEF Max

LEMMA MaxIn ==
    ASSUME NEW n \in Nat, NEW s \in SUBSET (1 .. n), s # {}
    PROVE  Max(s) \in s
<1>1. PICK k \in {n - m : m \in s} : \A j \in {n - m : m \in s} : ~ (j < k)
  <2>1. {n - m : m \in s} \in SUBSET Nat
    OBVIOUS
  <2> QED BY <2>1, LeastNumber
<1>2. PICK m \in s : k = n - m
  BY <1>1
<1>3. \A y \in s : m >= y
  <2> TAKE y \in s
  <2>1. ~ (n - y < n - m)
    BY <1>1, <1>2
  <2> QED BY <2>1
<1> QED BY <1>2, <1>3 DEF Max

LEMMA RecursionExists ==
    ASSUME NEW St, NEW b \in St, NEW N \in Nat, NEW F, Stays(F, St, N)
    PROVE  \E g \in [SUBSET (1 .. N) -> St] : Recursion(g, b, F, 1 .. N)
<1> DEFINE G == {n \in 0 .. N : \E g \in [SUBSET (1 .. n) -> St] : Recursion(g, b, F, 1 .. n)}
<1>1. 0 \in G
  <2> DEFINE g == [s \in SUBSET (1 .. 0) |-> b]
  <2>1. g \in [SUBSET (1 .. 0) -> St] /\ Recursion(g, b, F, 1 .. 0)
    BY DEF Recursion
  <2> QED BY <2>1
<1>2. ASSUME NEW k \in 1 .. N, k - 1 \in G PROVE k \in G
  <2>1. PICK h \in [SUBSET (1 .. k - 1) -> St] : Recursion(h, b, F, 1 .. k - 1)
    BY <1>2
  <2> DEFINE g == [s \in SUBSET (1 .. k) |-> IF k \in s THEN F[k][h[s \ {k}]] ELSE h[s]]
  <2>2. \A s \in SUBSET (1 .. k) : /\ s \ {k} \in SUBSET (1 .. k - 1)
                                   /\ k \notin s => s \in SUBSET (1 .. k - 1)
    OBVIOUS
  <2>3. g \in [SUBSET (1 .. k) -> St]
    <3>1. ASSUME NEW s \in SUBSET (1 .. k) PROVE g[s] \in St
      <4>1. CASE k \in s
        <5>1. h[s \ {k}] \in St
          BY <2>2
        <5>2. F[k][h[s \ {k}]] \in St
          BY <5>1 DEF Stays
        <5> QED BY <4>1, <5>2
      <4>2. CASE k \notin s
        BY <4>2, <2>2
      <4> QED BY <4>1, <4>2
    <3> QED BY <3>1
  <2>4. ASSUME NEW s \in SUBSET (1 .. k), s # {}
        PROVE  g[s] = F[Max(s)][g[s \ {Max(s)}]]
    <3>1. CASE k \in s
      <4>1. Max(s) = k
        <5>1. k - 1 \in Nat /\ (k - 1) + 1 = k
          OBVIOUS
        <5> QED BY <5>1, <3>1, MaxOf
      <4>2. g[s \ {k}] = h[s \ {k}]
        BY <2>2
      <4> QED BY <3>1, <4>1, <4>2
    <3>2. CASE k \notin s
      <4>1. s \in SUBSET (1 .. k - 1)
        BY <2>2, <3>2
      <4>2. Max(s) \in s
        <5>1. k - 1 \in Nat
          OBVIOUS
        <5> QED BY <5>1, <4>1, <2>4, MaxIn
      <4>3. h[s] = F[Max(s)][h[s \ {Max(s)}]]
        BY <2>1, <2>4, <4>1 DEF Recursion
      <4>4. g[s] = h[s] /\ g[s \ {Max(s)}] = h[s \ {Max(s)}]
        BY <3>2, <4>1, <4>2
      <4> QED BY <4>3, <4>4
    <3> QED BY <3>1, <3>2
  <2>5. g[{}] = b
    <3>1. h[{}] = b
      BY <2>1 DEF Recursion
    <3> QED BY <3>1
  <2>6. Recursion(g, b, F, 1 .. k)
    BY <2>4, <2>5 DEF Recursion
  <2>7. \E f \in [SUBSET (1 .. k) -> St] : Recursion(f, b, F, 1 .. k)
    <3> HIDE DEF g
    <3> QED BY <2>3, <2>6
  <2> QED BY <2>7
<1>3. N \in G
  <2> HIDE DEF G
  <2> QED BY <1>1, <1>2, UpTo
<1> QED BY <1>3

\* The set of the first k indices loses the last one.
LEMMA LastIndex ==
    ASSUME NEW k \in Nat \ {0}
    PROVE  1 .. k # {} /\ Max(1 .. k) = k /\ (1 .. k) \ {k} = 1 .. k - 1
<1>1. k - 1 \in Nat /\ (k - 1) + 1 = k /\ k \in 1 .. k
  OBVIOUS
<1>2. Max(1 .. k) = k
  BY <1>1, MaxOf
<1> QED BY <1>1, <1>2

\* The values of a fold from left to right, one per index.
\* g is F, one step after the other
Unrolls(g, F, St, N) == \A k \in 1 .. N : g[1 .. k - 1] \in St => g[1 .. k] = F[k][g[1 .. k - 1]]

\* x is what N steps of F make of b
Unrolled(x, b, F, St, N) ==
    \E h \in [0 .. N -> St] : /\ h[0] = b
                              /\ \A k \in 1 .. N : h[k] = F[k][h[k - 1]]
                              /\ x = h[N]

LEMMA FoldSteps ==
    ASSUME NEW St, NEW b \in St, NEW N \in Nat, NEW F, Stays(F, St, N), NEW g,
           g[{}] = b, Unrolls(g, F, St, N)
    PROVE  Unrolled(g[1 .. N], b, F, St, N)
<1> DEFINE h == [k \in 0 .. N |-> g[1 .. k]]
           G == {k \in 0 .. N : h[k] \in St}
<1>1. h[0] = b
  <2>1. 1 .. 0 = {}
    OBVIOUS
  <2> QED BY <2>1
<1>2. ASSUME NEW k \in 1 .. N, h[k - 1] \in St PROVE h[k] = F[k][h[k - 1]]
  <2>1. h[k] = g[1 .. k] /\ h[k - 1] = g[1 .. k - 1]
    OBVIOUS
  <2> HIDE DEF h
  <2> QED BY <1>2, <2>1 DEF Unrolls
<1>3. \A k \in 0 .. N : k \in G
  <2>1. 0 \in G
    BY <1>1
  <2>2. ASSUME NEW k \in 1 .. N, k - 1 \in G PROVE k \in G
    <3>1. h[k - 1] \in St
      BY <2>2
    <3>2. h[k] \in St /\ k \in 0 .. N
      <4> HIDE DEF h
      <4> QED BY <1>2, <3>1 DEF Stays
    <3> QED BY <3>2
  <2> HIDE DEF G
  <2> QED BY <2>1, <2>2, UpTo
<1>4. h \in [0 .. N -> St]
  BY <1>3
<1>5. g[1 .. N] = h[N]
  OBVIOUS
<1>6. \A k \in 1 .. N : h[k] = F[k][h[k - 1]]
  <2>1. \A k \in 1 .. N : h[k - 1] \in St
    BY <1>3
  <2> HIDE DEF h
  <2> QED BY <1>2, <2>1
<1> HIDE DEF h
<1> QED BY <1>1, <1>4, <1>5, <1>6 DEF Unrolled

-----------------------------------------------------------------------------
(***************************************************************************)
(* The types of what the operators of RequestStatus work on.               *)
(***************************************************************************)
Files == Seq(FileStatuses)
Operation == [status : OpStatuses, files : Files]
Glance == [ops : Seq(Operation), waiting : Nat, status : OpStatuses]

LEMMA OperationFields ==
    ASSUME NEW ops \in Seq(Operation), NEW i \in DOMAIN ops
    PROVE  /\ ops[i] \in Operation
           /\ ops[i].status \in OpStatuses
           /\ ops[i].files \in Files
           /\ ops[i] = Op(ops[i].status, ops[i].files)
<1>1. ops[i] \in Operation
  OBVIOUS
<1> HIDE DEF Files
<1> QED BY <1>1 DEF Operation, Op

LEMMA FromFilesType ==
    ASSUME NEW files
    PROVE  FromFiles(files) \in OpStatuses
BY DEF FromFiles, OpStatuses

LEMMA VisitType ==
    ASSUME NEW s \in Glance, NEW o \in Operation
    PROVE  /\ Visit(s, o) \in Glance
           /\ Len(Visit(s, o).ops) = Len(s.ops) + 1
           /\ \A i \in 1 .. Len(s.ops) : Visit(s, o).ops[i] = s.ops[i]
           /\ Visit(s, o).ops[Len(s.ops) + 1].files = o.files
<1>1. ASSUME NEW v \in OpStatuses
      PROVE  /\ Pass(s, o, v) \in Glance
             /\ Pass(s, o, v).ops = Append(s.ops, Op(v, o.files))
             /\ Len(Pass(s, o, v).ops) = Len(s.ops) + 1
             /\ \A i \in 1 .. Len(s.ops) : Pass(s, o, v).ops[i] = s.ops[i]
             /\ Pass(s, o, v).ops[Len(s.ops) + 1].files = o.files
  <2>1. Op(v, o.files) \in Operation /\ Op(v, o.files).files = o.files
    BY DEF Op, Operation
  <2>2. /\ Append(s.ops, Op(v, o.files)) \in Seq(Operation)
        /\ Len(Append(s.ops, Op(v, o.files))) = Len(s.ops) + 1
        /\ \A i \in 1 .. Len(s.ops) : Append(s.ops, Op(v, o.files))[i] = s.ops[i]
        /\ Append(s.ops, Op(v, o.files))[Len(s.ops) + 1] = Op(v, o.files)
    <3>1. s.ops \in Seq(Operation)
      BY DEF Glance
    <3> HIDE DEF Operation, Op
    <3> QED BY <2>1, <3>1
  <2>3. Pass(s, o, v) = [s EXCEPT !.ops = Append(s.ops, Op(v, o.files))]
    BY DEF Pass
  <2> QED BY <2>1, <2>2, <2>3 DEF Glance
<1> DEFINE V == Visit(s, o)
<1>2. \E v \in OpStatuses : V \in Glance /\ V.ops = Pass(s, o, v).ops
  <2>1. o.status \in OpStatuses /\ Len(s.ops) + 1 \in Nat
    BY DEF Operation, Glance
  <2>2. ASSUME NEW v \in OpStatuses, NEW w \in Nat, NEW u \in OpStatuses
        PROVE  /\ Pass(s, o, v) \in Glance
               /\ [Pass(s, o, v) EXCEPT !.status = u] \in Glance
               /\ [Pass(s, o, v) EXCEPT !.status = u].ops = Pass(s, o, v).ops
               /\ [Pass(s, o, v) EXCEPT !.waiting = w, !.status = u] \in Glance
               /\ [Pass(s, o, v) EXCEPT !.waiting = w, !.status = u].ops = Pass(s, o, v).ops
    <3>1. Pass(s, o, v) \in Glance
      BY <1>1
    <3> HIDE DEF V
    <3> QED BY <3>1 DEF Glance
  <2> HIDE DEF V
  <2>3. CASE s.status = "Failed"
    BY <2>1, <2>2, <2>3 DEF V, Visit
  <2>4. CASE s.status # "Failed" /\ s.waiting = 0
    <3>1. CASE o.status \in {"Failed", "Done"}
      BY <2>1, <2>2, <2>4, <3>1 DEF V, Visit
    <3>2. CASE o.status = "Scheduled"
      BY <2>1, <2>2, <2>4, <3>2 DEF V, Visit, OpStatuses
    <3>3. CASE o.status \in {"Queued", "Waiting"}
      BY <2>1, <2>2, <2>4, <3>3 DEF V, Visit, OpStatuses
    <3> QED BY <2>1, <3>1, <3>2, <3>3 DEF OpStatuses
  <2>5. CASE s.status # "Failed" /\ s.waiting # 0
    BY <2>1, <2>2, <2>5 DEF V, Visit, OpStatuses
  <2> QED BY <2>3, <2>4, <2>5
<1> QED BY <1>1, <1>2 DEF Glance

-----------------------------------------------------------------------------
(***************************************************************************)
(* Scan visits the operations one after the other.                         *)
(***************************************************************************)
Start == [ops |-> <<>>, waiting |-> 0, status |-> "Waiting"]

LEMMA StartType == Start \in Glance
BY DEF Start, Glance, OpStatuses

LEMMA ScanSteps ==
    ASSUME NEW ops \in Seq(Operation)
    PROVE  \E h \in [0 .. Len(ops) -> Glance] :
              /\ h[0] = Start
              /\ \A k \in 1 .. Len(ops) : h[k] = Visit(h[k - 1], ops[k])
              /\ Scan(ops) = h[Len(ops)]
<1> DEFINE N == Len(ops)
           F == [k \in 1 .. N |-> [s \in Glance |-> Visit(s, ops[k])]]
           Eq(g) == g = [s \in SUBSET (1 .. N) |->
                            IF s = {} THEN Start ELSE Visit(g[s \ {Max(s)}], ops[Max(s)])]
<1>1. N \in Nat /\ DOMAIN ops = 1 .. N /\ \A k \in 1 .. N : ops[k] \in Operation
  OBVIOUS
<1>2. \A k \in 1 .. N : \A s \in Glance : F[k][s] = Visit(s, ops[k]) /\ F[k][s] \in Glance
  <2> HIDE DEF N
  <2> QED BY <1>1, VisitType
<1> HIDE DEF N, F
<1>3. Stays(F, Glance, N)
  BY <1>2 DEF Stays
<1>4. Scan(ops) = (CHOOSE g : Eq(g))[1 .. N]
  BY <1>1, Zenon DEF Scan, FoldLeft, MapThenFoldSet, Start
<1>5. \E g : Eq(g)
  <2>1. PICK g \in [SUBSET (1 .. N) -> Glance] : Recursion(g, Start, F, 1 .. N)
    BY <1>1, <1>3, StartType, RecursionExists
  <2>2. ASSUME NEW s \in SUBSET (1 .. N)
        PROVE  g[s] = IF s = {} THEN Start ELSE Visit(g[s \ {Max(s)}], ops[Max(s)])
    <3>1. CASE s = {}
      BY <2>1, <3>1 DEF Recursion
    <3>2. CASE s # {}
      <4>1. Max(s) \in 1 .. N
        BY <1>1, <3>2, MaxIn
      <4>2. g[s \ {Max(s)}] \in Glance
        OBVIOUS
      <4>3. g[s] = F[Max(s)][g[s \ {Max(s)}]]
        BY <2>1, <3>2 DEF Recursion
      <4> QED BY <1>2, <3>2, <4>1, <4>2, <4>3
    <3> QED BY <3>1, <3>2
  <2> QED BY <2>2
<1>6. PICK g : Eq(g) /\ Scan(ops) = g[1 .. N]
  BY <1>4, <1>5
<1>7. g[{}] = Start
  BY <1>6
<1>8. ASSUME NEW k \in 1 .. N, g[1 .. k - 1] \in Glance
      PROVE  g[1 .. k] = F[k][g[1 .. k - 1]]
  <2>1. k \in Nat \ {0} /\ 1 .. k \in SUBSET (1 .. N)
    BY <1>1
  <2>2. g[1 .. k] = Visit(g[1 .. k - 1], ops[k])
    <3>1. 1 .. k # {} /\ Max(1 .. k) = k /\ (1 .. k) \ {k} = 1 .. k - 1
      BY <2>1, LastIndex
    <3> QED BY <1>6, <2>1, <3>1
  <2> QED BY <1>2, <1>8, <2>2
<1>9. PICK h \in [0 .. N -> Glance] : /\ h[0] = Start
                                      /\ \A k \in 1 .. N : h[k] = F[k][h[k - 1]]
                                      /\ g[1 .. N] = h[N]
  <2>1. Unrolls(g, F, Glance, N)
    BY <1>8 DEF Unrolls
  <2> HIDE DEF Eq
  <2>2. Unrolled(g[1 .. N], Start, F, Glance, N)
    BY <1>1, <1>3, <1>7, <2>1, StartType, FoldSteps
  <2> QED BY <2>2 DEF Unrolled
<1>10. ASSUME NEW k \in 1 .. N PROVE h[k] = Visit(h[k - 1], ops[k])
  <2>1. h[k - 1] \in Glance
    BY <1>1
  <2> QED BY <1>2, <1>9, <2>1
<1> QED BY <1>6, <1>9, <1>10 DEF N

\* What one turn does, case by case.
LEMMA VisitFields ==
    ASSUME NEW s \in Glance, NEW o \in Operation,
           NEW V, V = Visit(s, o), NEW n, n = Len(s.ops) + 1
    PROVE  /\ s.status = "Failed" =>
                V.waiting = s.waiting /\ V.status = "Failed" /\ V.ops[n].status = o.status
           /\ s.status # "Failed" /\ s.waiting = 0 =>
                /\ o.status \in {"Failed", "Done"} =>
                     V.waiting = 0 /\ V.status = o.status /\ V.ops[n].status = o.status
                /\ o.status = "Scheduled" =>
                     V.waiting = n /\ V.status = "Scheduled" /\ V.ops[n].status = "Scheduled"
                /\ o.status \in {"Queued", "Waiting"} =>
                     V.waiting = n /\ V.status = "Waiting" /\ V.ops[n].status = "Waiting"
           /\ s.status # "Failed" /\ s.waiting # 0 =>
                /\ V.waiting = s.waiting
                /\ o.status = "Waiting" => V.status = "Waiting" /\ V.ops[n].status = "Queued"
                /\ o.status # "Waiting" => V.status = s.status /\ V.ops[n].status = o.status
<1>1. o.status \in OpStatuses /\ n \in Nat /\ s.ops \in Seq(Operation)
  BY DEF Operation, Glance
<1>2. ASSUME NEW v \in OpStatuses, NEW w \in Nat, NEW u \in OpStatuses
      PROVE  LET P == Pass(s, o, v) IN
             /\ P.waiting = s.waiting /\ P.status = s.status /\ P.ops[n].status = v
             /\ [P EXCEPT !.status = u].ops = P.ops
             /\ [P EXCEPT !.status = u].waiting = s.waiting
             /\ [P EXCEPT !.status = u].status = u
             /\ [P EXCEPT !.waiting = w, !.status = u].ops = P.ops
             /\ [P EXCEPT !.waiting = w, !.status = u].waiting = w
             /\ [P EXCEPT !.waiting = w, !.status = u].status = u
  <2>1. Op(v, o.files) \in Operation /\ Op(v, o.files).status = v
    BY DEF Op, Operation
  <2>2. /\ Append(s.ops, Op(v, o.files)) \in Seq(Operation)
        /\ Append(s.ops, Op(v, o.files))[n] = Op(v, o.files)
    <3> HIDE DEF Operation, Op
    <3> QED BY <1>1, <2>1
  <2> DEFINE P == Pass(s, o, v)
  <2>3. P = [s EXCEPT !.ops = Append(s.ops, Op(v, o.files))]
    BY DEF Pass
  <2>4. P \in Glance
    BY <2>2, <2>3 DEF Glance
  <2>5. P.waiting = s.waiting /\ P.status = s.status /\ P.ops[n].status = v
    BY <2>1, <2>2, <2>3 DEF Glance
  <2> HIDE DEF P
  <2>6. /\ [P EXCEPT !.status = u].ops = P.ops
        /\ [P EXCEPT !.status = u].waiting = P.waiting
        /\ [P EXCEPT !.status = u].status = u
        /\ [P EXCEPT !.waiting = w, !.status = u].ops = P.ops
        /\ [P EXCEPT !.waiting = w, !.status = u].waiting = w
        /\ [P EXCEPT !.waiting = w, !.status = u].status = u
    BY <2>4 DEF Glance
  <2> QED BY <2>5, <2>6 DEF P
<1>3. {"Failed", "Done", "Scheduled", "Queued", "Waiting"} = OpStatuses
  BY DEF OpStatuses
<1>4. CASE s.status = "Failed"
  BY <1>1, <1>2, <1>4 DEF Visit
<1>5. CASE s.status # "Failed" /\ s.waiting = 0
  <2>1. CASE o.status \in {"Failed", "Done"}
    BY <1>1, <1>2, <1>3, <1>5, <2>1 DEF Visit
  <2>2. CASE o.status = "Scheduled"
    <3>1. V = [Pass(s, o, "Scheduled") EXCEPT !.waiting = n, !.status = "Scheduled"]
      BY <1>5, <2>2 DEF Visit
    <3> QED BY <1>1, <1>2, <1>3, <1>5, <2>2, <3>1
  <2>3. CASE o.status \in {"Queued", "Waiting"}
    BY <1>1, <1>2, <1>3, <1>5, <2>3 DEF Visit
  <2> QED BY <1>1, <1>3, <1>5, <2>1, <2>2, <2>3
<1>6. CASE s.status # "Failed" /\ s.waiting # 0
  <2>1. CASE o.status = "Waiting"
    BY <1>1, <1>2, <1>3, <1>6, <2>1 DEF Visit
  <2>2. CASE o.status # "Waiting"
    BY <1>1, <1>2, <1>3, <1>6, <2>2 DEF Visit
  <2> QED BY <1>6, <2>1, <2>2
<1> QED BY <1>4, <1>5, <1>6

-----------------------------------------------------------------------------
(***************************************************************************)
(* What the turns have made of the first k operations.  The first that is  *)
(* not done decides.                                                       *)
(***************************************************************************)
DoneUpTo(ops, k) == \A j \in 1 .. k : ops[j].status = "Done"
IsFirst(ops, i) == DoneUpTo(ops, i - 1) /\ ops[i].status # "Done"

\* the place of an operation that is first decides for all others
Turned(ops, k, s, i) ==
    IF ops[i].status = "Failed"
    THEN /\ s.waiting = 0
         /\ s.status = "Failed"
         /\ \A j \in 1 .. k : s.ops[j].status = ops[j].status
    ELSE /\ s.waiting = i
         /\ s.status \in Unfinished
         /\ (\A j \in i + 1 .. k : ops[j].status # "Waiting") => s.status = s.ops[i].status
         /\ \A j \in 1 .. k : s.ops[j].status =
              IF j = i THEN IF ops[i].status = "Scheduled" THEN "Scheduled" ELSE "Waiting"
              ELSE IF j > i /\ ops[j].status = "Waiting" THEN "Queued"
              ELSE ops[j].status

AllDone(ops, k, s) ==
    /\ s.waiting = 0
    /\ s.status = IF k = 0 THEN "Waiting" ELSE "Done"
    /\ \A j \in 1 .. k : s.ops[j].status = "Done"

AfterTurns(ops, k, s) ==
    /\ Len(s.ops) = k
    /\ \A j \in 1 .. k : s.ops[j].files = ops[j].files
    /\ DoneUpTo(ops, k) => AllDone(ops, k, s)
    /\ \A i \in 1 .. k : IsFirst(ops, i) => Turned(ops, k, s, i)

LEMMA FirstExists ==
    ASSUME NEW ops, NEW k \in Nat
    PROVE  DoneUpTo(ops, k) \/ \E i \in 1 .. k : IsFirst(ops, i)
<1> DEFINE T == {i \in 1 .. k : ops[i].status # "Done"}
<1>1. CASE T = {}
  BY <1>1 DEF DoneUpTo
<1>2. CASE T # {}
  <2>1. T \in SUBSET Nat
    OBVIOUS
  <2>2. PICK i \in T : \A m \in T : ~ (m < i)
    <3> HIDE DEF T
    <3> QED BY <1>2, <2>1, LeastNumber
  <2>3. \A j \in 1 .. i - 1 : j \in 1 .. k /\ j < i
    OBVIOUS
  <2>4. IsFirst(ops, i) /\ i \in 1 .. k
    BY <2>2, <2>3 DEF IsFirst, DoneUpTo
  <2> QED BY <2>4
<1> QED BY <1>1, <1>2

LEMMA FirstUnique ==
    ASSUME NEW ops, NEW i \in Nat \ {0}, NEW j \in Nat \ {0}, IsFirst(ops, i), IsFirst(ops, j)
    PROVE  i = j
<1>1. i < j => i \in 1 .. j - 1
  OBVIOUS
<1>2. j < i => j \in 1 .. i - 1
  OBVIOUS
<1> QED BY <1>1, <1>2 DEF IsFirst, DoneUpTo

LEMMA OneTurn ==
    ASSUME NEW ops \in Seq(Operation), NEW k \in 1 .. Len(ops), NEW s \in Glance,
           AfterTurns(ops, k - 1, s)
    PROVE  AfterTurns(ops, k, Visit(s, ops[k]))
<1> DEFINE V == Visit(s, ops[k])
<1>1. k - 1 \in Nat /\ k \in Nat /\ (k - 1) + 1 = k /\ ops[k] \in Operation /\ Len(s.ops) = k - 1
  BY DEF AfterTurns
<1>2. /\ V \in Glance
      /\ Len(V.ops) = k
      /\ \A j \in 1 .. k - 1 : V.ops[j] = s.ops[j]
      /\ V.ops[k].files = ops[k].files
  <2>1. /\ V \in Glance
        /\ Len(V.ops) = Len(s.ops) + 1
        /\ \A j \in 1 .. Len(s.ops) : V.ops[j] = s.ops[j]
        /\ V.ops[Len(s.ops) + 1].files = ops[k].files
    BY <1>1, VisitType
  <2> HIDE DEF V
  <2> QED BY <1>1, <2>1
<1>3. ops[k].status \in OpStatuses
  BY <1>1 DEF Operation
<1>4. \A j \in 1 .. k : j = k \/ j \in 1 .. k - 1
  OBVIOUS
<1>5. \A j \in 1 .. k : V.ops[j].files = ops[j].files
  BY <1>2, <1>4 DEF AfterTurns
<1> DEFINE n == Len(s.ops) + 1
<1>6. n = k
  BY <1>1
<1>7. /\ s.status = "Failed" =>
           V.waiting = s.waiting /\ V.status = "Failed" /\ V.ops[k].status = ops[k].status
      /\ s.status # "Failed" /\ s.waiting = 0 =>
           /\ ops[k].status \in {"Failed", "Done"} =>
                V.waiting = 0 /\ V.status = ops[k].status /\ V.ops[k].status = ops[k].status
           /\ ops[k].status = "Scheduled" =>
                V.waiting = k /\ V.status = "Scheduled" /\ V.ops[k].status = "Scheduled"
           /\ ops[k].status \in {"Queued", "Waiting"} =>
                V.waiting = k /\ V.status = "Waiting" /\ V.ops[k].status = "Waiting"
      /\ s.status # "Failed" /\ s.waiting # 0 =>
           /\ V.waiting = s.waiting
           /\ ops[k].status = "Waiting" => V.status = "Waiting" /\ V.ops[k].status = "Queued"
           /\ ops[k].status # "Waiting" => V.status = s.status /\ V.ops[k].status = ops[k].status
  <2> HIDE DEF V, n
  <2>1. V = Visit(s, ops[k]) /\ n = Len(s.ops) + 1
    BY DEF V, n
  <2> QED BY <1>1, <1>6, <2>1, VisitFields
<1> HIDE DEF V, n
<1>8. CASE DoneUpTo(ops, k - 1)
  <2>1. s.waiting = 0 /\ s.status # "Failed" /\ \A j \in 1 .. k - 1 : s.ops[j].status = "Done"
    BY <1>8 DEF AfterTurns, AllDone
  <2>2. \A j \in 1 .. k - 1 : V.ops[j].status = "Done" /\ ops[j].status = "Done"
    BY <1>2, <1>8, <2>1 DEF DoneUpTo
  <2>3. CASE ops[k].status = "Done"
    <3>1. \A i \in 1 .. k : ~ IsFirst(ops, i)
      BY <1>4, <2>2, <2>3 DEF IsFirst
    <3>2. AllDone(ops, k, V)
      BY <1>1, <1>4, <1>7, <2>1, <2>2, <2>3 DEF AllDone
    <3> QED BY <1>2, <1>5, <3>1, <3>2 DEF AfterTurns, V
  <2>4. CASE ops[k].status # "Done"
    <3>1. ~ DoneUpTo(ops, k)
      BY <1>1, <2>4 DEF DoneUpTo
    <3>2. \A i \in 1 .. k : IsFirst(ops, i) => i = k
      BY <1>4, <2>2 DEF IsFirst
    <3>3. Turned(ops, k, V, k)
      BY <1>1, <1>3, <1>4, <1>7, <2>1, <2>2, <2>4 DEF Turned, OpStatuses, Unfinished
    <3> QED BY <1>2, <1>5, <3>1, <3>2, <3>3 DEF AfterTurns, V
  <2> QED BY <2>3, <2>4
<1>9. CASE ~ DoneUpTo(ops, k - 1)
  <2>1. PICK i \in 1 .. k - 1 : IsFirst(ops, i)
    BY <1>1, <1>9, FirstExists
  <2>2. Turned(ops, k - 1, s, i)
    BY <2>1 DEF AfterTurns
  <2>3. ~ DoneUpTo(ops, k)
    BY <2>1 DEF DoneUpTo, IsFirst
  <2>4. \A j \in 1 .. k : IsFirst(ops, j) => j = i
    BY <1>1, <2>1, FirstUnique
  <2>5. Turned(ops, k, V, i)
    <3>1. CASE ops[i].status = "Failed"
      BY <1>1, <1>2, <1>4, <1>7, <2>2, <3>1 DEF Turned
    <3>2. CASE ops[i].status # "Failed"
      <4>1. s.waiting # 0 /\ s.status # "Failed"
        BY <2>1, <2>2, <3>2 DEF Turned, Unfinished
      <4>2. /\ V.waiting = i
            /\ V.status \in Unfinished
        BY <1>7, <2>2, <3>2, <4>1 DEF Turned, Unfinished
      <4>3. (\A j \in i + 1 .. k : ops[j].status # "Waiting") => V.status = V.ops[i].status
        <5>1. k \in i + 1 .. k /\ \A j \in i + 1 .. k - 1 : j \in i + 1 .. k
          BY <1>1
        <5> QED BY <1>2, <1>7, <2>2, <3>2, <4>1, <5>1 DEF Turned
      <4>4. \A j \in 1 .. k : V.ops[j].status =
              IF j = i THEN IF ops[i].status = "Scheduled" THEN "Scheduled" ELSE "Waiting"
              ELSE IF j > i /\ ops[j].status = "Waiting" THEN "Queued"
              ELSE ops[j].status
        <5>1. k # i /\ k > i
          BY <1>1
        <5> QED BY <1>2, <1>4, <1>7, <2>2, <3>2, <4>1, <5>1 DEF Turned
      <4> QED BY <3>2, <4>2, <4>3, <4>4 DEF Turned
    <3> QED BY <3>1, <3>2
  <2> QED BY <1>2, <1>5, <2>3, <2>4, <2>5 DEF AfterTurns, V
<1> QED BY <1>8, <1>9

(***************************************************************************)
(* What Notify, getWaiting and the Status getter say of any request.       *)
(***************************************************************************)
LEMMA ScanShape ==
    ASSUME NEW ops \in Seq(Operation)
    PROVE  Scan(ops) \in Glance /\ AfterTurns(ops, Len(ops), Scan(ops))
<1>1. PICK h \in [0 .. Len(ops) -> Glance] :
              /\ h[0] = Start
              /\ \A k \in 1 .. Len(ops) : h[k] = Visit(h[k - 1], ops[k])
              /\ Scan(ops) = h[Len(ops)]
  BY ScanSteps
<1> DEFINE G == {k \in 0 .. Len(ops) : AfterTurns(ops, k, h[k])}
<1>2. 0 \in G
  <2>1. 0 \in 0 .. Len(ops)
    OBVIOUS
  <2> QED BY <1>1, <2>1 DEF AfterTurns, AllDone, Start
<1>3. ASSUME NEW k \in 1 .. Len(ops), k - 1 \in G PROVE k \in G
  <2>1. k - 1 \in 0 .. Len(ops) /\ k \in 0 .. Len(ops)
    OBVIOUS
  <2>2. h[k - 1] \in Glance /\ AfterTurns(ops, k - 1, h[k - 1])
    BY <1>3, <2>1
  <2>3. AfterTurns(ops, k, Visit(h[k - 1], ops[k]))
    BY <2>2, OneTurn
  <2> QED BY <1>1, <2>1, <2>3
<1>4. Len(ops) \in Nat
  OBVIOUS
<1>5. Len(ops) \in G
  <2> HIDE DEF G
  <2> QED BY <1>2, <1>3, <1>4, UpTo
<1> QED BY <1>1, <1>4, <1>5

-----------------------------------------------------------------------------
(***************************************************************************)
(* A request is in order when its operations are in turn: the first that   *)
(* is not done waits, is scheduled or has failed, and none behind it is    *)
(* waiting or scheduled.                                                   *)
(***************************************************************************)
InOrder(ops) ==
    \A i \in DOMAIN ops :
        /\ ops[i].status \in Unfinished => DoneUpTo(ops, i - 1)
        /\ DoneUpTo(ops, i - 1) => ops[i].status # "Queued"

\* what Notify puts in order
Ready(ops) ==
    \A i \in DOMAIN ops :
        /\ ops[i].status = "Scheduled" => DoneUpTo(ops, i - 1)
        /\ ops[i].status = "Waiting" => \A j \in 1 .. i - 1 : ops[j].status # "Failed"

\* x differs from ops at most by a queued operation where ops has a waiting one
Like(x, ops) ==
    /\ Len(x) = Len(ops)
    /\ \A i \in 1 .. Len(ops) :
         /\ x[i].files = ops[i].files
         /\ \/ x[i].status = ops[i].status
            \/ x[i].status = "Queued" /\ ops[i].status = "Waiting"

LEMMA NotifyShape ==
    ASSUME NEW ops \in Seq(Operation)
    PROVE  /\ Notify(ops) \in Seq(Operation)
           /\ Len(Notify(ops)) = Len(ops)
           /\ DOMAIN Notify(ops) = DOMAIN ops
           /\ \A i \in DOMAIN ops : Notify(ops)[i].files = ops[i].files
           /\ \A i \in DOMAIN ops : Notify(ops)[i].status = "Done" <=> ops[i].status = "Done"
           /\ \A k \in 0 .. Len(ops) : DoneUpTo(Notify(ops), k) <=> DoneUpTo(ops, k)
<1> DEFINE s == Scan(ops)  N == Len(ops)
<1>1. s \in Glance /\ AfterTurns(ops, N, s)
  BY ScanShape
<1>2. s.ops \in Seq(Operation) /\ N \in Nat /\ DOMAIN ops = 1 .. N
  BY <1>1 DEF Glance
<1> HIDE DEF s, N
<1>3. Len(s.ops) = N /\ DOMAIN s.ops = 1 .. N /\ \A i \in 1 .. N : s.ops[i].files = ops[i].files
  <2> HIDE DEF Operation
  <2> QED BY <1>1, <1>2 DEF AfterTurns
<1>4. \A i \in 1 .. N : s.ops[i].status = "Done" <=> ops[i].status = "Done"
  <2>1. CASE DoneUpTo(ops, N)
    BY <1>1, <2>1 DEF AfterTurns, AllDone, DoneUpTo
  <2>2. CASE \E i \in 1 .. N : IsFirst(ops, i)
    <3>1. PICK i \in 1 .. N : IsFirst(ops, i)
      BY <2>2
    <3>2. Turned(ops, N, s, i)
      BY <1>1, <3>1 DEF AfterTurns
    <3> QED BY <3>1, <3>2 DEF Turned, IsFirst
  <2> QED BY <1>2, <2>1, <2>2, FirstExists
<1>5. \A k \in 0 .. N : DoneUpTo(s.ops, k) <=> DoneUpTo(ops, k)
  BY <1>2, <1>4 DEF DoneUpTo
<1> QED BY <1>2, <1>3, <1>4, <1>5 DEF Notify, s, N

LEMMA NotifyOrders ==
    ASSUME NEW ops \in Seq(Operation), Ready(ops)
    PROVE  InOrder(Notify(ops))
<1> DEFINE n == Notify(ops)  N == Len(ops)
<1>1. AfterTurns(ops, N, Scan(ops)) /\ n = Scan(ops).ops
  BY ScanShape DEF Notify
<1>2. N \in Nat /\ DOMAIN ops = 1 .. N /\ DOMAIN n = 1 .. N
  BY NotifyShape
<1>3. \A k \in 0 .. N : DoneUpTo(n, k) <=> DoneUpTo(ops, k)
  BY NotifyShape
<1> HIDE DEF n, N
<1>4. SUFFICES ASSUME NEW i \in 1 .. N
               PROVE  /\ n[i].status \in Unfinished => DoneUpTo(ops, i - 1)
                      /\ DoneUpTo(ops, i - 1) => n[i].status # "Queued"
  <2>1. \A i \in 1 .. N : i - 1 \in 0 .. N
    BY <1>2
  <2> QED BY <1>2, <1>3, <1>4, <2>1 DEF InOrder, n
<1>5. CASE DoneUpTo(ops, N)
  BY <1>1, <1>5 DEF AfterTurns, AllDone, Unfinished
<1>6. CASE \E f \in 1 .. N : IsFirst(ops, f)
  <2>1. PICK f \in 1 .. N : IsFirst(ops, f)
    BY <1>6
  <2>2. Turned(ops, N, Scan(ops), f)
    BY <1>1, <2>1 DEF AfterTurns
  <2>3. CASE i < f
    <3>1. i \in 1 .. f - 1
      BY <2>3
    <3>2. ops[i].status = "Done"
      BY <2>1, <3>1 DEF IsFirst, DoneUpTo
    <3>3. n[i].status = "Done"
      BY <1>1, <2>2, <2>3, <3>2 DEF Turned
    <3> QED BY <3>3 DEF Unfinished
  <2>4. CASE i = f
    BY <1>1, <2>1, <2>2, <2>4 DEF Turned, IsFirst
  <2>5. CASE i > f
    <3>1. f \in 1 .. i - 1 /\ ops[f].status # "Done"
      BY <2>1, <2>5 DEF IsFirst
    <3>2. ~ DoneUpTo(ops, i - 1)
      BY <3>1 DEF DoneUpTo
    <3>3. n[i].status # "Waiting" /\ n[i].status # "Scheduled"
      BY <1>1, <1>2, <2>2, <2>5, <3>1, <3>2 DEF Turned, Ready
    <3> QED BY <3>2, <3>3 DEF Unfinished
  <2> QED BY <2>3, <2>4, <2>5
<1> QED BY <1>2, <1>5, <1>6, FirstExists

LEMMA NotifyKeeps ==
    ASSUME NEW ops \in Seq(Operation), InOrder(ops), NEW x \in Seq(Operation), Like(x, ops)
    PROVE  Notify(x) = ops
<1> DEFINE n == Notify(x)  N == Len(ops)
<1>1. AfterTurns(x, N, Scan(x)) /\ n = Scan(x).ops
  BY ScanShape DEF Notify, Like
<1>2. /\ N \in Nat /\ DOMAIN ops = 1 .. N /\ DOMAIN x = 1 .. N
      /\ n \in Seq(Operation) /\ DOMAIN n = 1 .. N /\ Len(n) = N
      /\ \A i \in 1 .. N : n[i].files = ops[i].files
  BY NotifyShape DEF Like
<1> HIDE DEF n, N
<1>3. \A i \in 1 .. N : /\ x[i].status = "Done" <=> ops[i].status = "Done"
                        /\ \/ x[i].status = ops[i].status
                           \/ x[i].status = "Queued" /\ ops[i].status = "Waiting"
  BY DEF Like, N
<1>4. \A k \in 0 .. N : DoneUpTo(x, k) <=> DoneUpTo(ops, k)
  BY <1>2, <1>3 DEF DoneUpTo
<1>5. \A i \in 1 .. N : n[i].status = ops[i].status
  <2>1. CASE DoneUpTo(x, N)
    BY <1>1, <1>3, <2>1 DEF AfterTurns, AllDone, DoneUpTo
  <2>2. CASE \E f \in 1 .. N : IsFirst(x, f)
    <3>1. PICK f \in 1 .. N : IsFirst(x, f)
      BY <2>2
    <3>2. Turned(x, N, Scan(x), f)
      BY <1>1, <3>1 DEF AfterTurns
    <3>3. f - 1 \in 0 .. N /\ DoneUpTo(ops, f - 1) /\ ops[f].status # "Done"
      BY <1>2, <1>3, <1>4, <3>1 DEF IsFirst
    <3>4. ops[f].status # "Queued"
      BY <1>2, <3>3 DEF InOrder
    <3>5. \A i \in f + 1 .. N : ops[i].status # "Waiting" /\ x[i].status = ops[i].status
      <4>1. ASSUME NEW i \in f + 1 .. N PROVE ops[i].status # "Waiting"
        <5>1. i \in 1 .. N /\ f \in 1 .. i - 1
          BY <1>2
        <5>2. ~ DoneUpTo(ops, i - 1)
          BY <3>3, <5>1 DEF DoneUpTo
        <5> QED BY <1>2, <5>1, <5>2 DEF InOrder, Unfinished
      <4>2. \A i \in f + 1 .. N : i \in 1 .. N
        BY <1>2
      <4> QED BY <1>3, <4>1, <4>2
    <3>6. \A i \in 1 .. f - 1 : ops[i].status = "Done" /\ x[i].status = ops[i].status
      <4>1. \A i \in 1 .. f - 1 : i \in 1 .. N
        BY <1>2
      <4> QED BY <1>3, <3>3, <4>1 DEF DoneUpTo
    <3>7. \A i \in 1 .. N : i \in 1 .. f - 1 \/ i = f \/ i \in f + 1 .. N
      BY <1>2
    <3>8. ops[f].status \in {"Waiting", "Scheduled", "Failed"}
      <4>1. ops[f].status \in OpStatuses
        BY <1>2, OperationFields
      <4> QED BY <3>3, <3>4, <4>1 DEF OpStatuses
    <3> QED
      <4>1. CASE x[f].status = "Failed"
        BY <1>1, <1>3, <3>2, <3>5, <3>6, <3>7, <4>1 DEF Turned
      <4>2. CASE x[f].status # "Failed"
        <5>1. n[f].status = ops[f].status
          BY <1>1, <1>3, <3>2, <3>8, <4>2 DEF Turned
        <5> QED BY <1>1, <3>2, <3>5, <3>6, <3>7, <4>2, <5>1 DEF Turned
      <4> QED BY <4>1, <4>2
  <2> QED BY <1>2, <2>1, <2>2, FirstExists
<1>6. ASSUME NEW i \in 1 .. N PROVE n[i] = ops[i]
  <2>1. n[i] \in Operation /\ ops[i] \in Operation
    BY <1>2
  <2>2. n[i].status = ops[i].status /\ n[i].files = ops[i].files
    BY <1>2, <1>5
  <2> QED BY <2>1, <2>2 DEF Operation
<1>7. n = ops
  <2> HIDE DEF Operation
  <2> QED BY <1>2, <1>6
<1> QED BY <1>7 DEF n

(***************************************************************************)
(* The status of a request in order, and the operation that is next.       *)
(***************************************************************************)
LEMMA OrderedScan ==
    ASSUME NEW ops \in Seq(Operation), InOrder(ops)
    PROVE  /\ Notify(ops) = ops
           /\ NextOp(ops) \in Nat /\ StatusOf(ops) \in OpStatuses
           /\ DoneUpTo(ops, Len(ops)) =>
                NextOp(ops) = 0 /\ StatusOf(ops) = IF ops = <<>> THEN "Waiting" ELSE "Done"
           /\ \A i \in 1 .. Len(ops) : IsFirst(ops, i) =>
                /\ ops[i].status \in {"Waiting", "Scheduled", "Failed"}
                /\ StatusOf(ops) = ops[i].status
                /\ NextOp(ops) = IF ops[i].status = "Failed" THEN 0 ELSE i
<1> DEFINE N == Len(ops)  s == Scan(ops)
<1>1. Notify(ops) = ops
  <2>1. Like(ops, ops)
    BY DEF Like
  <2> QED BY <2>1, NotifyKeeps
<1>2. s \in Glance /\ AfterTurns(ops, N, s) /\ s.ops = ops
  BY <1>1, ScanShape DEF Notify
<1>3. NextOp(ops) = s.waiting /\ StatusOf(ops) = s.status
  BY DEF NextOp, StatusOf
<1>4. N \in Nat /\ DOMAIN ops = 1 .. N /\ (N = 0 <=> ops = <<>>)
  OBVIOUS
<1> HIDE DEF s, N
<1>5. s.waiting \in Nat /\ s.status \in OpStatuses
  BY <1>2 DEF Glance
<1>6. DoneUpTo(ops, N) => s.waiting = 0 /\ s.status = IF ops = <<>> THEN "Waiting" ELSE "Done"
  BY <1>2, <1>4 DEF AfterTurns, AllDone
<1>7. ASSUME NEW i \in 1 .. N, IsFirst(ops, i)
      PROVE  /\ ops[i].status \in {"Waiting", "Scheduled", "Failed"}
             /\ s.status = ops[i].status
             /\ s.waiting = IF ops[i].status = "Failed" THEN 0 ELSE i
  <2>1. Turned(ops, N, s, i)
    BY <1>2, <1>7 DEF AfterTurns
  <2>2. \A j \in i + 1 .. N : ops[j].status # "Waiting"
    <3> TAKE j \in i + 1 .. N
    <3>1. j \in 1 .. N /\ i \in 1 .. j - 1
      BY <1>4
    <3> QED BY <1>4, <1>7, <3>1 DEF InOrder, Unfinished, IsFirst, DoneUpTo
  <2>3. ops[i].status \in {"Waiting", "Scheduled", "Failed"}
    <3>1. ops[i].status \in OpStatuses
      BY <1>4, OperationFields
    <3> QED BY <1>4, <1>7, <3>1 DEF InOrder, IsFirst, OpStatuses
  <2> QED BY <1>2, <2>1, <2>2, <2>3 DEF Turned
<1> QED BY <1>1, <1>3, <1>5, <1>6, <1>7 DEF N

-----------------------------------------------------------------------------
(***************************************************************************)
(* Reload appends the operations one after the other.                      *)
(***************************************************************************)
LEMMA NewOpType ==
    ASSUME NEW o \in Operation
    PROVE  /\ NewOp(o) \in Operation
           /\ NewOp(o).files = o.files
           /\ NewOp(o).status = IF o.files = <<>> THEN o.status ELSE FromFiles(o.files)
<1>1. FromFiles(o.files) \in OpStatuses
  BY FromFilesType
<1> HIDE DEF Files
<1> QED BY <1>1 DEF NewOp, Operation

LEMMA AppendOne ==
    ASSUME NEW read \in Seq(Operation), NEW o \in Operation
    PROVE  /\ Append(read, o) \in Seq(Operation)
           /\ Len(Append(read, o)) = Len(read) + 1
           /\ \A j \in 1 .. Len(read) : Append(read, o)[j] = read[j]
           /\ Append(read, o)[Len(read) + 1] = o
<1> HIDE DEF Operation
<1> QED OBVIOUS

LEMMA ReloadSteps ==
    ASSUME NEW ops \in Seq(Operation)
    PROVE  \E h \in [0 .. Len(ops) -> Seq(Operation)] :
              /\ h[0] = <<>>
              /\ \A k \in 1 .. Len(ops) : h[k] = Notify(Append(h[k - 1], NewOp(ops[k])))
              /\ Reload(ops) = Notify(h[Len(ops)])
<1> DEFINE N == Len(ops)
           Read(x, k) == Notify(Append(x, NewOp(ops[k])))
           F == [k \in 1 .. N |-> [x \in Seq(Operation) |-> Read(x, k)]]
           Eq(g) == g = [s \in SUBSET (1 .. N) |->
                            IF s = {} THEN <<>>
                            ELSE Notify(Append(g[s \ {Max(s)}], NewOp(ops[Max(s)])))]
<1>1. N \in Nat /\ DOMAIN ops = 1 .. N /\ \A k \in 1 .. N : ops[k] \in Operation
  OBVIOUS
<1>2. \A k \in 1 .. N : \A x \in Seq(Operation) : Read(x, k) \in Seq(Operation)
  BY <1>1, NewOpType, AppendOne, NotifyShape
<1>3. \A k \in 1 .. N : \A x \in Seq(Operation) :
        F[k][x] = Read(x, k) /\ F[k][x] \in Seq(Operation)
  <2> HIDE DEF N, Read
  <2> QED BY <1>2
<1> HIDE DEF N, F
<1>4. Stays(F, Seq(Operation), N)
  BY <1>3 DEF Stays
<1>5. Reload(ops) = Notify((CHOOSE g : Eq(g))[1 .. N])
  BY <1>1, Zenon DEF Reload, FoldLeft, MapThenFoldSet
<1>6. \E g : Eq(g)
  <2>1. PICK g \in [SUBSET (1 .. N) -> Seq(Operation)] : Recursion(g, <<>>, F, 1 .. N)
    <3>1. <<>> \in Seq(Operation)
      OBVIOUS
    <3> QED BY <1>1, <1>4, <3>1, RecursionExists
  <2>2. ASSUME NEW s \in SUBSET (1 .. N)
        PROVE  g[s] = IF s = {} THEN <<>> ELSE Read(g[s \ {Max(s)}], Max(s))
    <3> HIDE DEF Read
    <3>1. CASE s = {}
      BY <2>1, <3>1 DEF Recursion
    <3>2. CASE s # {}
      <4>1. Max(s) \in 1 .. N
        BY <1>1, <3>2, MaxIn
      <4>2. g[s \ {Max(s)}] \in Seq(Operation)
        OBVIOUS
      <4>3. g[s] = F[Max(s)][g[s \ {Max(s)}]]
        BY <2>1, <3>2 DEF Recursion
      <4> QED BY <1>3, <3>2, <4>1, <4>2, <4>3
    <3> QED BY <3>1, <3>2
  <2> QED BY <2>2
<1>7. PICK g : Eq(g) /\ Reload(ops) = Notify(g[1 .. N])
  BY <1>5, <1>6
<1>8. g[{}] = <<>>
  BY <1>7
<1>9. ASSUME NEW k \in 1 .. N, g[1 .. k - 1] \in Seq(Operation)
      PROVE  g[1 .. k] = F[k][g[1 .. k - 1]]
  <2>1. k \in Nat \ {0} /\ 1 .. k \in SUBSET (1 .. N)
    BY <1>1
  <2>2. g[1 .. k] = Read(g[1 .. k - 1], k)
    <3>1. 1 .. k # {} /\ Max(1 .. k) = k /\ (1 .. k) \ {k} = 1 .. k - 1
      BY <2>1, LastIndex
    <3> QED BY <1>7, <2>1, <3>1
  <2> QED BY <1>3, <1>9, <2>2
<1>10. PICK h \in [0 .. N -> Seq(Operation)] :
            /\ h[0] = <<>>
            /\ \A k \in 1 .. N : h[k] = F[k][h[k - 1]]
            /\ g[1 .. N] = h[N]
  <2> DEFINE St == Seq(Operation)
  <2>1. <<>> \in St /\ N \in Nat /\ Stays(F, St, N)
    BY <1>1, <1>4
  <2>2. Unrolls(g, F, St, N)
    BY <1>9 DEF Unrolls
  <2> HIDE DEF Eq, St
  <2>3. Unrolled(g[1 .. N], <<>>, F, St, N)
    BY <1>8, <2>1, <2>2, FoldSteps
  <2> QED BY <2>3 DEF St, Unrolled
<1>11. ASSUME NEW k \in 1 .. N PROVE h[k] = Read(h[k - 1], k)
  <2>1. h[k - 1] \in Seq(Operation)
    BY <1>1
  <2> QED BY <1>3, <1>10, <2>1
<1> QED BY <1>7, <1>10, <1>11 DEF N

LEMMA ReloadShape ==
    ASSUME NEW ops \in Seq(Operation)
    PROVE  /\ Reload(ops) \in Seq(Operation)
           /\ Len(Reload(ops)) = Len(ops)
           /\ DOMAIN Reload(ops) = DOMAIN ops
           /\ \A i \in DOMAIN ops : Reload(ops)[i].files = ops[i].files
<1> DEFINE N == Len(ops)
<1>1. PICK h \in [0 .. N -> Seq(Operation)] :
              /\ h[0] = <<>>
              /\ \A k \in 1 .. N : h[k] = Notify(Append(h[k - 1], NewOp(ops[k])))
              /\ Reload(ops) = Notify(h[N])
  BY ReloadSteps
<1> DEFINE G == {k \in 0 .. N : Len(h[k]) = k /\ \A j \in 1 .. k : h[k][j].files = ops[j].files}
<1>2. 0 \in G
  BY <1>1
<1>3. ASSUME NEW k \in 1 .. N, k - 1 \in G PROVE k \in G
  <2>1. k - 1 \in 0 .. N /\ k \in 0 .. N /\ (k - 1) + 1 = k /\ ops[k] \in Operation
    OBVIOUS
  <2> DEFINE x == h[k - 1]  o == NewOp(ops[k])  y == Append(x, o)
  <2>2. x \in Seq(Operation) /\ Len(x) = k - 1 /\ \A j \in 1 .. k - 1 : x[j].files = ops[j].files
    BY <1>3, <2>1
  <2>3. o \in Operation /\ o.files = ops[k].files
    BY <2>1, NewOpType
  <2> HIDE DEF x, o
  <2>4. y \in Seq(Operation) /\ Len(y) = k /\ y[k] = o /\ \A j \in 1 .. k - 1 : y[j] = x[j]
    BY <2>1, <2>2, <2>3, AppendOne
  <2> HIDE DEF y
  <2>5. Len(Notify(y)) = k /\ \A j \in 1 .. k : Notify(y)[j].files = y[j].files
    BY <2>1, <2>4, NotifyShape
  <2>6. \A j \in 1 .. k : j = k \/ j \in 1 .. k - 1
    OBVIOUS
  <2>7. h[k] = Notify(y)
    BY <1>1 DEF x, o, y
  <2> QED BY <2>1, <2>2, <2>3, <2>4, <2>5, <2>6, <2>7
<1>4. N \in Nat /\ DOMAIN ops = 1 .. N
  OBVIOUS
<1>5. N \in G
  <2>1. N \in 0 .. N
    OBVIOUS
  <2> HIDE DEF G, N
  <2> QED BY <2>1, <1>2, <1>3, <1>4, UpTo, Zenon
<1>6. /\ h[N] \in Seq(Operation) /\ Len(h[N]) = N /\ DOMAIN h[N] = 1 .. N
      /\ \A j \in 1 .. N : h[N][j].files = ops[j].files
  BY <1>4, <1>5
<1> QED BY <1>1, <1>4, <1>6, NotifyShape

(***************************************************************************)
(* Reading a request back.  NewOp gives an operation the status that its   *)
(* files give it: "Queued" where the one that was read was waiting.        *)
(***************************************************************************)
ReadsAs(x, ops) ==
    /\ Len(x) = Len(ops)
    /\ \A i \in 1 .. Len(ops) :
         /\ x[i].files = ops[i].files
         /\ \/ NewOp(x[i]).status = ops[i].status
            \/ NewOp(x[i]).status = "Queued" /\ ops[i].status = "Waiting"

LEMMA ReloadKeeps ==
    ASSUME NEW ops \in Seq(Operation), InOrder(ops), NEW x \in Seq(Operation), ReadsAs(x, ops)
    PROVE  Reload(x) = ops
<1> DEFINE N == Len(ops)
           Pre(k) == [j \in 1 .. k |-> ops[j]]
<1>1. Len(x) = N /\ N \in Nat /\ DOMAIN ops = 1 .. N
  BY DEF ReadsAs
<1>2. PICK h \in [0 .. N -> Seq(Operation)] :
              /\ h[0] = <<>>
              /\ \A k \in 1 .. N : h[k] = Notify(Append(h[k - 1], NewOp(x[k])))
              /\ Reload(x) = Notify(h[N])
  BY <1>1, ReloadSteps
<1>3. ASSUME NEW k \in 0 .. N
      PROVE  /\ Pre(k) \in Seq(Operation) /\ Len(Pre(k)) = k /\ DOMAIN Pre(k) = 1 .. k
             /\ \A j \in 1 .. k : Pre(k)[j] = ops[j]
             /\ InOrder(Pre(k))
  <2>1. \A j \in 1 .. k : j \in 1 .. N /\ ops[j] \in Operation
    OBVIOUS
  <2>2. Pre(k) \in Seq(Operation) /\ Len(Pre(k)) = k /\ DOMAIN Pre(k) = 1 .. k
    <3> HIDE DEF Operation
    <3> QED BY <2>1
  <2>3. \A i \in 1 .. k : \A j \in 1 .. i - 1 : j \in 1 .. k
    OBVIOUS
  <2> QED BY <1>1, <2>1, <2>2, <2>3 DEF InOrder, DoneUpTo
<1> HIDE DEF Pre
<1> DEFINE G == {k \in 0 .. N : h[k] = Pre(k)}
<1>4. 0 \in G
  <2>1. 0 \in 0 .. N /\ Pre(0) = <<>>
    BY <1>1 DEF Pre
  <2> QED BY <1>2, <2>1
<1>5. ASSUME NEW k \in 1 .. N, k - 1 \in G PROVE k \in G
  <2>1. k - 1 \in 0 .. N /\ k \in 0 .. N /\ (k - 1) + 1 = k /\ x[k] \in Operation
    BY <1>1
  <2> DEFINE o == NewOp(x[k])  y == Append(Pre(k - 1), o)
  <2>2. h[k] = Notify(y)
    BY <1>2, <1>5
  <2>3. o \in Operation /\ o.files = x[k].files
    BY <2>1, NewOpType
  <2>4. y \in Seq(Operation) /\ Len(y) = k /\ y[k] = o /\ \A j \in 1 .. k - 1 : y[j] = ops[j]
    <3> HIDE DEF o
    <3> QED BY <1>3, <2>1, <2>3, AppendOne
  <2> HIDE DEF y
  <2>5. \A j \in 1 .. k : j = k \/ j \in 1 .. k - 1
    OBVIOUS
  <2>6. Like(y, Pre(k))
    <3>1. Len(Pre(k)) = k /\ \A j \in 1 .. k : Pre(k)[j] = ops[j] /\ j \in 1 .. N
      BY <1>1, <1>3, <2>1
    <3>2. /\ o.files = ops[k].files
          /\ \/ o.status = ops[k].status
             \/ o.status = "Queued" /\ ops[k].status = "Waiting"
      BY <1>1, <2>3 DEF ReadsAs
    <3> HIDE DEF o, N
    <3> QED BY <2>4, <2>5, <3>1, <3>2 DEF Like
  <2>7. Notify(y) = Pre(k)
    BY <1>3, <2>1, <2>4, <2>6, NotifyKeeps
  <2> QED BY <2>1, <2>2, <2>7
<1>6. h[N] = Pre(N)
  <2>1. N \in G
    <3>1. N \in Nat /\ N \in 0 .. N
      BY <1>1
    <3> HIDE DEF G, N
    <3> QED BY <3>1, <1>4, <1>5, UpTo, Zenon
  <2> QED BY <2>1
<1>7. Pre(N) = ops
  <2> HIDE DEF Operation
  <2> QED BY <1>1 DEF Pre
<1> QED BY <1>2, <1>6, <1>7, OrderedScan

-----------------------------------------------------------------------------
(***************************************************************************)
(* The status of an operation with files is the one that its files give    *)
(* it; Notify only exchanges "Queued" and "Waiting".                       *)
(***************************************************************************)
Agrees(o) ==
    o.files # <<>> =>
        \/ o.status = FromFiles(o.files)
        \/ o.status = "Waiting" /\ FromFiles(o.files) = "Queued"

FilesAgree(ops) == \A i \in DOMAIN ops : Agrees(ops[i])

LEMMA NotifyStatus ==
    ASSUME NEW ops \in Seq(Operation), NEW i \in DOMAIN ops
    PROVE  \/ Notify(ops)[i].status = ops[i].status
           \/ {Notify(ops)[i].status, ops[i].status} \subseteq {"Queued", "Waiting"}
<1> DEFINE n == Notify(ops)  N == Len(ops)
<1>1. AfterTurns(ops, N, Scan(ops)) /\ n = Scan(ops).ops
  BY ScanShape DEF Notify
<1>2. N \in Nat /\ i \in 1 .. N /\ ops[i].status \in OpStatuses
  BY OperationFields
<1> HIDE DEF n, N
<1>3. CASE DoneUpTo(ops, N)
  BY <1>1, <1>2, <1>3 DEF AfterTurns, AllDone, DoneUpTo, n
<1>4. CASE \E f \in 1 .. N : IsFirst(ops, f)
  <2>1. PICK f \in 1 .. N : IsFirst(ops, f)
    BY <1>4
  <2>2. Turned(ops, N, Scan(ops), f)
    BY <1>1, <2>1 DEF AfterTurns
  <2> QED BY <1>1, <1>2, <2>1, <2>2 DEF Turned, IsFirst, OpStatuses, n
<1> QED BY <1>2, <1>3, <1>4, FirstExists

LEMMA NotifyAgrees ==
    ASSUME NEW ops \in Seq(Operation), FilesAgree(ops)
    PROVE  FilesAgree(Notify(ops))
<1> SUFFICES ASSUME NEW i \in DOMAIN ops, Notify(ops)[i].files # <<>>
             PROVE  Agrees(Notify(ops)[i])
  BY NotifyShape DEF FilesAgree, Agrees
<1>1. ops[i].files # <<>> /\ Notify(ops)[i].files = ops[i].files
  BY NotifyShape
<1>2. Agrees(ops[i])
  BY DEF FilesAgree
<1>3. FromFiles(ops[i].files) # "Waiting"
  BY DEF FromFiles
<1> QED BY <1>1, <1>2, <1>3, NotifyStatus DEF Agrees

\* Reading a request back from JSON changes nothing.
LEMMA ReloadSame ==
    ASSUME NEW ops \in Seq(Operation), InOrder(ops), FilesAgree(ops)
    PROVE  Reload(ops) = ops
<1>1. ASSUME NEW i \in 1 .. Len(ops)
      PROVE  \/ NewOp(ops[i]).status = ops[i].status
             \/ NewOp(ops[i]).status = "Queued" /\ ops[i].status = "Waiting"
  <2>1. i \in DOMAIN ops
    OBVIOUS
  <2>2. ops[i] \in Operation /\ Agrees(ops[i])
    BY <2>1, OperationFields DEF FilesAgree
  <2> QED BY <2>2, NewOpType DEF Agrees
<1>2. ReadsAs(ops, ops)
  BY <1>1 DEF ReadsAs
<1> QED BY <1>2, ReloadKeeps

-----------------------------------------------------------------------------
(***************************************************************************)
(* The calls on a request.                                                 *)
(***************************************************************************)
LEMMA ReplaceOne ==
    ASSUME NEW ops \in Seq(Operation), NEW i \in DOMAIN ops, NEW o \in Operation,
           NEW y, y = [ops EXCEPT ![i] = o]
    PROVE  /\ y \in Seq(Operation) /\ Len(y) = Len(ops) /\ DOMAIN y = DOMAIN ops
           /\ y[i] = o
           /\ \A j \in DOMAIN ops : j # i => y[j] = ops[j]
<1> HIDE DEF Operation
<1> QED OBVIOUS

LEMMA EachOne ==
    ASSUME NEW ops \in Seq(Operation), NEW y, DOMAIN y = DOMAIN ops,
           y = [i \in DOMAIN ops |-> y[i]],
           \A i \in DOMAIN ops : y[i] \in Operation
    PROVE  y \in Seq(Operation) /\ Len(y) = Len(ops)
<1> HIDE DEF Operation
<1> QED OBVIOUS

\* What SetFile looks at.
\* the files of operation i, the operation, and the operations, once file f has status v
FilesWith(ops, i, f, v) == [ops[i].files EXCEPT ![f] = v]

OpWith(ops, i, f, v) == Op(FromFiles(FilesWith(ops, i, f, v)), FilesWith(ops, i, f, v))

OpsWith(ops, i, f, v) == [ops EXCEPT ![i] = OpWith(ops, i, f, v)]

LEMMA SetFileShape ==
    ASSUME NEW ops \in Seq(Operation), NEW i \in DOMAIN ops,
           NEW f \in DOMAIN ops[i].files, NEW v \in FileStatuses
    PROVE  /\ FilesWith(ops, i, f, v) \in Files
           /\ DOMAIN FilesWith(ops, i, f, v) = DOMAIN ops[i].files
           /\ FilesWith(ops, i, f, v) # <<>>
           /\ OpWith(ops, i, f, v) \in Operation
           /\ OpsWith(ops, i, f, v) \in Seq(Operation)
           /\ Len(OpsWith(ops, i, f, v)) = Len(ops)
           /\ DOMAIN OpsWith(ops, i, f, v) = DOMAIN ops
           /\ OpsWith(ops, i, f, v)[i] = OpWith(ops, i, f, v)
           /\ \A j \in DOMAIN ops : j # i => OpsWith(ops, i, f, v)[j] = ops[j]
           /\ SetFile(ops, i, f, v) = Notify(OpsWith(ops, i, f, v))
<1> DEFINE files == FilesWith(ops, i, f, v)
           o == OpWith(ops, i, f, v)
           y == OpsWith(ops, i, f, v)
<1>1. files \in Files /\ DOMAIN files = DOMAIN ops[i].files /\ files # <<>>
  <2>1. ops[i].files \in Seq(FileStatuses)
    BY OperationFields DEF Files
  <2> DEFINE old == ops[i].files
  <2> HIDE DEF old
  <2>2. [old EXCEPT ![f] = v] \in Seq(FileStatuses) /\ DOMAIN [old EXCEPT ![f] = v] = DOMAIN old
    <3> HIDE DEF FileStatuses
    <3> QED BY <2>1 DEF old
  <2>3. f \in DOMAIN [old EXCEPT ![f] = v]
    BY <2>2 DEF old
  <2>4. files = [old EXCEPT ![f] = v]
    BY DEF old, FilesWith
  <2> QED BY <2>2, <2>3, <2>4 DEF Files, old
<1>2. o = Op(FromFiles(files), files) /\ y = [ops EXCEPT ![i] = o]
  BY DEF OpWith, OpsWith
<1> HIDE DEF files, o, y
<1>3. o \in Operation
  BY <1>1, <1>2, FromFilesType DEF Op, Operation
<1>4. /\ y \in Seq(Operation) /\ Len(y) = Len(ops) /\ DOMAIN y = DOMAIN ops
      /\ y[i] = o
      /\ \A j \in DOMAIN ops : j # i => y[j] = ops[j]
  BY <1>2, <1>3, ReplaceOne
<1>5. SetFile(ops, i, f, v) = Notify(OpsWith(ops, i, f, v))
  BY DEF SetFile, OpsWith, OpWith, FilesWith
<1> QED BY <1>1, <1>3, <1>4, <1>5 DEF files, o, y

LEMMA SetFileType ==
    ASSUME NEW ops \in Seq(Operation), NEW i \in DOMAIN ops,
           NEW f \in DOMAIN ops[i].files, NEW v \in FileStatuses
    PROVE  /\ SetFile(ops, i, f, v) \in Seq(Operation)
           /\ Len(SetFile(ops, i, f, v)) = Len(ops)
           /\ DOMAIN SetFile(ops, i, f, v) = DOMAIN ops
           /\ \A j \in DOMAIN ops : DOMAIN SetFile(ops, i, f, v)[j].files = DOMAIN ops[j].files
<1> DEFINE files == FilesWith(ops, i, f, v)
           o == OpWith(ops, i, f, v)
           y == OpsWith(ops, i, f, v)
<1>1. /\ DOMAIN files = DOMAIN ops[i].files
      /\ y \in Seq(Operation) /\ Len(y) = Len(ops) /\ DOMAIN y = DOMAIN ops
      /\ y[i] = o
      /\ \A j \in DOMAIN ops : j # i => y[j] = ops[j]
      /\ SetFile(ops, i, f, v) = Notify(y)
  BY SetFileShape
<1>2. o.files = files
  BY DEF Op, OpWith
<1> HIDE DEF o, y, files
<1>3. \A j \in DOMAIN ops : DOMAIN y[j].files = DOMAIN ops[j].files
  BY <1>1, <1>2
<1> QED BY <1>1, <1>3, NotifyShape

LEMMA SetOpShape ==
    ASSUME NEW ops \in Seq(Operation), NEW i \in DOMAIN ops, NEW v \in OpStatuses
    PROVE  \E y \in Seq(Operation) :
              /\ Len(y) = Len(ops) /\ DOMAIN y = DOMAIN ops
              /\ y[i].files = ops[i].files
              /\ y[i].status = IF ops[i].files = <<>> THEN v ELSE FromFiles(ops[i].files)
              /\ \A j \in DOMAIN ops : j # i => y[j] = ops[j]
              /\ SetOp(ops, i, v) = Notify(y)
<1> DEFINE w == IF ops[i].files = <<>> THEN v ELSE FromFiles(ops[i].files)
           o == [ops[i] EXCEPT !.status = w]
           y == [ops EXCEPT ![i] = o]
<1>1. w \in OpStatuses
  BY FromFilesType
<1> HIDE DEF w
<1>2. o \in Operation /\ o.files = ops[i].files /\ o.status = w
  <2>1. ops[i] \in Operation
    BY OperationFields
  <2> HIDE DEF Files
  <2> QED BY <1>1, <2>1 DEF Operation
<1> HIDE DEF o
<1>3. /\ y \in Seq(Operation) /\ Len(y) = Len(ops) /\ DOMAIN y = DOMAIN ops
      /\ y[i] = o
      /\ \A j \in DOMAIN ops : j # i => y[j] = ops[j]
  BY <1>2, ReplaceOne
<1>4. SetOp(ops, i, v) = Notify(y)
  BY DEF SetOp, o, w
<1> HIDE DEF y
<1> QED BY <1>2, <1>3, <1>4 DEF w

LEMMA SetOpType ==
    ASSUME NEW ops \in Seq(Operation), NEW i \in DOMAIN ops, NEW v \in OpStatuses
    PROVE  /\ SetOp(ops, i, v) \in Seq(Operation)
           /\ Len(SetOp(ops, i, v)) = Len(ops)
BY SetOpShape, NotifyShape

LEMMA Concatenation ==
    ASSUME NEW S, NEW a \in Seq(S), NEW b \in Seq(S)
    PROVE  /\ a \o b \in Seq(S) /\ Len(a \o b) = Len(a) + Len(b)
           /\ \A j \in 1 .. Len(a) : (a \o b)[j] = a[j]
           /\ \A j \in 1 .. Len(b) : (a \o b)[Len(a) + j] = b[j]
OBVIOUS

LEMMA InsertShape ==
    ASSUME NEW ops \in Seq(Operation), NEW p \in 1 .. Len(ops) + 1, NEW o \in Operation
    PROVE  /\ InsertAt(ops, p, o) \in Seq(Operation)
           /\ Len(InsertAt(ops, p, o)) = Len(ops) + 1
           /\ \A j \in 1 .. p - 1 : InsertAt(ops, p, o)[j] = ops[j]
           /\ InsertAt(ops, p, o)[p] = o
           /\ \A j \in p + 1 .. Len(ops) + 1 : InsertAt(ops, p, o)[j] = ops[j - 1]
<1> HIDE DEF Operation
<1> DEFINE a == SubSeq(ops, 1, p - 1)  b == <<o>>  c == SubSeq(ops, p, Len(ops))
           N == Len(ops)
<1>1. N \in Nat /\ DOMAIN ops = 1 .. N /\ p \in Nat /\ p - 1 \in 0 .. N
  OBVIOUS
<1>2. a \in Seq(Operation) /\ Len(a) = p - 1 /\ \A j \in 1 .. p - 1 : a[j] = ops[j]
  <2>1. \A j \in 1 .. p - 1 : j \in 1 .. N /\ ops[j] \in Operation
    BY <1>1
  <2> QED BY <1>1, <2>1
<1>3. b \in Seq(Operation) /\ Len(b) = 1 /\ b[1] = o
  OBVIOUS
<1>4. c \in Seq(Operation) /\ Len(c) = N - p + 1 /\ \A j \in 1 .. N - p + 1 : c[j] = ops[p + j - 1]
  <2>1. \A j \in p .. N : j \in 1 .. N /\ ops[j] \in Operation
    BY <1>1
  <2> QED BY <1>1, <2>1
<1> HIDE DEF a, b, c, N
<1>5. /\ a \o b \in Seq(Operation) /\ Len(a \o b) = p
      /\ \A j \in 1 .. p - 1 : (a \o b)[j] = ops[j]
      /\ (a \o b)[p] = o
  <2>1. a \o b \in Seq(Operation) /\ Len(a \o b) = Len(a) + Len(b)
    BY <1>2, <1>3, Concatenation
  <2>2. \A j \in 1 .. p - 1 : (a \o b)[j] = a[j]
    BY <1>1, <1>2, <1>3, Concatenation
  <2>3. (a \o b)[p] = b[1]
    <3>1. 1 \in 1 .. Len(b) /\ p = Len(a) + 1
      BY <1>1, <1>2, <1>3
    <3> QED BY <1>2, <1>3, <3>1, Concatenation
  <2>4. Len(a) + Len(b) = p
    BY <1>1, <1>2, <1>3
  <2> QED BY <1>2, <1>3, <2>1, <2>2, <2>3, <2>4
<1> DEFINE d == a \o b
<1> HIDE DEF d
<1>6. d \in Seq(Operation) /\ Len(d) = p /\ d[p] = o /\ \A j \in 1 .. p - 1 : d[j] = ops[j]
  BY <1>5 DEF d
<1>7. /\ d \o c \in Seq(Operation) /\ Len(d \o c) = N + 1
      /\ \A j \in 1 .. p : (d \o c)[j] = d[j]
      /\ \A j \in p + 1 .. N + 1 : (d \o c)[j] = ops[j - 1]
  <2>1. d \o c \in Seq(Operation) /\ Len(d \o c) = N + 1
    BY <1>1, <1>4, <1>6
  <2>2. \A j \in 1 .. p : (d \o c)[j] = d[j]
    BY <1>1, <1>4, <1>6
  <2>3. ASSUME NEW j \in p + 1 .. N + 1 PROVE (d \o c)[j] = ops[j - 1]
    <3>1. (d \o c)[j] = c[j - p] /\ j - p \in 1 .. N - p + 1 /\ p + (j - p) - 1 = j - 1
      BY <1>1, <1>4, <1>6
    <3>2. c[j - p] = ops[p + (j - p) - 1]
      BY <1>4, <3>1
    <3> QED BY <3>1, <3>2
  <2> QED BY <2>1, <2>2, <2>3
<1>8. InsertAt(ops, p, o) = d \o c
  BY DEF InsertAt, a, b, c, d
<1> QED BY <1>1, <1>6, <1>7, <1>8 DEF N

\* FailAll: every operation has failed, with all its files.
LEMMA FailAllShape ==
    ASSUME NEW ops \in Seq(Operation), NEW n, n = FailAll(ops)
    PROVE  /\ n \in Seq(Operation) /\ Len(n) = Len(ops) /\ DOMAIN n = DOMAIN ops
           /\ \A i \in DOMAIN n : n[i].status = "Failed"
           /\ \A i \in DOMAIN n : \A f \in DOMAIN n[i].files : n[i].files[f] = "Failed"
<1> DEFINE o(i) == Op("Failed", [f \in DOMAIN ops[i].files |-> "Failed"])
           y == [i \in DOMAIN ops |-> o(i)]
<1>1. ASSUME NEW i \in DOMAIN ops
      PROVE  /\ o(i) \in Operation
             /\ o(i).status = "Failed"
             /\ \A f \in DOMAIN o(i).files : o(i).files[f] = "Failed"
  <2> DEFINE old == ops[i].files  files == [f \in DOMAIN old |-> "Failed"]
  <2>1. old \in Seq(FileStatuses)
    BY OperationFields DEF Files
  <2>2. "Failed" \in FileStatuses /\ "Failed" \in OpStatuses
    BY DEF FileStatuses, OpStatuses
  <2>3. files \in Files
    <3> HIDE DEF old, FileStatuses
    <3> QED BY <2>1, <2>2 DEF Files
  <2> QED BY <2>2, <2>3 DEF Op, Operation
<1>2. \A i \in DOMAIN ops : y[i] = o(i)
  OBVIOUS
<1> HIDE DEF o
<1>3. y \in Seq(Operation) /\ Len(y) = Len(ops) /\ DOMAIN y = DOMAIN ops
  BY <1>1, EachOne
<1> HIDE DEF y
<1>4. n = Notify(y)
  BY DEF FailAll, y, o
<1>5. \A i \in DOMAIN ops : n[i].status = "Failed"
  BY <1>1, <1>2, <1>3, <1>4, NotifyStatus
<1>6. \A i \in DOMAIN ops : n[i].files = o(i).files
  BY <1>2, <1>3, <1>4, NotifyShape
<1>7. n \in Seq(Operation) /\ Len(n) = Len(ops) /\ DOMAIN n = DOMAIN ops
  BY <1>3, <1>4, NotifyShape
<1>8. \A i \in DOMAIN n : \A f \in DOMAIN n[i].files : n[i].files[f] = "Failed"
  BY <1>1, <1>6, <1>7
<1> QED BY <1>5, <1>7, <1>8

\* What Reset looks at: no operation is failed, nor a file of it.
LEMMA ResetShape ==
    ASSUME NEW ops \in Seq(Operation)
    PROVE  \E y \in Seq(Operation) :
              /\ Len(y) = Len(ops) /\ DOMAIN y = DOMAIN ops
              /\ \A i \in DOMAIN ops : y[i] = ResetOp(ops[i])
              /\ Reset(ops) = Notify(y)
<1> DEFINE y == [i \in DOMAIN ops |-> ResetOp(ops[i])]
<1>1. ASSUME NEW i \in DOMAIN ops PROVE ResetOp(ops[i]) \in Operation
  <2> DEFINE old == ops[i].files  files == ResetFiles(old)
  <2>1. old \in Seq(FileStatuses) /\ ops[i].status \in OpStatuses
    BY OperationFields DEF Files
  <2>2. "Waiting" \in FileStatuses /\ "Waiting" \in OpStatuses
    BY DEF FileStatuses, OpStatuses
  <2>3. files \in Files
    <3> HIDE DEF old, FileStatuses
    <3>1. \A f \in DOMAIN old : old[f] \in FileStatuses
      BY <2>1
    <3> QED BY <2>1, <2>2, <3>1 DEF Files, ResetFiles
  <2>4. FromFiles(files) \in OpStatuses
    BY FromFilesType
  <2> HIDE DEF files, Files, OpStatuses
  <2>5. \A w \in OpStatuses : Op(w, files) \in Operation
    BY <2>3 DEF Op, Operation
  <2> QED BY <2>1, <2>2, <2>4, <2>5 DEF ResetOp, files
<1>2. y \in Seq(Operation) /\ Len(y) = Len(ops) /\ DOMAIN y = DOMAIN ops
  BY <1>1, EachOne
<1>3. Reset(ops) = Notify(y)
  BY DEF Reset
<1>4. \A i \in DOMAIN ops : y[i] = ResetOp(ops[i])
  OBVIOUS
<1> HIDE DEF y
<1> QED BY <1>2, <1>3, <1>4

LEMMA ResetType ==
    ASSUME NEW ops \in Seq(Operation)
    PROVE  Reset(ops) \in Seq(Operation) /\ Len(Reset(ops)) = Len(ops)
BY ResetShape, NotifyShape

-----------------------------------------------------------------------------
(***************************************************************************)
(* What every call leaves behind of a request in order.  An operation that *)
(* a handler works on was the next one when it was taken: all before it    *)
(* are done, and none behind it is scheduled.                              *)
(***************************************************************************)
Sound(n) == n \in Seq(Operation) /\ n # <<>> /\ InOrder(n) /\ FilesAgree(n)

DoneOf(o) == {i \in DOMAIN o : o[i].status = "Done"}

NoneScheduledBehind(o, i) == \A j \in i + 1 .. Len(o) : o[j].status # "Scheduled"

Taken(o, c) == c # 0 => DoneUpTo(o, c - 1) /\ NoneScheduledBehind(o, c)

LEMMA Behind ==
    ASSUME NEW o \in Seq(Operation), InOrder(o), NEW i \in DOMAIN o, o[i].status # "Done"
    PROVE  \A j \in i + 1 .. Len(o) : o[j].status \notin Unfinished
<1> SUFFICES ASSUME NEW j \in i + 1 .. Len(o), o[j].status \in Unfinished PROVE FALSE
  OBVIOUS
<1>1. j \in DOMAIN o /\ i \in 1 .. j - 1
  OBVIOUS
<1> QED BY <1>1 DEF InOrder, DoneUpTo

\* The next operation of a request, if there is one, is the first not done.
LEMMA NextIsFirst ==
    ASSUME NEW o \in Seq(Operation), InOrder(o), o # <<>>,
           StatusOf(o) \in {"Waiting", "Scheduled"}
    PROVE  /\ NextOp(o) \in 1 .. Len(o)
           /\ IsFirst(o, NextOp(o))
           /\ o[NextOp(o)].status = StatusOf(o)
<1>1. Len(o) \in Nat
  OBVIOUS
<1>2. ~ DoneUpTo(o, Len(o))
  BY OrderedScan
<1>3. PICK i \in 1 .. Len(o) : IsFirst(o, i)
  BY <1>1, <1>2, FirstExists
<1> QED BY <1>3, OrderedScan

\* An operation that is not finished gets a new status, from its files or not.
LEMMA Touched ==
    ASSUME NEW o \in Seq(Operation), Sound(o), NEW i \in DOMAIN o, o[i].status \in Unfinished,
           NEW y \in Seq(Operation), Len(y) = Len(o), DOMAIN y = DOMAIN o,
           y[i].status # "Waiting", Agrees(y[i]),
           \A j \in DOMAIN o : j # i => y[j] = o[j]
    PROVE  /\ Sound(Notify(y)) /\ Len(Notify(y)) = Len(o)
           /\ Taken(Notify(y), i)
           /\ DoneOf(o) \subseteq DoneOf(Notify(y))
<1> DEFINE n == Notify(y)  N == Len(o)
<1>1. N \in Nat /\ DOMAIN o = 1 .. N /\ DOMAIN y = 1 .. N /\ i \in 1 .. N /\ InOrder(o) /\ N # 0
  BY DEF Sound
<1>2. /\ n \in Seq(Operation) /\ Len(n) = N /\ DOMAIN n = 1 .. N
      /\ \A j \in 1 .. N : n[j].status = "Done" <=> y[j].status = "Done"
      /\ \A k \in 0 .. N : DoneUpTo(n, k) <=> DoneUpTo(y, k)
  BY NotifyShape
<1>3. \A j \in 1 .. N : n[j].status = "Scheduled" <=> y[j].status = "Scheduled"
  BY NotifyStatus
<1> HIDE DEF n, N
<1>4. DoneUpTo(o, i - 1)
  BY <1>1 DEF InOrder
<1>5. \A k \in 0 .. i - 1 : DoneUpTo(y, k)
  BY <1>1, <1>4 DEF DoneUpTo
<1>6. \A j \in i + 1 .. N : /\ j \in DOMAIN o
                            /\ y[j].status # "Scheduled"
                            /\ y[j].status # "Waiting"
  <2>1. \A j \in i + 1 .. N : o[j].status \notin Unfinished
    BY Behind, <1>1 DEF Unfinished, N
  <2> QED BY <1>1, <2>1 DEF Unfinished
<1>7. \A j \in 1 .. i - 1 : j \in DOMAIN o /\ y[j].status = "Done"
  BY <1>1, <1>5 DEF DoneUpTo
<1>8. \A j \in 1 .. N : j = i \/ j \in 1 .. i - 1 \/ j \in i + 1 .. N
  BY <1>1
<1>9. Ready(y)
  <2> SUFFICES ASSUME NEW j \in 1 .. N
               PROVE  /\ y[j].status = "Scheduled" => DoneUpTo(y, j - 1)
                      /\ y[j].status # "Waiting"
    BY <1>1 DEF Ready
  <2>1. i - 1 \in 0 .. i - 1
    BY <1>1
  <2> QED BY <1>5, <1>6, <1>7, <1>8, <2>1
<1>10. InOrder(n)
  BY <1>9, NotifyOrders DEF n
<1>11. FilesAgree(n)
  <2>1. FilesAgree(y)
    BY DEF FilesAgree, Sound
  <2> QED BY <2>1, NotifyAgrees DEF n
<1>12. Taken(n, i)
  <2>1. i - 1 \in 0 .. i - 1 /\ i - 1 \in 0 .. N
    BY <1>1
  <2> QED BY <1>1, <1>2, <1>3, <1>5, <1>6, <2>1 DEF Taken, NoneScheduledBehind
<1>13. DoneOf(o) \subseteq DoneOf(n)
  BY <1>1, <1>2 DEF DoneOf, Unfinished
<1>14. n # <<>>
  BY <1>1, <1>2
<1> QED BY <1>2, <1>10, <1>11, <1>12, <1>13, <1>14 DEF Sound, n, N

\* A file of an operation that is next is settled, or tried again.  The operation
\* is unfinished as long as a file of it is.
LEMMA FileUnfinished ==
    ASSUME NEW o \in Seq(Operation), Sound(o), NEW i \in DOMAIN o, DoneUpTo(o, i - 1),
           NEW f \in DOMAIN o[i].files, o[i].files[f] \in Unfinished
    PROVE  o[i].status \in Unfinished
<1> DEFINE q == o[i]
<1>1. q \in Operation /\ Agrees(q) /\ q.status # "Queued"
  BY OperationFields DEF Sound, FilesAgree, InOrder
<1>2. q.files # <<>> /\ q.files[f] \in ToSet(q.files)
  BY DEF ToSet
<1>3. q.files[f] \in Unfinished
  OBVIOUS
<1> HIDE DEF q
<1>4. FromFiles(q.files) \in {"Scheduled", "Queued"}
  BY <1>2, <1>3 DEF FromFiles, Unfinished
<1> QED BY <1>1, <1>2, <1>4 DEF Agrees, Unfinished, q

LEMMA SetFileSound ==
    ASSUME NEW o \in Seq(Operation), Sound(o), NEW i \in DOMAIN o, DoneUpTo(o, i - 1),
           NEW f \in DOMAIN o[i].files, o[i].files[f] \in Unfinished, NEW v \in FileStatuses
    PROVE  /\ Sound(SetFile(o, i, f, v)) /\ Len(SetFile(o, i, f, v)) = Len(o)
           /\ Taken(SetFile(o, i, f, v), i)
           /\ DOMAIN SetFile(o, i, f, v)[i].files = DOMAIN o[i].files
           /\ DoneOf(o) \subseteq DoneOf(SetFile(o, i, f, v))
<1> DEFINE files == FilesWith(o, i, f, v)
           q == OpWith(o, i, f, v)
           y == OpsWith(o, i, f, v)
<1>1. o[i].status \in Unfinished
  BY FileUnfinished
<1>2. /\ files \in Files /\ DOMAIN files = DOMAIN o[i].files /\ files # <<>>
      /\ y \in Seq(Operation) /\ Len(y) = Len(o) /\ DOMAIN y = DOMAIN o
      /\ y[i] = q
      /\ \A j \in DOMAIN o : j # i => y[j] = o[j]
      /\ SetFile(o, i, f, v) = Notify(y)
  BY SetFileShape
<1> HIDE DEF y
<1>3. q.status = FromFiles(files) /\ q.files = files /\ q.status # "Waiting" /\ Agrees(q)
  <2>1. q = Op(FromFiles(files), files)
    BY DEF OpWith
  <2> HIDE DEF files, q
  <2> QED BY <1>2, <2>1 DEF Op, Agrees, FromFiles
<1> HIDE DEF files
<1> HIDE DEF q
<1>4. /\ Sound(Notify(y)) /\ Len(Notify(y)) = Len(o)
      /\ Taken(Notify(y), i)
      /\ DoneOf(o) \subseteq DoneOf(Notify(y))
  BY <1>1, <1>2, <1>3, Touched
<1>5. DOMAIN Notify(y)[i].files = DOMAIN o[i].files
  BY <1>2, <1>3, NotifyShape
<1> QED BY <1>2, <1>4, <1>5

LEMMA SetOpSound ==
    ASSUME NEW o \in Seq(Operation), Sound(o), NEW i \in DOMAIN o, o[i].status \in Unfinished,
           o[i].files = <<>>, NEW v \in {"Done", "Failed"}
    PROVE  /\ Sound(SetOp(o, i, v)) /\ Len(SetOp(o, i, v)) = Len(o)
           /\ Taken(SetOp(o, i, v), i)
           /\ DoneOf(o) \subseteq DoneOf(SetOp(o, i, v))
<1>1. PICK y \in Seq(Operation) :
              /\ Len(y) = Len(o) /\ DOMAIN y = DOMAIN o
              /\ y[i].files = o[i].files
              /\ y[i].status = IF o[i].files = <<>> THEN v ELSE FromFiles(o[i].files)
              /\ \A j \in DOMAIN o : j # i => y[j] = o[j]
              /\ SetOp(o, i, v) = Notify(y)
  <2>1. v \in OpStatuses
    BY DEF OpStatuses
  <2> QED BY <2>1, SetOpShape
<1>2. y[i].status # "Waiting" /\ Agrees(y[i])
  BY <1>1 DEF Agrees
<1> QED BY <1>1, <1>2, Touched

(***************************************************************************)
(* The operations as they are submitted.                                   *)
(***************************************************************************)
New(n) == Op("Queued", [f \in 1 .. n |-> "Waiting"])

LEMMA FreshShape ==
    ASSUME NEW n \in Nat
    PROVE  /\ New(n) \in Operation
           /\ New(n).status = "Queued"
           /\ NewOp(New(n)).status = "Queued"
           /\ Agrees(New(n))
<1> DEFINE files == [f \in 1 .. n |-> "Waiting"]
<1>1. files \in Files
  BY DEF Files, FileStatuses
<1>2. files # <<>> => FromFiles(files) = "Queued"
  <2>1. CASE n = 0
    <3>1. files = <<>>
      BY <2>1
    <3> QED BY <3>1
  <2>2. CASE n # 0
    <3>1. 1 \in DOMAIN files /\ \A f \in DOMAIN files : files[f] = "Waiting"
      BY <2>2
    <3>2. "Waiting" \in ToSet(files) /\ "Scheduled" \notin ToSet(files)
      <4> HIDE DEF files
      <4> QED BY <3>1 DEF ToSet
    <3> QED BY <3>2 DEF FromFiles
  <2> QED BY <2>1, <2>2
<1> HIDE DEF files
<1>3. /\ New(n) \in Operation
      /\ New(n).status = "Queued"
      /\ New(n).files = files
  <2>1. New(n) = Op("Queued", files)
    BY DEF New, files
  <2> HIDE DEF Files
  <2> QED BY <1>1, <2>1 DEF Op, Operation, OpStatuses
<1>4. NewOp(New(n)).status = "Queued" /\ Agrees(New(n))
  BY <1>2, <1>3, NewOpType DEF Agrees
<1> QED BY <1>3, <1>4

\* A submitted request is in order: its first operation waits.
LEMMA SubmittedShape ==
    ASSUME NEW plan \in Seq(Nat), plan # <<>>
    PROVE  Sound(Reload([i \in DOMAIN plan |-> New(plan[i])]))
<1> DEFINE N == Len(plan)
           x == [i \in 1 .. N |-> New(plan[i])]
           t == [i \in 1 .. N |-> Op(IF i = 1 THEN "Waiting" ELSE "Queued", New(plan[i]).files)]
<1>1. N \in Nat /\ N # 0 /\ DOMAIN plan = 1 .. N /\ \A i \in 1 .. N : plan[i] \in Nat
  OBVIOUS
<1>2. \A i \in 1 .. N : /\ New(plan[i]) \in Operation
                        /\ New(plan[i]).status = "Queued"
                        /\ NewOp(New(plan[i])).status = "Queued"
                        /\ Agrees(New(plan[i]))
  BY <1>1, FreshShape
<1>3. ASSUME NEW i \in 1 .. N
      PROVE  /\ t[i] \in Operation
             /\ t[i].status = IF i = 1 THEN "Waiting" ELSE "Queued"
             /\ t[i].files = New(plan[i]).files
             /\ Agrees(t[i])
  <2>1. New(plan[i]).files \in Files
    BY <1>2 DEF Operation
  <2> DEFINE w == IF i = 1 THEN "Waiting" ELSE "Queued"
  <2>2. t[i] = Op(w, New(plan[i]).files) /\ w \in OpStatuses
    BY DEF OpStatuses
  <2> HIDE DEF t, Files
  <2>3. /\ t[i] \in Operation /\ t[i].status = w /\ t[i].files = New(plan[i]).files
    BY <2>1, <2>2 DEF Op, Operation
  <2>4. Agrees(t[i])
    BY <1>2, <2>3 DEF Agrees, FromFiles
  <2> QED BY <2>3, <2>4
<1>4. x \in Seq(Operation) /\ Len(x) = N /\ \A i \in 1 .. N : x[i] = New(plan[i])
  <2> HIDE DEF N, Operation
  <2> QED BY <1>1, <1>2
<1>5. t \in Seq(Operation) /\ Len(t) = N /\ DOMAIN t = 1 .. N
  <2>1. t = [i \in 1 .. N |-> t[i]] /\ DOMAIN t = 1 .. N
    OBVIOUS
  <2> HIDE DEF t, N, Operation
  <2> QED BY <1>1, <1>3, <2>1
<1>6. x = [i \in DOMAIN plan |-> New(plan[i])]
  BY <1>1
<1> HIDE DEF x, t, N
<1>7. InOrder(t)
  <2>1. \A i \in 1 .. N : i # 1 => 1 \in 1 .. i - 1
    BY <1>1
  <2>2. DoneUpTo(t, 1 - 1)
    BY DEF DoneUpTo
  <2> QED BY <1>1, <1>3, <1>5, <2>1, <2>2 DEF InOrder, DoneUpTo, Unfinished
<1>8. FilesAgree(t)
  BY <1>3, <1>5 DEF FilesAgree
<1>9. ReadsAs(x, t)
  BY <1>2, <1>3, <1>4, <1>5 DEF ReadsAs
<1>10. Reload(x) = t
  BY <1>4, <1>5, <1>7, <1>9, ReloadKeeps
<1>11. t # <<>>
  BY <1>1, <1>5
<1> QED BY <1>5, <1>6, <1>7, <1>8, <1>10, <1>11 DEF Sound

-----------------------------------------------------------------------------
(***************************************************************************)
(* Resetting: no operation and no file of a request that is reset remains  *)
(* failed, and what is done remains done.                                  *)
(***************************************************************************)
LEMMA ResetOpShape ==
    ASSUME NEW o \in Operation, Agrees(o), o.status \notin Unfinished
    PROVE  LET n == ResetOp(o) IN
           /\ o.status = "Done" => n.status = "Done"
           /\ n.status = "Done" => o.status = "Done"
           /\ n.status \notin {"Failed", "Scheduled"}
           /\ Agrees(n)
<1> DEFINE old == o.files  files == ResetFiles(old)  n == ResetOp(o)
<1>1. o.status \in OpStatuses /\ old \in Seq(FileStatuses)
  BY DEF Operation, Files
<1> HIDE DEF old
<1>2. /\ DOMAIN files = DOMAIN old
      /\ \A f \in DOMAIN old : files[f] = IF old[f] = "Failed" THEN "Waiting" ELSE old[f]
  BY DEF ResetFiles
<1> HIDE DEF files
<1>3. n.files = files
  BY DEF ResetOp, Op, files, old
<1>4. n.status = IF "Failed" \in ToSet(old) THEN FromFiles(files)
                 ELSE IF o.status = "Failed" THEN "Waiting" ELSE o.status
  BY DEF ResetOp, Op, files, old
<1> HIDE DEF n
<1>5. old = <<>> => ToSet(old) = {}
  BY DEF ToSet
<1>6. CASE "Failed" \in ToSet(old)
  <2>1. PICK f \in DOMAIN old : old[f] = "Failed"
    BY <1>6 DEF ToSet
  <2>2. o.status # "Scheduled" /\ o.status = FromFiles(old)
    BY <1>5, <1>6 DEF Agrees, Unfinished, old
  <2>3. "Scheduled" \notin ToSet(old)
    BY <2>2 DEF FromFiles
  <2>4. o.status # "Done"
    BY <1>6, <2>2 DEF FromFiles
  <2>5. "Scheduled" \notin ToSet(files)
    BY <1>2, <2>3 DEF ToSet
  <2>6. "Waiting" \in ToSet(files)
    BY <1>2, <2>1 DEF ToSet
  <2>7. n.status = "Queued" /\ FromFiles(files) = "Queued"
    BY <1>4, <1>6, <2>5, <2>6 DEF FromFiles
  <2> QED BY <1>3, <2>4, <2>7 DEF Agrees, n
<1>7. CASE "Failed" \notin ToSet(old)
  <2>1. \A f \in DOMAIN old : old[f] # "Failed"
    BY <1>7 DEF ToSet
  <2>2. files = old
    <3>1. \A f \in DOMAIN old : files[f] = old[f]
      BY <1>2, <2>1
    <3>2. files = [f \in DOMAIN files |-> files[f]]
      BY DEF files, ResetFiles
    <3>3. old = [f \in DOMAIN old |-> old[f]]
      BY <1>1
    <3> QED BY <1>2, <3>1, <3>2, <3>3
  <2>3. o.status = "Failed" => old = <<>>
    <3>1. ASSUME o.status = "Failed", old # <<>> PROVE FALSE
      <4>1. FromFiles(old) = "Failed"
        BY <3>1 DEF Agrees, old
      <4> QED BY <1>7, <4>1 DEF FromFiles
    <3> QED BY <3>1
  <2>4. n.status = IF o.status = "Failed" THEN "Waiting" ELSE o.status
    BY <1>4, <1>7
  <2>5. Agrees(n)
    BY <1>3, <2>2, <2>3, <2>4 DEF Agrees, old
  <2> QED BY <2>4, <2>5 DEF Unfinished, n
<1> QED BY <1>6, <1>7

LEMMA ResetSound ==
    ASSUME NEW o \in Seq(Operation), Sound(o), StatusOf(o) = "Failed"
    PROVE  Sound(Reset(o)) /\ DoneOf(o) \subseteq DoneOf(Reset(o))
<1>1. PICK y \in Seq(Operation) : /\ Len(y) = Len(o) /\ DOMAIN y = DOMAIN o
                                  /\ \A i \in DOMAIN o : y[i] = ResetOp(o[i])
                                  /\ Reset(o) = Notify(y)
  BY ResetShape
<1>2. \A i \in DOMAIN o : o[i].status \notin Unfinished
  <2>1. Len(o) \in Nat /\ DOMAIN o = 1 .. Len(o) /\ InOrder(o) /\ o # <<>>
    BY DEF Sound
  <2>2. ~ DoneUpTo(o, Len(o))
    BY <2>1, OrderedScan
  <2>3. PICK f \in 1 .. Len(o) : IsFirst(o, f)
    BY <2>1, <2>2, FirstExists
  <2>4. o[f].status = "Failed"
    BY <2>1, <2>3, OrderedScan
  <2>5. \A i \in f + 1 .. Len(o) : o[i].status \notin Unfinished
    BY <2>1, <2>4, Behind
  <2>6. \A i \in 1 .. f - 1 : o[i].status = "Done"
    BY <2>3 DEF IsFirst, DoneUpTo
  <2>7. \A i \in 1 .. Len(o) : i \in 1 .. f - 1 \/ i = f \/ i \in f + 1 .. Len(o)
    BY <2>1
  <2> QED BY <2>1, <2>4, <2>5, <2>6, <2>7 DEF Unfinished
<1>3. ASSUME NEW i \in DOMAIN o
      PROVE  /\ o[i].status = "Done" => y[i].status = "Done"
             /\ y[i].status \notin {"Failed", "Scheduled"}
             /\ Agrees(y[i])
  <2>1. o[i] \in Operation /\ Agrees(o[i]) /\ o[i].status \notin Unfinished
    BY <1>2, OperationFields DEF Sound, FilesAgree
  <2> QED BY <1>1, <2>1, ResetOpShape
<1>4. Ready(y)
  <2>1. \A i \in DOMAIN y : \A j \in 1 .. i - 1 : j \in DOMAIN o
    BY <1>1
  <2> QED BY <1>1, <1>3, <2>1 DEF Ready
<1>5. FilesAgree(y)
  BY <1>1, <1>3 DEF FilesAgree
<1>6. InOrder(Notify(y)) /\ FilesAgree(Notify(y))
  BY <1>4, <1>5, NotifyOrders, NotifyAgrees
<1>7. /\ Notify(y) \in Seq(Operation) /\ Len(Notify(y)) = Len(o) /\ DOMAIN Notify(y) = DOMAIN o
      /\ \A i \in DOMAIN o : o[i].status = "Done" => Notify(y)[i].status = "Done"
  BY <1>1, <1>3, NotifyShape
<1>8. Notify(y) # <<>>
  BY <1>7 DEF Sound
<1> QED BY <1>1, <1>6, <1>7, <1>8 DEF Sound, DoneOf

\* Without a proxy everything has failed, files and operations alike.
LEMMA FailAllSound ==
    ASSUME NEW o \in Seq(Operation), Sound(o)
    PROVE  Sound(FailAll(o)) /\ \A i \in DOMAIN FailAll(o) : FailAll(o)[i].status = "Failed"
<1> DEFINE n == FailAll(o)
<1>1. Len(o) \in Nat \ {0}
  BY DEF Sound
<1>2. /\ n \in Seq(Operation) /\ Len(n) = Len(o) /\ DOMAIN n = DOMAIN o
      /\ \A i \in DOMAIN n : n[i].status = "Failed"
      /\ \A i \in DOMAIN n : \A f \in DOMAIN n[i].files : n[i].files[f] = "Failed"
  BY <1>1, FailAllShape
<1> HIDE DEF n
<1>3. InOrder(n)
  BY <1>2 DEF InOrder, Unfinished
<1>4. FilesAgree(n)
  <2> SUFFICES ASSUME NEW i \in DOMAIN n, n[i].files # <<>>
               PROVE  FromFiles(n[i].files) = "Failed"
    BY <1>2 DEF FilesAgree, Agrees
  <2> DEFINE files == n[i].files
  <2>1. files \in Seq(FileStatuses) /\ files # <<>> /\ \A f \in DOMAIN files : files[f] = "Failed"
    BY <1>2, OperationFields DEF Files
  <2> HIDE DEF files
  <2>2. 1 \in DOMAIN files
    <3> HIDE DEF FileStatuses
    <3> QED BY <2>1
  <2>3. ToSet(files) = {"Failed"}
    BY <2>1, <2>2 DEF ToSet
  <2> QED BY <2>3 DEF FromFiles, files
<1>5. n # <<>>
  BY <1>1, <1>2
<1> QED BY <1>2, <1>3, <1>4, <1>5 DEF Sound, n

=============================================================================
