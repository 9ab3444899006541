---------------------------- MODULE RowLocksProofs ----------------------------
(***************************************************************************)
(* Commands whose plans follow one global order never deadlock, however    *)
(* many run at once and over however many rows.                            *)
(***************************************************************************)
EXTENDS RowLocks, WellFoundedInduction, TLAPS

\* Every unconditional request of t before its position has been granted.
Taken ==
  \A t \in Txn : Running(t) =>
    \A i \in 1 .. at[t] - 1 :
      LET q == Plan[job[t]][i]
      IN  q.by = None /\ q.mode # "INSERT" /\ q.row \notin Absent
            => <<q.row, q.mode>> \in held[t]

IInv == TypeOK /\ Compatible /\ Taken

LEMMA PlanType ==
  ASSUME NEW j \in Job
  PROVE  /\ Plan[j] \in Seq(Request) /\ Len(Plan[j]) \in Nat
         /\ \A k \in 1 .. Len(Plan[j]) :
              /\ Plan[j][k] \in Request
              /\ Plan[j][k].row \in Row /\ Plan[j][k].mode \in Mode
  <1>1. Plan[j] \in Seq(Request)
    BY RowLocksAssumption
  <1>2. \A k \in 1 .. Len(Plan[j]) : Plan[j][k] \in Request
    BY <1>1
  <1>. QED BY <1>1, <1>2 DEF Request

LEMMA WantedType ==
  ASSUME TypeOK, NEW t \in Txn, Waiting(t)
  PROVE  /\ job[t] \in Job /\ at[t] \in 1 .. Len(Plan[job[t]])
         /\ Wanted(t) = Plan[job[t]][at[t]]
         /\ Wanted(t).row \in Row /\ Wanted(t).mode \in Mode
         /\ Len(Plan[job[t]]) \in Nat
  <1>1. job[t] \in Job /\ at[t] \in Nat \ {0}
    BY DEF TypeOK, Waiting, Running
  <1>2. at[t] \in 1 .. Len(Plan[job[t]])
    BY <1>1, PlanType DEF Waiting
  <1>. QED BY <1>1, <1>2, PlanType DEF Wanted

\* What TypeOK says of the place of one transaction in its plan.
InPlan(t) ==
  /\ at[t] <= IF Running(t) THEN Len(Plan[job[t]]) + 1 ELSE 1
  /\ \A a \in held[t] :
       /\ Running(t)
       /\ \E i \in 1 .. at[t] - 1 :
            Plan[job[t]][i].row = a[1] /\ Plan[job[t]][i].mode = a[2]

LEMMA TypeParts == TypeOK => \A t \in Txn : InPlan(t)
  BY DEF TypeOK, InPlan

LEMMA InitIInv == Init => IInv
  BY RowLocksAssumption DEF Init, IInv, TypeOK, Compatible, Taken, Running

LEMMA StartIInv ==
  ASSUME IInv, NEW t \in Txn, NEW j \in Job, Start(t, j)
  PROVE  IInv'
  <1>1. /\ held[t] = {} /\ at[t] = 1 /\ j # None
        /\ job' = [job EXCEPT ![t] = j] /\ UNCHANGED <<at, held, exists>>
        /\ Len(Plan[j]) \in Nat
    BY RowLocksAssumption, PlanType DEF Start, IInv, TypeOK
  <1>2. TypeOK'
    <2>1. ASSUME NEW u \in Txn PROVE InPlan(u)'
      <3>1. CASE u = t
        BY <1>1, <3>1 DEF InPlan, Running, IInv, TypeOK
      <3>2. CASE u # t
        <4>1. UNCHANGED <<job[u], at[u], held[u]>>
          BY <1>1, <3>2 DEF IInv, TypeOK
        <4>. QED BY <4>1, TypeParts DEF InPlan, Running, IInv
      <3>. QED BY <3>1, <3>2
    <2>. QED BY <1>1, <2>1 DEF IInv, TypeOK, InPlan
  <1>3. Compatible'
    BY <1>1 DEF IInv, Compatible
  <1>4. Taken'
    BY <1>1 DEF IInv, Taken, Running, TypeOK
  <1>. QED BY <1>2, <1>3, <1>4 DEF IInv

LEMMA SkipIInv ==
  ASSUME IInv, NEW t \in Txn, Skip(t)
  PROVE  IInv'
  <1>1. /\ Waiting(t) /\ Vacuous(t)
        /\ at' = [at EXCEPT ![t] = @ + 1] /\ UNCHANGED <<job, held, exists>>
    BY DEF Skip
  <1>2. /\ job[t] \in Job /\ at[t] \in 1 .. Len(Plan[job[t]])
        /\ Wanted(t) = Plan[job[t]][at[t]]
        /\ Wanted(t).row \in Row
        /\ Len(Plan[job[t]]) \in Nat
    BY <1>1, WantedType DEF IInv
  <1>3. TypeOK'
    <2>1. /\ at' \in [Txn -> Nat \ {0}]
          /\ \A u \in Txn : at'[u] >= at[u]
      BY <1>1, <1>2 DEF IInv, TypeOK
    <2>2. ASSUME NEW u \in Txn
          PROVE  at'[u] <= IF Running(u)' THEN Len(Plan[job'[u]]) + 1 ELSE 1
      BY <1>1, <1>2 DEF IInv, TypeOK, Running, Waiting
    <2>3. ASSUME NEW u \in Txn, NEW a \in held'[u]
          PROVE  /\ Running(u)'
                 /\ \E i \in 1 .. at'[u] - 1 :
                      Plan[job'[u]][i].row = a[1] /\ Plan[job'[u]][i].mode = a[2]
      <3>1. PICK i \in 1 .. at[u] - 1 :
              Plan[job[u]][i].row = a[1] /\ Plan[job[u]][i].mode = a[2]
        BY <1>1, <2>3 DEF IInv, TypeOK
      <3>2. i \in 1 .. at'[u] - 1
        BY <2>1 DEF IInv, TypeOK
      <3>. QED BY <1>1, <2>3, <3>1, <3>2 DEF IInv, TypeOK, Running
    <2>. QED BY <1>1, <2>1, <2>2, <2>3 DEF IInv, TypeOK
  <1>4. Compatible'
    BY <1>1 DEF IInv, Compatible
  <1>5. Taken'
    <2>. SUFFICES ASSUME NEW u \in Txn, Running(u), NEW i \in 1 .. at'[u] - 1,
                         Plan[job[u]][i].by = None,
                         Plan[job[u]][i].mode # "INSERT",
                         Plan[job[u]][i].row \notin Absent
                  PROVE  <<Plan[job[u]][i].row, Plan[job[u]][i].mode>> \in held[u]
      BY <1>1 DEF Taken, Running
    <2>1. CASE i \in 1 .. at[u] - 1
      BY <2>1 DEF IInv, Taken
    <2>2. CASE i \notin 1 .. at[u] - 1
      <3>1. u = t /\ i = at[t]
        BY <1>1, <1>2, <2>2 DEF IInv, TypeOK
      <3>. QED BY <1>1, <1>2, <3>1 DEF Vacuous, IInv, TypeOK
    <2>. QED BY <2>1, <2>2
  <1>. QED BY <1>3, <1>4, <1>5 DEF IInv

LEMMA GrantIInv ==
  ASSUME IInv, NEW t \in Txn, Grant(t)
  PROVE  IInv'
  <1>. DEFINE q == Wanted(t)
  <1>1. /\ Waiting(t) /\ ~Vacuous(t) /\ \A u \in Txn : ~WaitsFor(t, u)
        /\ held' = [held EXCEPT ![t] = @ \cup {<<q.row, q.mode>>}]
        /\ at' = [at EXCEPT ![t] = @ + 1] /\ UNCHANGED <<job, exists>>
    BY DEF Grant
  <1>2. /\ job[t] \in Job /\ at[t] \in 1 .. Len(Plan[job[t]])
        /\ q = Plan[job[t]][at[t]]
        /\ q.row \in Row /\ q.mode \in Mode
        /\ Len(Plan[job[t]]) \in Nat
    BY <1>1, WantedType DEF IInv
  <1>3. TypeOK'
    <2>1. /\ at' \in [Txn -> Nat \ {0}]
          /\ held' \in [Txn -> SUBSET (Row \X Mode)]
          /\ \A u \in Txn : at'[u] >= at[u]
      BY <1>1, <1>2 DEF IInv, TypeOK
    <2>2. ASSUME NEW u \in Txn
          PROVE  at'[u] <= IF Running(u)' THEN Len(Plan[job'[u]]) + 1 ELSE 1
      BY <1>1, <1>2 DEF IInv, TypeOK, Running, Waiting
    <2>3. ASSUME NEW u \in Txn, NEW a \in held'[u]
          PROVE  /\ Running(u)'
                 /\ \E i \in 1 .. at'[u] - 1 :
                      Plan[job'[u]][i].row = a[1] /\ Plan[job'[u]][i].mode = a[2]
      <3>1. CASE a \in held[u]
        <4>1. PICK i \in 1 .. at[u] - 1 :
                Plan[job[u]][i].row = a[1] /\ Plan[job[u]][i].mode = a[2]
          BY <3>1 DEF IInv, TypeOK
        <4>2. i \in 1 .. at'[u] - 1
          BY <2>1 DEF IInv, TypeOK
        <4>. QED BY <1>1, <3>1, <4>1, <4>2 DEF IInv, TypeOK, Running
      <3>2. CASE a \notin held[u]
        <4>1. u = t /\ a = <<q.row, q.mode>>
          BY <1>1, <2>3, <3>2 DEF IInv, TypeOK
        <4>2. at[t] \in 1 .. at'[t] - 1
          BY <1>1, <1>2 DEF IInv, TypeOK
        <4>. QED BY <1>1, <1>2, <4>1, <4>2 DEF Waiting, Running
      <3>. QED BY <3>1, <3>2
    <2>. QED BY <1>1, <2>1, <2>2, <2>3 DEF IInv, TypeOK
  <1>4. Compatible'
    <2>. SUFFICES ASSUME NEW u \in Txn, NEW v \in Txn, NEW a \in held'[u],
                         NEW b \in held'[v], u # v, a[1] = b[1]
                  PROVE  ~Conflict(a[2], b[2])
      BY DEF Compatible, Conflict
    <2>1. ASSUME NEW x \in Txn, x # t, NEW c \in held[x], c[1] = q.row
          PROVE  ~Conflict(q.mode, c[2])
      <3>1. c = <<q.row, c[2]>> /\ c[2] \in Mode
        BY <2>1 DEF IInv, TypeOK
      <3>. QED BY <1>1, <2>1, <3>1 DEF WaitsFor
    <2>2. CASE a \in held[u] /\ b \in held[v]
      BY <2>2 DEF IInv, Compatible
    <2>3. CASE a \notin held[u]
      <3>1. u = t /\ a = <<q.row, q.mode>> /\ b \in held[v]
        BY <1>1, <2>3 DEF IInv, TypeOK
      <3>. QED BY <2>1, <3>1
    <2>4. CASE b \notin held[v]
      <3>1. v = t /\ b = <<q.row, q.mode>> /\ a \in held[u]
        BY <1>1, <2>4 DEF IInv, TypeOK
      <3>2. ~Conflict(q.mode, a[2])
        BY <2>1, <3>1
      <3>. QED BY <3>1, <3>2 DEF Conflict
    <2>. QED BY <2>2, <2>3, <2>4
  <1>5. Taken'
    <2>. SUFFICES ASSUME NEW u \in Txn, Running(u), NEW i \in 1 .. at'[u] - 1,
                         Plan[job[u]][i].by = None,
                         Plan[job[u]][i].mode # "INSERT",
                         Plan[job[u]][i].row \notin Absent
                  PROVE  <<Plan[job[u]][i].row, Plan[job[u]][i].mode>> \in held'[u]
      BY <1>1 DEF Taken, Running
    <2>1. CASE i \in 1 .. at[u] - 1
      BY <1>1, <2>1 DEF IInv, Taken, TypeOK
    <2>2. CASE i \notin 1 .. at[u] - 1
      <3>1. u = t /\ i = at[t]
        BY <1>1, <1>2, <2>2 DEF IInv, TypeOK
      <3>. QED BY <1>1, <1>2, <3>1 DEF IInv, TypeOK
    <2>. QED BY <2>1, <2>2
  <1>. QED BY <1>3, <1>4, <1>5 DEF IInv

\* A commit or an abort of t.
LEMMA ReleaseIInv ==
  ASSUME IInv, NEW t \in Txn, Release(t), exists \subseteq exists',
         exists' \subseteq Row
  PROVE  IInv'
  <1>1. /\ job' = [job EXCEPT ![t] = None]
        /\ at' = [at EXCEPT ![t] = 1]
        /\ held' = [held EXCEPT ![t] = {}]
    BY DEF Release
  <1>2. TypeOK'
    <2>1. ASSUME NEW u \in Txn PROVE InPlan(u)'
      <3>1. CASE u = t
        <4>1. job'[u] = None /\ at'[u] = 1 /\ held'[u] = {}
          BY <1>1, <3>1 DEF IInv, TypeOK
        <4>. QED BY <4>1 DEF InPlan, Running
      <3>2. CASE u # t
        <4>1. UNCHANGED <<job[u], at[u], held[u]>>
          BY <1>1, <3>2 DEF IInv, TypeOK
        <4>. QED BY <4>1, TypeParts DEF InPlan, Running, IInv
      <3>. QED BY <3>1, <3>2
    <2>2. /\ job' \in [Txn -> Job \cup {None}]
          /\ at' \in [Txn -> Nat \ {0}]
          /\ held' \in [Txn -> SUBSET (Row \X Mode)]
          /\ exists' \in SUBSET Row
          /\ Row \ Absent \subseteq exists'
      BY <1>1 DEF IInv, TypeOK
    <2>. QED BY <2>1, <2>2 DEF TypeOK, InPlan
  <1>3. Compatible'
    BY <1>1 DEF IInv, Compatible, TypeOK
  <1>4. Taken'
    BY <1>1 DEF IInv, Taken, TypeOK, Running
  <1>. QED BY <1>2, <1>3, <1>4 DEF IInv

LEMMA StepIInv == IInv /\ [Next]_vars => IInv'
  <1>. SUFFICES ASSUME IInv, [Next]_vars PROVE IInv'
    OBVIOUS
  <1>1. ASSUME NEW t \in Txn, Commit(t) \/ Abort(t)
        PROVE  IInv'
    BY <1>1, ReleaseIInv DEF Commit, Abort, Inserted, IInv, TypeOK
  <1>2. CASE UNCHANGED vars
    BY <1>2 DEF vars, IInv, TypeOK, Compatible, Taken, Running
  <1>. QED BY <1>1, <1>2, StartIInv, SkipIInv, GrantIInv DEF Next

\* Row locks of two transactions never conflict.
THEOREM LocksCompatible == Spec => []Compatible
  <1>1. IInv => Compatible
    BY DEF IInv
  <1>. QED BY <1>1, InitIInv, StepIInv, PTL DEF Spec

-----------------------------------------------------------------------------
(* From one global order to the absence of deadlocks.                      *)

\* When plans are ordered, a transaction only ever waits for an unguarded row
\* ranked above every unguarded row it holds.
LEMMA WaitsUpwards ==
  ASSUME IInv, NEW rank, NEW guard \in [Row -> Row], PlansOrdered(rank, guard),
         NEW t \in Txn, NEW u \in Txn, WaitsFor(t, u)
  PROVE  /\ guard[Wanted(t).row] = Wanted(t).row
         /\ \A a \in held[t] :
              guard[a[1]] = a[1] => rank[a[1]] < rank[Wanted(t).row]
         /\ \E m \in Mode : <<Wanted(t).row, m>> \in held[u]
  <1>. DEFINE q == Wanted(t)
              Req(x, i) == Plan[job[x]][i]
              Covers(b, r) ==
                /\ b.row = guard[r.row] /\ b.by = None
                /\ \/ b.mode = "UPDATE"
                   \/ b.row = r.row /\ b.mode = "SHARE" /\ r.mode = "KEY SHARE"
              Covered(x, i) == \E k \in 1 .. i - 1 : Covers(Req(x, k), Req(x, i))
              Above(x, i) ==
                /\ guard[Req(x, i).row] = Req(x, i).row
                /\ \A k \in 1 .. i - 1 :
                     guard[Req(x, k).row] = Req(x, k).row =>
                       rank[Req(x, k).row] < rank[Req(x, i).row]
  <1>1. /\ t # u /\ Waiting(t)
        /\ job[t] \in Job /\ at[t] \in 1 .. Len(Plan[job[t]])
        /\ q = Req(t, at[t]) /\ q.row \in Row /\ q.mode \in Mode
    BY WantedType DEF WaitsFor, IInv
  <1>2. PICK m \in Mode : <<q.row, m>> \in held[u] /\ Conflict(q.mode, m)
    BY DEF WaitsFor
  <1>3. PICK k \in 1 .. at[u] - 1 : Req(u, k).row = q.row /\ Req(u, k).mode = m
    BY <1>2 DEF IInv, TypeOK
  <1>4. /\ job[u] \in Job /\ k \in 1 .. Len(Plan[job[u]])
        /\ Running(u)
    <2>1. Running(u) /\ job[u] \in Job /\ at[u] \in Nat
      BY <1>2 DEF IInv, TypeOK, Running
    <2>2. at[u] <= Len(Plan[job[u]]) + 1
      BY <2>1 DEF IInv, TypeOK
    <2>. QED BY <2>1, <2>2, <1>3, PlanType
  <1>5. ASSUME NEW x \in Txn, job[x] \in Job, NEW i \in 1 .. Len(Plan[job[x]])
        PROVE  Covered(x, i) \/ Above(x, i)
    <2>. DEFINE before == {Plan[job[x]][n] : n \in 1 .. i - 1}
    <2>1. i \in DOMAIN Plan[job[x]]
      BY <1>5, PlanType
    <2>2. \/ \E b \in before : Covers(b, Req(x, i))
          \/ /\ guard[Req(x, i).row] = Req(x, i).row
             /\ \A b \in before :
                  guard[b.row] = b.row => rank[b.row] < rank[Req(x, i).row]
      BY <1>5, <2>1 DEF PlansOrdered, RequestOrdered
    <2>3. /\ \A n \in 1 .. i - 1 : Req(x, n) \in before
          /\ \A b \in before : \E n \in 1 .. i - 1 : b = Req(x, n)
      OBVIOUS
    <2>. HIDE DEF before, Covers
    <2>. QED BY <2>2, <2>3
  <1>6. ASSUME NEW x \in Txn, Running(x), job[x] \in Job,
               NEW i \in 1 .. at[x], i \in 1 .. Len(Plan[job[x]]), Covered(x, i)
        PROVE  \/ <<guard[Req(x, i).row], "UPDATE">> \in held[x]
               \/ /\ guard[Req(x, i).row] = Req(x, i).row
                  /\ Req(x, i).mode = "KEY SHARE"
                  /\ <<Req(x, i).row, "SHARE">> \in held[x]
    <2>1. PICK n \in 1 .. i - 1 : Covers(Req(x, n), Req(x, i))
      BY <1>6
    <2>2. n \in 1 .. at[x] - 1
      <3>1. at[x] \in Nat
        BY DEF IInv, TypeOK
      <3>. QED BY <3>1
    <2>3. Req(x, n).row \notin Absent
      BY <1>6, <2>1, PlanType DEF PlansOrdered, RequestOrdered
    <2>4. Taken /\ Req(x, n).by = None /\ Req(x, n).mode # "INSERT"
      BY <2>1 DEF IInv
    <2>5. <<Req(x, n).row, Req(x, n).mode>> \in held[x]
      BY <1>6, <2>2, <2>3, <2>4 DEF Taken
    <2>6. CASE Req(x, n).mode = "UPDATE"
      BY <2>1, <2>5, <2>6
    <2>7. CASE Req(x, n).mode = "SHARE"
      BY <2>1, <2>5, <2>7
    <2>. QED BY <2>1, <2>6, <2>7
  <1>7. ~Covered(t, at[t])
    <2>. SUFFICES ASSUME Covered(t, at[t]) PROVE FALSE
      OBVIOUS
    <2>. HIDE DEF Covered
    <2>1. CASE /\ guard[q.row] = q.row /\ q.mode = "KEY SHARE"
               /\ <<q.row, "SHARE">> \in held[t]
      BY <1>1, <1>2, <2>1 DEF IInv, Compatible, Conflict
    <2>2. CASE <<guard[q.row], "UPDATE">> \in held[t]
      <3>1. CASE guard[q.row] = q.row
        BY <1>1, <1>2, <2>2, <3>1 DEF IInv, Compatible, Conflict
      <3>2. CASE guard[q.row] # q.row
        <4>1. Covered(u, k)
          BY <1>3, <1>4, <1>5, <3>2
        <4>2. k \in 1 .. at[u]
          BY <1>3 DEF IInv, TypeOK
        <4>3. <<guard[q.row], "UPDATE">> \in held[u]
          <5>1. \/ <<guard[Req(u, k).row], "UPDATE">> \in held[u]
                \/ guard[Req(u, k).row] = Req(u, k).row
            BY <1>4, <1>6, <4>1, <4>2
          <5>. QED BY <1>3, <3>2, <5>1
        <4>. QED BY <1>1, <2>2, <4>3 DEF IInv, Compatible, Conflict
      <3>. QED BY <3>1, <3>2
    <2>3. Running(t) /\ at[t] \in 1 .. at[t]
      BY <1>1, WantedType DEF Waiting, IInv
    <2>4. \/ <<guard[q.row], "UPDATE">> \in held[t]
          \/ /\ guard[q.row] = q.row /\ q.mode = "KEY SHARE"
             /\ <<q.row, "SHARE">> \in held[t]
      BY <1>1, <1>6, <2>3
    <2>. QED BY <2>1, <2>2, <2>4
  <1>8. Above(t, at[t])
    BY <1>1, <1>5, <1>7
  <1>9. ASSUME NEW a \in held[t], guard[a[1]] = a[1]
        PROVE  rank[a[1]] < rank[q.row]
    <2>1. PICK i \in 1 .. at[t] - 1 : Plan[job[t]][i].row = a[1]
      BY <1>9 DEF IInv, TypeOK
    <2>. QED BY <1>1, <1>8, <1>9, <2>1
  <1>. QED BY <1>1, <1>2, <1>8, <1>9

LEMMA LeastMember ==
  ASSUME NEW H \in SUBSET Nat, H # {}
  PROVE  \E h \in H : \A x \in H : h <= x
  <1>1. PICK h \in H : \A x \in H : <<x, h>> \notin OpToRel(<, Nat)
    BY NatLessThanWellFounded, WFMin, Zenon
  <1>2. ASSUME NEW x \in H PROVE ~(x < h)
    <2>1. x \in Nat /\ h \in Nat
      OBVIOUS
    <2>. QED BY <1>1, <2>1, Zenon DEF OpToRel
  <1>. QED BY <1>2

LEMMA OrderedNoDeadlock ==
  ASSUME IInv, NEW top \in Nat, NEW rank \in [Row -> 0 .. top],
         NEW guard \in [Row -> Row], PlansOrdered(rank, guard)
  PROVE  NoDeadlock
  <1>. SUFFICES ASSUME NEW S \in SUBSET Txn, S # {},
                       \A t \in S : \E u \in S : WaitsFor(t, u)
                PROVE  FALSE
    BY DEF NoDeadlock, Deadlocked
  <1>. DEFINE Height(t) == top - rank[Wanted(t).row]
              H == {Height(t) : t \in S}
  <1>1. ASSUME NEW t \in S PROVE Height(t) \in Nat
    BY WantedType DEF WaitsFor, IInv
  <1>2. H \in SUBSET Nat /\ H # {}
    BY <1>1
  <1>3. PICK h \in H : \A x \in H : h <= x
    BY <1>2, LeastMember
  <1>4. PICK t \in S : h = Height(t)
    BY <1>3
  <1>5. PICK u \in S : WaitsFor(t, u)
    OBVIOUS
  <1>6. PICK v \in S : WaitsFor(u, v)
    OBVIOUS
  <1>7. rank[Wanted(t).row] < rank[Wanted(u).row]
    BY <1>5, <1>6, WaitsUpwards
  <1>8. /\ rank[Wanted(t).row] \in 0 .. top
        /\ rank[Wanted(u).row] \in 0 .. top
    BY <1>5, <1>6, WantedType DEF WaitsFor, IInv
  <1>9. h <= Height(u)
    BY <1>3
  <1>. QED BY <1>4, <1>7, <1>8, <1>9

\* Transactions that follow one global order queue instead of deadlocking.
THEOREM OrderedPlansNeverDeadlock ==
  ASSUME NEW top \in Nat, NEW rank \in [Row -> 0 .. top],
         NEW guard \in [Row -> Row], PlansOrdered(rank, guard)
  PROVE  Spec => []NoDeadlock
  <1>1. IInv => NoDeadlock
    BY OrderedNoDeadlock
  <1>. QED BY <1>1, InitIInv, StepIInv, PTL DEF Spec
=============================================================================
