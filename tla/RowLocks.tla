------------------------------- MODULE RowLocks -------------------------------
(***************************************************************************)
(* PostgreSQL row locks as the stock-writing transactions of the API take  *)
(* them: one row at a time, in the order of their statements, waiting for  *)
(* a conflicting lock and releasing everything when the transaction ends.  *)
(* What each command locks is a constant here, Plan; StockLocks gives it.  *)
(*                                                                         *)
(* A request may name a row that need not exist.  INSERT ... ON CONFLICT   *)
(* DO NOTHING creates it when it is absent, waiting first for another      *)
(* transaction that has inserted it and not committed; SELECT FOR UPDATE   *)
(* passes over a row it cannot see.                                        *)
(***************************************************************************)
EXTENDS Integers, Sequences

CONSTANTS
  Txn,    \* transactions open at the same time
  Job,    \* the commands they run
  Row,    \* rows, and advisory locks named like rows
  Plan,   \* Plan[j]: the requests of job j, in statement order
  Absent, \* rows that do not exist yet
  None    \* no job, or no row

Mode == {"KEY SHARE", "SHARE", "UPDATE", "INSERT"}

\* mode: how the row is locked; by: the row whose insertion makes this
\* request necessary (a foreign key check), or None.
Request == [row : Row, mode : Mode, by : Row \cup {None}]

ASSUME RowLocksAssumption ==
  /\ None \notin Job /\ None \notin Row
  /\ Plan \in [Job -> Seq(Request)]
  /\ Absent \subseteq Row

VARIABLES
  job,    \* job[t]: the job t runs, or None
  at,     \* at[t]: index of the next request of t
  held,   \* held[t]: the row locks t holds, as <<row, mode>>
  exists  \* committed rows

vars == <<job, at, held, exists>>

\* The row-level lock conflicts of PostgreSQL; only the inserter of an
\* uncommitted row holds it, and any other inserter must wait.
Conflict(m, n) ==
  \/ m \in {"UPDATE", "INSERT"} \/ n \in {"UPDATE", "INSERT"}

Running(t) == job[t] # None

Waiting(t) == Running(t) /\ at[t] <= Len(Plan[job[t]])

Wanted(t) == Plan[job[t]][at[t]]

Inserted(t) == {r \in Row : <<r, "INSERT">> \in held[t]}

\* The next request of t touches nothing: the row is already there, cannot
\* be seen, or the insertion it belongs to did not happen.
Vacuous(t) ==
  LET q == Wanted(t)
  IN  \/ q.by # None /\ q.by \notin Inserted(t)
      \/ q.mode = "INSERT" /\ q.row \in exists
      \/ q.mode # "INSERT" /\ q.row \notin exists \cup Inserted(t)

WaitsFor(t, u) ==
  /\ t # u
  /\ Waiting(t) /\ ~Vacuous(t)
  /\ \E m \in Mode : <<Wanted(t).row, m>> \in held[u] /\ Conflict(Wanted(t).mode, m)

Init ==
  /\ job = [t \in Txn |-> None]
  /\ at = [t \in Txn |-> 1]
  /\ held = [t \in Txn |-> {}]
  /\ exists = Row \ Absent

Start(t, j) ==
  /\ ~Running(t)
  /\ job' = [job EXCEPT ![t] = j]
  /\ UNCHANGED <<at, held, exists>>

Skip(t) ==
  /\ Waiting(t) /\ Vacuous(t)
  /\ at' = [at EXCEPT ![t] = @ + 1]
  /\ UNCHANGED <<job, held, exists>>

Grant(t) ==
  /\ Waiting(t) /\ ~Vacuous(t)
  /\ \A u \in Txn : ~WaitsFor(t, u)
  /\ held' = [held EXCEPT ![t] = @ \cup {<<Wanted(t).row, Wanted(t).mode>>}]
  /\ at' = [at EXCEPT ![t] = @ + 1]
  /\ UNCHANGED <<job, exists>>

Release(t) ==
  /\ job' = [job EXCEPT ![t] = None]
  /\ at' = [at EXCEPT ![t] = 1]
  /\ held' = [held EXCEPT ![t] = {}]

Commit(t) ==
  /\ Running(t) /\ ~Waiting(t)
  /\ Release(t)
  /\ exists' = exists \cup Inserted(t)

\* A refusal by the service, a timeout, or PostgreSQL breaking a deadlock.
Abort(t) ==
  /\ Running(t)
  /\ Release(t)
  /\ UNCHANGED exists

Next ==
  \E t \in Txn :
    \/ \E j \in Job : Start(t, j)
    \/ Skip(t) \/ Grant(t) \/ Commit(t) \/ Abort(t)

Spec == Init /\ [][Next]_vars

\* A waiting transaction is woken when the lock it wants is released, and
\* again if another took it first; nobody has to start or abort.
Fairness == \A t \in Txn : SF_vars(Skip(t) \/ Grant(t) \/ Commit(t))


-----------------------------------------------------------------------------
(* Properties.                                                             *)

\* Every transaction is somewhere in its plan and holds only rows it asked
\* for; an idle one holds nothing.
TypeOK ==
  /\ job \in [Txn -> Job \cup {None}]
  /\ at \in [Txn -> Nat \ {0}]
  /\ held \in [Txn -> SUBSET (Row \X Mode)]
  /\ exists \in SUBSET Row
  /\ Row \ Absent \subseteq exists
  /\ \A t \in Txn :
       /\ at[t] <= IF Running(t) THEN Len(Plan[job[t]]) + 1 ELSE 1
       /\ \A a \in held[t] :
            /\ Running(t)
            /\ \E i \in 1 .. at[t] - 1 :
                 Plan[job[t]][i].row = a[1] /\ Plan[job[t]][i].mode = a[2]

\* Locks held by two transactions never conflict.
Compatible ==
  \A t, u \in Txn : \A a \in held[t], b \in held[u] :
    t # u /\ a[1] = b[1] => ~Conflict(a[2], b[2])

\* Some transactions all wait for one another.
Deadlocked ==
  \E S \in SUBSET Txn :
    S # {} /\ \A t \in S : \E u \in S : WaitsFor(t, u)

\* "A concurrent operation on the same pairs queues instead of deadlocking"
\* (inventory-count-lifecycle.service.ts), "Same global lock order as sale
\* creation" (restore-sale-inventory.ts).
NoDeadlock == ~Deadlocked

\* Every command ends, however many compete for the same rows.
EveryJobEnds == \A t \in Txn : Running(t) ~> ~Running(t)

\* A request respects a lock order when its row, or the row that guards it,
\* has been locked FOR UPDATE before, when it refers to a row already locked
\* FOR SHARE, or when it is ranked above all the unguarded rows before it.
RequestOrdered(j, k, rank, guard) ==
  LET q == Plan[j][k]
      before == {Plan[j][i] : i \in 1 .. k - 1}
  IN  \/ \E b \in before :
           /\ b.row = guard[q.row] /\ b.by = None
           /\ \/ b.mode = "UPDATE"
              \/ b.row = q.row /\ b.mode = "SHARE" /\ q.mode = "KEY SHARE"
      \/ /\ guard[q.row] = q.row
         /\ \A b \in before :
              guard[b.row] = b.row => rank[b.row] < rank[q.row]

\* A lock order that excludes deadlocks.  Guards are rows that always exist.
PlansOrdered(rank, guard) ==
  /\ \A r \in Row : guard[r] \notin Absent
  /\ \A j \in Job : \A k \in DOMAIN Plan[j] : RequestOrdered(j, k, rank, guard)
=============================================================================
