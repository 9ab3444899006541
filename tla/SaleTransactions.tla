--------------------------- MODULE SaleTransactions ---------------------------
(***************************************************************************)
(* The commands of SaleRules as the API runs them: each request is one     *)
(* ReadCommitted PostgreSQL transaction that takes its locks one after the *)
(* other, re-reads what it needs after each lock, and writes when it holds *)
(* them all.  Transactions interleave between any two of these steps, and  *)
(* any of them may fail (timeout, deadlock victim, lost connection) and    *)
(* roll back.  The claim is that the tables nevertheless only ever change  *)
(* as if the commands ran one at a time: Serial of SaleRules.              *)
(*                                                                         *)
(* A transaction writes and commits in one step: nobody can read its       *)
(* uncommitted rows, and it already holds every lock its writes need.      *)
(* Locks of one statement are granted together here; RowLocks takes them   *)
(* one row at a time and is where deadlocks are studied.                   *)
(***************************************************************************)
EXTENDS SaleRules

CONSTANT Txn  \* transactions the API can have open at the same time

ASSUME TxnAssumption == None \notin Txn

VARIABLES
  pc,    \* pc[t]: how far transaction t has come
  cmd,   \* cmd[t]: the command t runs
  held,  \* held[t]: the locks t holds until it ends
  seen,  \* seen[t]: the balances t read under its stock locks
  sums   \* sums[t]: the day figures t read for its closing

control == <<pc, cmd, held, seen, sums>>
vars == <<tables, control>>

-----------------------------------------------------------------------------
(* Commands and the locks they take.                                       *)

NewSale(k, r) == [op |-> "create", key |-> k, req |-> r]
OnSale(op, k, s) == [op |-> op, key |-> k, sale |-> s]
Duplicate(k, s, t) == [op |-> "void", key |-> k, sale |-> s, other |-> t]
OnDay(op, k, d) == [op |-> op, key |-> k, day |-> d]

SaleOp == {"pay", "confirm", "cancel"}
DayOp == {"close", "reopen"}

Commands ==
  {NewSale(k, r) : k \in Key, r \in Request}
    \cup {OnSale(op, k, s) : op \in SaleOp, k \in Key, s \in Sale}
    \cup {Duplicate(k, s, t) : k \in Key, s \in Sale, t \in Sale}
    \cup {OnDay(op, k, d) : op \in DayOp, k \in Key, d \in Day}

ScopeOwn(c) == c.op

\* Advisory locks name a scope; void shares the scope of cancel because both
\* write sale_cancellations.
Scope(c) == IF c.op = "void" THEN "cancel" ELSE c.op

KeyLock(c) == <<"key", Scope(c), c.key>>
SaleLock(s) == <<"sales", s>>
DayLock(d) == <<"business-day", d>>
ClosingLock(d) == <<"daily_closings", d>>
StockLock(p) == <<"inventory_balances", p>>

Free(t, locks) == \A u \in Txn \ {t} : held[u] \cap locks = {}

\* The claim table of the command: the documents its key could already have
\* written.
Claims(c) ==
  CASE c.op = "create" -> createdBy
    [] c.op = "pay" -> receipt
    [] c.op = "confirm" -> confirmation
    [] c.op \in {"cancel", "void"} -> cancellation
    [] c.op = "close" -> closedBy
    [] c.op = "reopen" -> reopenedBy

Acquire(t, locks) ==
  /\ Free(t, locks)
  /\ held' = [held EXCEPT ![t] = @ \cup locks]

Advance(t, from, to) ==
  /\ pc[t] = from
  /\ pc' = [pc EXCEPT ![t] = to]

\* Commit or rollback: every lock is released and nothing is remembered.
End(t) ==
  /\ pc' = [pc EXCEPT ![t] = "idle"]
  /\ cmd' = [cmd EXCEPT ![t] = None]
  /\ held' = [held EXCEPT ![t] = {}]
  /\ seen' = [seen EXCEPT ![t] = Opening]
  /\ sums' = [sums EXCEPT ![t] = <<{}, {}>>]

Init ==
  /\ Initially
  /\ pc = [t \in Txn |-> "idle"]
  /\ cmd = [t \in Txn |-> None]
  /\ held = [t \in Txn |-> {}]
  /\ seen = [t \in Txn |-> Opening]
  /\ sums = [t \in Txn |-> <<{}, {}>>]

-----------------------------------------------------------------------------
(* Steps up to the write.                                                  *)

\* Take the advisory lock of the key and look the key up.
Begin(t, c) ==
  /\ Advance(t, "idle", "begun")
  /\ Acquire(t, {KeyLock(c)})
  /\ Unclaimed(Claims(c), c.key)
  /\ cmd' = [cmd EXCEPT ![t] = c]
  /\ UNCHANGED <<tables, seen, sums>>

\* The key already backs a document: the transaction ends, answering with
\* the stored result or, when the request differs, with a conflict.
Replay(t, c) ==
  /\ pc[t] = "idle"
  /\ Free(t, {KeyLock(c)})
  /\ ~Unclaimed(Claims(c), c.key)
  /\ UNCHANGED vars

SalesOf(c) == IF c.op = "void" THEN {c.sale, c.other} ELSE {c.sale}

\* The state of the locked sale rows lets the command go on.
Accepted(c) ==
  \/ c.op = "pay" /\ Payable(c.sale)
  \/ c.op = "confirm" /\ Confirmable(c.sale)
  \/ c.op = "cancel" /\ Cancellable(c.sale)
  \/ c.op = "void" /\ Voidable(c.sale, c.other)

LockSales(t) ==
  /\ Advance(t, "begun", "checked")
  /\ cmd[t].op \in SaleOp \cup {"void"}
  /\ Acquire(t, {SaleLock(s) : s \in SalesOf(cmd[t])})
  /\ Accepted(cmd[t])
  /\ UNCHANGED <<tables, cmd, seen, sums>>

RefuseSales(t) ==
  /\ pc[t] = "begun"
  /\ cmd[t].op \in SaleOp \cup {"void"}
  /\ Free(t, {SaleLock(s) : s \in SalesOf(cmd[t])})
  /\ ~Accepted(cmd[t])
  /\ End(t)
  /\ UNCHANGED tables

\* The day a void or a closing is about.
DayLocked(c) == IF c.op = "void" THEN BusinessDate(c.sale) ELSE c.day

AtDayLock(t) ==
  \/ pc[t] = "checked" /\ cmd[t].op = "void"
  \/ pc[t] = "begun" /\ cmd[t].op = "close"

LockDay(t) ==
  /\ AtDayLock(t)
  /\ Acquire(t, {DayLock(DayLocked(cmd[t]))})
  /\ closing[DayLocked(cmd[t])] = None
  /\ pc' = [pc EXCEPT ![t] = "dated"]
  /\ UNCHANGED <<tables, cmd, seen, sums>>

RefuseDay(t) ==
  /\ AtDayLock(t)
  /\ Free(t, {DayLock(DayLocked(cmd[t]))})
  /\ closing[DayLocked(cmd[t])] # None
  /\ End(t)
  /\ UNCHANGED tables

LockClosing(t) ==
  /\ Advance(t, "begun", "checked")
  /\ cmd[t].op = "reopen"
  /\ Acquire(t, {ClosingLock(cmd[t].day)})
  /\ closing[cmd[t].day] = "CLOSED"
  /\ UNCHANGED <<tables, cmd, seen, sums>>

RefuseClosing(t) ==
  /\ pc[t] = "begun"
  /\ cmd[t].op = "reopen"
  /\ Free(t, {ClosingLock(cmd[t].day)})
  /\ closing[cmd[t].day] # "CLOSED"
  /\ End(t)
  /\ UNCHANGED tables

\* One statement reads both figures, so they come from one snapshot.
ReadFigures(t) ==
  /\ Advance(t, "dated", "summed")
  /\ cmd[t].op = "close"
  /\ sums' = [sums EXCEPT ![t] = <<Completed(cmd[t].day),
                                   InTransit(cmd[t].day)>>]
  /\ UNCHANGED <<tables, cmd, held, seen>>

AtStockLock(t) ==
  \/ pc[t] = "begun" /\ cmd[t].op = "create"
  \/ pc[t] = "checked" /\ cmd[t].op = "cancel"
  \/ pc[t] = "dated" /\ cmd[t].op = "void"

PairsMoved(c) == PairsOf(IF c.op = "create" THEN c.req ELSE order[c.sale])

StockSuffices(c) ==
  IF c.op = "create" THEN Creatable(c.req, stock)
                     ELSE Restorable(c.sale, stock)

ReadStockUnlocked(t) ==
  /\ AtStockLock(t)
  /\ StockSuffices(cmd[t])
  /\ pc' = [pc EXCEPT ![t] = "stocked"]
  /\ seen' = [seen EXCEPT ![t] = stock]
  /\ UNCHANGED <<tables, cmd, held, sums>>

LockStock(t) ==
  /\ AtStockLock(t)
  /\ Acquire(t, {StockLock(p) : p \in PairsMoved(cmd[t])})
  /\ StockSuffices(cmd[t])
  /\ pc' = [pc EXCEPT ![t] = "stocked"]
  /\ seen' = [seen EXCEPT ![t] = stock]
  /\ UNCHANGED <<tables, cmd, sums>>

RefuseStock(t) ==
  /\ AtStockLock(t)
  /\ Free(t, {StockLock(p) : p \in PairsMoved(cmd[t])})
  /\ ~StockSuffices(cmd[t])
  /\ End(t)
  /\ UNCHANGED tables

-----------------------------------------------------------------------------
(* The writes, which commit.                                               *)

CommitCreate(t, s) ==
  /\ pc[t] = "stocked" /\ cmd[t].op = "create"
  /\ ~Exists(s)
  /\ InsertSale(cmd[t].key, cmd[t].req, s, seen[t])
  /\ End(t)

CommitPayment(t) ==
  /\ pc[t] = "checked" /\ cmd[t].op = "pay"
  /\ InsertPayment(cmd[t].key, cmd[t].sale)
  /\ End(t)

CommitConfirmation(t) ==
  /\ pc[t] = "checked" /\ cmd[t].op = "confirm"
  /\ InsertConfirmation(cmd[t].key, cmd[t].sale)
  /\ End(t)

CommitCancellation(t) ==
  /\ pc[t] = "stocked" /\ cmd[t].op = "cancel"
  /\ InsertCancellation(cmd[t].key, cmd[t].sale, seen[t])
  /\ End(t)

CommitCorrection(t) ==
  /\ pc[t] = "stocked" /\ cmd[t].op = "void"
  /\ InsertCorrection(cmd[t].key, cmd[t].sale, cmd[t].other, seen[t])
  /\ End(t)

CommitClosing(t) ==
  /\ pc[t] = "summed" /\ cmd[t].op = "close"
  /\ InsertClosing(cmd[t].key, cmd[t].day, sums[t][1], sums[t][2])
  /\ End(t)

CommitReopening(t) ==
  /\ pc[t] = "checked" /\ cmd[t].op = "reopen"
  /\ InsertReopening(cmd[t].key, cmd[t].day)
  /\ End(t)

\* The transaction fails before it commits; everything it did is undone.
Rollback(t) ==
  /\ pc[t] # "idle"
  /\ End(t)
  /\ UNCHANGED tables

Prepare(t) ==
  \/ LockSales(t) \/ LockDay(t) \/ LockClosing(t) \/ LockStock(t)
  \/ ReadFigures(t)

Refuse(t) ==
  RefuseSales(t) \/ RefuseDay(t) \/ RefuseClosing(t) \/ RefuseStock(t)

Commit(t) ==
  \/ \E s \in Sale : CommitCreate(t, s)
  \/ CommitPayment(t) \/ CommitConfirmation(t) \/ CommitCancellation(t)
  \/ CommitCorrection(t) \/ CommitClosing(t) \/ CommitReopening(t)

Next ==
  \E t \in Txn :
    \/ \E c \in Commands : Begin(t, c) \/ Replay(t, c)
    \/ Prepare(t) \/ Refuse(t) \/ Commit(t) \/ Rollback(t)

Spec == Init /\ [][Next]_vars

-----------------------------------------------------------------------------
(* What holds between the steps of a transaction.                          *)

Phase == {"idle", "begun", "checked", "dated", "summed", "stocked"}

\* The phases each command passes through before it commits.
PhasesOf(op) ==
  CASE op = "create" -> {"begun", "stocked"}
    [] op \in {"pay", "confirm", "reopen"} -> {"begun", "checked"}
    [] op = "cancel" -> {"begun", "checked", "stocked"}
    [] op = "void" -> {"begun", "checked", "dated", "stocked"}
    [] op = "close" -> {"begun", "dated", "summed"}

Lock == {KeyLock(c) : c \in Commands} \cup {SaleLock(s) : s \in Sale}
          \cup {DayLock(d) : d \in Day} \cup {ClosingLock(d) : d \in Day}
          \cup {StockLock(p) : p \in Pair}

\* The control state is well formed: an open transaction runs a command, is
\* in one of its phases, and an idle one holds nothing.
ControlOK ==
  /\ pc \in [Txn -> Phase]
  /\ cmd \in [Txn -> NullOr(Commands)]
  /\ held \in [Txn -> SUBSET Lock]
  /\ seen \in [Txn -> [DOMAIN Opening -> Nat]]
  /\ sums \in [Txn -> (SUBSET Sale) \X (SUBSET Sale)]
  /\ \A t \in Txn :
       IF pc[t] = "idle" THEN cmd[t] = None /\ held[t] = {}
                         ELSE cmd[t] \in Commands /\ pc[t] \in PhasesOf(cmd[t].op)

Exclusive == \A t, u \in Txn : t # u => held[t] \cap held[u] = {}

PastSales(t) ==
  cmd[t].op \in SaleOp \cup {"void"} /\ pc[t] \in {"checked", "dated", "stocked"}

PastDay(t) ==
  \/ cmd[t].op = "void" /\ pc[t] \in {"dated", "stocked"}
  \/ cmd[t].op = "close" /\ pc[t] \in {"dated", "summed"}

PastClosing(t) == cmd[t].op = "reopen" /\ pc[t] = "checked"

\* Locks are kept until the transaction ends.
KeepsLocks(t) ==
  /\ KeyLock(cmd[t]) \in held[t]
  /\ PastSales(t) => \A s \in SalesOf(cmd[t]) : SaleLock(s) \in held[t]
  /\ PastDay(t) => DayLock(DayLocked(cmd[t])) \in held[t]
  /\ PastClosing(t) => ClosingLock(cmd[t].day) \in held[t]
  /\ pc[t] = "stocked" =>
       \A p \in PairsMoved(cmd[t]) : StockLock(p) \in held[t]

\* What the transaction checked or read still holds.
ChecksHold(t) ==
  /\ Unclaimed(Claims(cmd[t]), cmd[t].key)
  /\ PastSales(t) => Accepted(cmd[t])
  /\ PastDay(t) => closing[DayLocked(cmd[t])] = None
  /\ PastClosing(t) => closing[cmd[t].day] = "CLOSED"
  /\ pc[t] = "summed" =>
       /\ sums[t][1] \subseteq Completed(cmd[t].day)
       /\ sums[t][2] \subseteq SalesOn(cmd[t].day)
       /\ sums[t][1] \cap sums[t][2] = {}
  /\ pc[t] = "stocked" =>
       /\ StockSuffices(cmd[t])
       /\ \A p \in PairsMoved(cmd[t]) : seen[t][p] = stock[p]

\* Nothing a transaction checked or read before its write can have changed
\* by the time it writes: the locks it holds pin the rows it depends on.
\* This is what makes the check-then-write code of the services correct.
ChecksSurvive ==
  /\ Exclusive
  /\ \A t \in Txn : pc[t] # "idle" => KeepsLocks(t) /\ ChecksHold(t)

=============================================================================
