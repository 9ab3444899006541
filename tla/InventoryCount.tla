---------------------------- MODULE InventoryCount ----------------------------
(***************************************************************************)
(* Physical inventory counts.  A session is opened, lines are captured,    *)
(* perhaps corrected, submitted, and approved or cancelled; approval       *)
(* adjusts the stock of every line that differs from what was expected.    *)
(* Meanwhile other commands keep moving the same stock.                    *)
(*                                                                         *)
(* A step of a transaction ends where it could see another one: a capture  *)
(* reads the balance without locking it and inserts the line later; an     *)
(* approval reads the lines under the session lock, then waits for the     *)
(* balances; a correction is composed by somebody who read the line some   *)
(* time before.  Commands that read and write under one lock are one step. *)
(*                                                                         *)
(* Abstractions: a Session is named by the (actor, Idempotency-Key) that   *)
(* opens it, so that a repeated request finds it; a replayed command or a  *)
(* refused actor changes nothing; quantities are counted in their smallest *)
(* unit, as the scaled integers of the code.                               *)
(*                                                                         *)
(* Operators with the name of another and a suffix are the plausible       *)
(* mistakes the runs must notice.                                          *)
(***************************************************************************)
EXTENDS Balances

CONSTANTS
  Session,      \* count sessions
  Pair,         \* (product, warehouse) pairs
  Scope,        \* Scope[n]: pairs in the warehouses of session n
  Txn,          \* requests being served at the same time
  Stocked,      \* balances at the start, a function on some pairs
  MaxRevision,  \* bound: versions of one line
  MaxMoves      \* bound: movements of one pair

\* A row of inventory_count_lines; movement is the index of the linked
\* adjustment in movements[p], or 0.
LineRow ==
  [expected : Quantity, counted : Quantity, version : Nat, movement : Nat]

ASSUME InventoryCountAssumption ==
  /\ Scope \in [Session -> SUBSET Pair]
  /\ None \notin LineRow
  /\ None \notin {"OPEN", "PENDING_APPROVAL", "APPROVED", "CANCELLED"}
  /\ MaxRevision \in Nat /\ MaxMoves \in Nat
  /\ DOMAIN Stocked \subseteq Pair
  /\ Stocked \in [DOMAIN Stocked -> Quantity]

VARIABLES
  status,     \* status[n]: inventory_count_sessions.status
  lines,      \* lines[n][p]: the inventory_count_lines row, or None
  revisions,  \* revisions[n][p]: inventory_count_line_revisions, oldest first
  stock,      \* inventory_balances: a function on the pairs with a row
  movements,  \* movements[p]: inventory_movements, oldest first
  step        \* step[t]: the request t is in the middle of, or None

tables == <<status, lines, revisions, stock, movements>>
counting == <<tables, step>>

Counted(expected, counted) ==
  [expected |-> expected, counted |-> counted, version |-> 1, movement |-> 0]

Difference(line) == line.counted - line.expected

Captured(ls) == {p \in DOMAIN ls : ls[p] # None}

AdjustableAll(ls) == Captured(ls)

\* The lines that need an adjustment.
Adjustable(ls) == {p \in Captured(ls) : Difference(ls[p]) # 0}

\* A pair without a balance row counts as zero.
Balance(p) == IF p \in DOMAIN stock THEN stock[p] ELSE 0

CountInit ==
  /\ status = [n \in Session |-> None]
  /\ lines = [n \in Session |-> [p \in Pair |-> None]]
  /\ revisions = [n \in Session |-> [p \in Pair |-> <<>>]]
  /\ stock = Stocked
  /\ movements = [p \in Pair |-> <<>>]
  /\ step = [t \in Txn |-> None]

-----------------------------------------------------------------------------
(* Locks: the session row and, in an approval that has come that far, the  *)
(* balances it adjusts.                                                    *)

Serving(t, op) == step[t] # None /\ step[t].op = op

\* No capture or approval under way holds the session row.
SessionFree(n) ==
  \A t \in Txn :
    Serving(t, "capture") \/ Serving(t, "approve") => step[t].session # n

BalanceFree(p) ==
  \A t \in Txn :
    Serving(t, "approve") /\ step[t].locked => p \notin Adjustable(step[t].read)

Done(t) == step' = [step EXCEPT ![t] = None]

-----------------------------------------------------------------------------
(* Stock commands of others.                                               *)

Post(p, kind, after) ==
  /\ stock' = [q \in DOMAIN stock \cup {p} |->
                 IF q = p THEN after ELSE stock[q]]
  /\ movements' = [movements EXCEPT ![p] =
                  Append(@, [kind |-> kind, before |-> Balance(p), after |-> after])]

AdjustStockUnchecked(p, delta) ==
  /\ BalanceFree(p)
  /\ p \in DOMAIN stock
  /\ delta # 0
  /\ Len(movements[p]) < MaxMoves
  /\ Post(p, "ADJUSTMENT", stock[p] + delta)
  /\ UNCHANGED <<status, lines, revisions, step>>

AdjustStock(p, delta) ==
  /\ BalanceFree(p)
  /\ p \in DOMAIN stock
  /\ delta # 0
  /\ stock[p] + delta \in Quantity
  /\ Len(movements[p]) < MaxMoves
  /\ Post(p, "ADJUSTMENT", stock[p] + delta)
  /\ UNCHANGED <<status, lines, revisions, step>>

\* A receipt creates the balance row when there is none.
ReceiveStock(p, quantity) ==
  /\ BalanceFree(p)
  /\ quantity > 0
  /\ Balance(p) + quantity \in Quantity
  /\ Len(movements[p]) < MaxMoves
  /\ Post(p, "RECEIPT", Balance(p) + quantity)
  /\ UNCHANGED <<status, lines, revisions, step>>

-----------------------------------------------------------------------------
(* The session.                                                            *)

Open(n) ==
  /\ status[n] = None
  /\ status' = [status EXCEPT ![n] = "OPEN"]
  /\ UNCHANGED <<lines, revisions, stock, movements, step>>

\* Lock the session and read the balance, unlocked.
BeginCapture(t, n, p, counted) ==
  /\ step[t] = None
  /\ SessionFree(n)
  /\ status[n] = "OPEN" /\ lines[n][p] = None
  /\ p \in Scope[n]
  /\ step' = [step EXCEPT ![t] =
                [op |-> "capture", session |-> n, pair |-> p,
                 counted |-> counted, expected |-> Balance(p)]]
  /\ UNCHANGED tables

CommitCapture(t) ==
  /\ Serving(t, "capture")
  /\ LET c == step[t]
     IN  lines' = [lines EXCEPT ![c.session][c.pair] =
                     Counted(c.expected, c.counted)]
  /\ Done(t)
  /\ UNCHANGED <<status, revisions, stock, movements>>

\* Somebody reads a line and starts writing a correction.
ReadLine(t, n, p) ==
  /\ step[t] = None
  /\ lines[n][p] # None
  /\ step' = [step EXCEPT ![t] =
                [op |-> "correct", session |-> n, pair |-> p, saw |-> lines[n][p]]]
  /\ UNCHANGED tables

Recount(t, counted) ==
  LET n == step[t].session
      p == step[t].pair
  IN  /\ revisions' = [revisions EXCEPT ![n][p] =
                         Append(@, [before |-> lines[n][p].counted,
                                    after |-> counted,
                                    saw |-> step[t].saw.counted])]
      /\ lines' = [lines EXCEPT ![n][p].counted = counted,
                                ![n][p].version = @ + 1]

CorrectAnyVersion(t, counted) ==
  /\ Serving(t, "correct")
  /\ SessionFree(step[t].session)
  /\ status[step[t].session] = "OPEN"
  /\ lines[step[t].session][step[t].pair].version < MaxRevision
  /\ lines[step[t].session][step[t].pair].counted # counted
  /\ Recount(t, counted)
  /\ Done(t)
  /\ UNCHANGED <<status, stock, movements>>

\* The correction is applied only to the version its author saw.
Correct(t, counted) ==
  /\ Serving(t, "correct")
  /\ SessionFree(step[t].session)
  /\ status[step[t].session] = "OPEN"
  /\ LET line == lines[step[t].session][step[t].pair]
     IN  /\ line.version = step[t].saw.version
         /\ line.version < MaxRevision
         /\ line.counted # counted
  /\ Recount(t, counted)
  /\ Done(t)
  /\ UNCHANGED <<status, stock, movements>>

Submit(n) ==
  /\ SessionFree(n)
  /\ status[n] = "OPEN"
  /\ Captured(lines[n]) # {}
  /\ status' = [status EXCEPT ![n] = "PENDING_APPROVAL"]
  /\ UNCHANGED <<lines, revisions, stock, movements, step>>

Cancel(n) ==
  /\ SessionFree(n)
  /\ status[n] \in {"OPEN", "PENDING_APPROVAL"}
  /\ status' = [status EXCEPT ![n] = "CANCELLED"]
  /\ UNCHANGED <<lines, revisions, stock, movements, step>>

-----------------------------------------------------------------------------
(* Approval.                                                               *)

BeginApprove(t, n) ==
  /\ step[t] = None
  /\ SessionFree(n)
  /\ status[n] = "PENDING_APPROVAL"
  /\ Captured(lines[n]) # {}
  /\ step' = [step EXCEPT ![t] =
                [op |-> "approve", session |-> n, read |-> lines[n],
                 locked |-> FALSE]]
  /\ UNCHANGED tables

LockBalancesUnchecked(t) ==
  /\ Serving(t, "approve") /\ ~step[t].locked
  /\ \A p \in Adjustable(step[t].read) : BalanceFree(p)
  /\ step' = [step EXCEPT ![t].locked = TRUE]
  /\ UNCHANGED tables

\* Missing balances are created at zero, all are locked, and each must still
\* be what its line expected; lines without a difference are not looked at.
LockBalances(t) ==
  /\ Serving(t, "approve") /\ ~step[t].locked
  /\ \A p \in Adjustable(step[t].read) :
       /\ BalanceFree(p)
       /\ Balance(p) = step[t].read[p].expected
  /\ step' = [step EXCEPT ![t].locked = TRUE]
  /\ UNCHANGED tables

\* One adjustment per line, its link, and the status.
CommitApproval(t) ==
  /\ Serving(t, "approve") /\ step[t].locked
  /\ LET n == step[t].session
         adjusted == Adjustable(step[t].read)
         After(p) == Balance(p) + Difference(step[t].read[p])
     IN  /\ \A p \in adjusted : After(p) \in Quantity /\ Len(movements[p]) < MaxMoves
         /\ stock' = [p \in DOMAIN stock \cup adjusted |->
                        IF p \in adjusted THEN After(p) ELSE stock[p]]
         /\ movements' = [p \in Pair |->
                         IF p \in adjusted
                         THEN Append(movements[p],
                                     [kind |-> "ADJUSTMENT",
                                      before |-> Balance(p), after |-> After(p)])
                         ELSE movements[p]]
         /\ lines' = [lines EXCEPT ![n] =
                        [p \in Pair |->
                           IF p \in adjusted
                           THEN [@[p] EXCEPT !.movement = Len(movements[p]) + 1]
                           ELSE @[p]]]
         /\ status' = [status EXCEPT ![n] = "APPROVED"]
  /\ Done(t)
  /\ UNCHANGED revisions

\* Refused, failed, or given up before it wrote anything.
Abandon(t) ==
  /\ step[t] # None
  /\ Done(t)
  /\ UNCHANGED tables

CountNext ==
  \/ \E p \in Pair : \E q \in Quantity : ReceiveStock(p, q) \/ AdjustStock(p, q) \/ AdjustStock(p, -q)
  \/ \E n \in Session : Open(n) \/ Submit(n) \/ Cancel(n)
  \/ \E t \in Txn :
       \/ \E n \in Session, p \in Pair :
            ReadLine(t, n, p) \/ \E q \in Quantity : BeginCapture(t, n, p, q)
       \/ CommitCapture(t)
       \/ \E q \in Quantity : Correct(t, q)
       \/ \E n \in Session : BeginApprove(t, n)
       \/ LockBalances(t) \/ CommitApproval(t) \/ Abandon(t)

CountSpec == CountInit /\ [][CountNext]_counting

-----------------------------------------------------------------------------
(* The abstract ledger: the lines of one approval move together.           *)

CountLedger == INSTANCE StockLedger
  WITH Place <- Pair, Exchange <- {}, Together <- SUBSET Pair,
       Opening <- [p \in Pair |-> IF p \in DOMAIN Stocked THEN Stocked[p] ELSE 0],
       quantity <- [p \in Pair |-> Balance(p)],
       moves <- [p \in Pair |-> Steps(movements[p])]

\* Whatever moves the stock, no quantity changes without a movement from what
\* it was to what it is, and none becomes negative or too large: a count that
\* is approved over a command of somebody else does not break the ledger.
CountsFollowLedger == CountLedger!Spec

-----------------------------------------------------------------------------
(* Properties.                                                             *)

\* An approved session has lines; each line with a difference is linked to an
\* adjustment of exactly that difference, and no other line of any session is
\* (check_inventory_count_session_approval, check_..._line_adjustment).
AdjustmentsMatchLines ==
  \A n \in Session :
    /\ status[n] = "APPROVED" => Captured(lines[n]) # {}
    /\ \A p \in Captured(lines[n]) :
         LET line == lines[n][p]
         IN  IF status[n] = "APPROVED" /\ Difference(line) # 0
             THEN /\ line.movement \in 1 .. Len(movements[p])
                  /\ LET move == movements[p][line.movement]
                     IN  /\ move.kind = "ADJUSTMENT"
                         /\ move.after - move.before = Difference(line)
             ELSE line.movement = 0

\* The revisions of a line lead, one version at a time, to its quantity, and
\* each was written by somebody who saw the quantity it replaced: of two
\* corrections composed at once one is refused, none is lost.
CorrectionsNotLost ==
  \A n \in Session : \A p \in Captured(lines[n]) :
    LET revs == revisions[n][p]
    IN  /\ lines[n][p].version = Len(revs) + 1
        /\ revs # <<>> => revs[Len(revs)].after = lines[n][p].counted
        /\ \A i \in 1 .. Len(revs) : revs[i].saw = revs[i].before
        /\ \A i \in 1 .. Len(revs) - 1 : revs[i].after = revs[i + 1].before

Approves(n) == status[n] # "APPROVED" /\ status'[n] = "APPROVED"

Landing ==
  \A n \in Session : Approves(n) =>
    \A p \in Adjustable(lines[n]) : Balance(p)' = lines[n][p].counted

\* Approving a count leaves the stock of every adjusted line at the quantity
\* that was counted, never at the sum of a stale difference and a later
\* movement ("rather than silently landing on a different number").
ApprovalLandsOnCount == [][Landing]_counting

Truth ==
  \A n \in Session : Approves(n) =>
    \A p \in Captured(lines[n]) : Balance(p) = lines[n][p].expected

\* "Approval re-checks it: a later movement invalidates the count" (comment
\* in captureInTransaction), read over every line of the session.
LaterMovementInvalidates == [][Truth]_counting
=============================================================================
