------------------------------ MODULE SaleRules ------------------------------
(***************************************************************************)
(* The tables behind a sale and a daily closing, and what each command     *)
(* does to them when it runs alone: create, record payment, confirm,       *)
(* cancel, void a paid duplicate (ADR-021), close a day, reopen a closing. *)
(* Every command is one action here.  SaleTransactions gives the same      *)
(* commands as the PostgreSQL transactions they are, and implements this   *)
(* specification.                                                          *)
(*                                                                         *)
(* Abstractions: a Key is an (actor, Idempotency-Key) pair; a Request is   *)
(* a canonical request body, so equal requests have equal hashes; the      *)
(* lines of a request that name one pair are merged (the per-line chain is *)
(* the subject of SaleLines); the sums of a closing are represented by the *)
(* set of sales they range over.  Authorization is not modelled: a refused *)
(* actor changes nothing.                                                  *)
(***************************************************************************)
EXTENDS Integers, Sequences

CONSTANTS
  Sale,           \* identities a new row of "sales" may receive
  Key,            \* (actor, Idempotency-Key) pairs
  Request,        \* canonical create-sale requests
  Pair,           \* (product, warehouse) pairs
  Day,            \* civil business dates
  None,           \* SQL NULL, or a row that does not exist
  Demand,         \* Demand[r][p]: quantity of p that request r sells
  Total,          \* Total[r]: total of the sale, subtotal and shipping
  DayOf,          \* DayOf[r]: business date of the request
  InitialStatus,  \* InitialStatus[r]: the status the request asks for
  Sellable,       \* pairs whose product and warehouse are both active
  Opening         \* the balances before the first modelled sale

ASSUME SaleConstants ==
  /\ None \notin Sale /\ None \notin Key /\ None \notin Request
  /\ None \notin {"IN_TRANSIT", "COMPLETED", "CANCELLED", "PENDING", "PAID",
                   "CLOSED", "REOPENED"}
  /\ Demand \in [Request -> [Pair -> Nat]]
  /\ \A r \in Request : \E p \in Pair : Demand[r][p] > 0
  /\ Total \in [Request -> Nat]
  /\ DayOf \in [Request -> Day]
  /\ InitialStatus \in [Request -> {"IN_TRANSIT", "COMPLETED"}]
  /\ Sellable \subseteq Pair
  /\ DOMAIN Opening \subseteq Pair
  /\ Opening \in [DOMAIN Opening -> Nat]

VARIABLES
  order,         \* order[s]: the request sale s was created from, or None
  createdBy,     \* createdBy[s]: the key that created s
  status,        \* status[s]: sales.status, None while there is no row
  paid,          \* paid[s]: sales.payment_status
  receipt,       \* receipt[s]: key of the sale_payments row of s, or None
  confirmation,  \* confirmation[s]: key of its in_transit_confirmations row
  cancellation,  \* cancellation[s]: key of its sale_cancellations row
  replacement,   \* replacement[s]: replacement_sale_id of that row
  stock,         \* inventory_balances: a function on the pairs with a row
  ledger,        \* inventory_movements of each pair, oldest first
  closing,       \* closing[d]: daily_closings.status, None when not closed
  closedBy,      \* closedBy[d]: the key that closed d
  reopenedBy,    \* reopenedBy[d]: the key that reopened it
  counted,       \* counted[d]: the sales summed into system_sales
  pending        \* pending[d]: the sales counted in in_transit_sale_count

saleTables == <<order, createdBy, status, paid>>
documents == <<receipt, confirmation, cancellation, replacement>>
stockTables == <<stock, ledger>>
closingTables == <<closing, closedBy, reopenedBy, counted, pending>>
tables == <<saleTables, documents, stockTables, closingTables>>

Initially ==
  /\ order = [s \in Sale |-> None]
  /\ createdBy = [s \in Sale |-> None]
  /\ status = [s \in Sale |-> None]
  /\ paid = [s \in Sale |-> None]
  /\ receipt = [s \in Sale |-> None]
  /\ confirmation = [s \in Sale |-> None]
  /\ cancellation = [s \in Sale |-> None]
  /\ replacement = [s \in Sale |-> None]
  /\ stock = Opening
  /\ ledger = [p \in Pair |-> <<>>]
  /\ closing = [d \in Day |-> None]
  /\ closedBy = [d \in Day |-> None]
  /\ reopenedBy = [d \in Day |-> None]
  /\ counted = [d \in Day |-> {}]
  /\ pending = [d \in Day |-> {}]

-----------------------------------------------------------------------------
(* Reading the tables.                                                     *)

Exists(s) == order[s] # None

\* The pairs request r sells.
PairsOf(r) == {p \in Pair : Demand[r][p] > 0}

BusinessDate(s) == DayOf[order[s]]

SalesOn(d) == {s \in Sale : Exists(s) /\ BusinessDate(s) = d}

Completed(d) == {s \in SalesOn(d) : status[s] = "COMPLETED"}

InTransit(d) == {s \in SalesOn(d) : status[s] = "IN_TRANSIT"}

\* s is the replacement of a voided duplicate: it received that payment.
ReceivedCorrection(s) == \E x \in Sale : replacement[x] = s

-----------------------------------------------------------------------------
(* When each command may take effect.                                      *)

\* Operators named "...Without...", "...Twice" and the like are plausible
\* mistakes in the definition that follows them; the runs notice each.

UnclaimedNeverAsked(claims, k) == TRUE

Unclaimed(claims, k) == \A x \in DOMAIN claims : claims[x] # k

Creatable(r, seen) ==
  /\ PairsOf(r) \subseteq Sellable
  /\ PairsOf(r) \subseteq DOMAIN seen
  /\ \A p \in PairsOf(r) : Demand[r][p] <= seen[p]

PayableWithoutPaid(s) ==
  Exists(s) /\ receipt[s] = None /\ status[s] = "COMPLETED"

Payable(s) ==
  /\ Exists(s)
  /\ receipt[s] = None
  /\ status[s] = "COMPLETED" /\ paid[s] = "PENDING"

ConfirmableAnyStatus(s) ==
  Exists(s) /\ confirmation[s] = None /\ paid[s] = "PENDING"

Confirmable(s) ==
  /\ Exists(s)
  /\ confirmation[s] = None
  /\ status[s] = "IN_TRANSIT" /\ paid[s] = "PENDING"

CancellableTwice(s) ==
  Exists(s) /\ status[s] # "COMPLETED" /\ paid[s] = "PENDING"

Cancellable(s) ==
  /\ Exists(s)
  /\ cancellation[s] = None
  /\ status[s] = "IN_TRANSIT" /\ paid[s] = "PENDING"

Voidable(s, t) ==
  /\ s # t
  /\ Exists(s) /\ Exists(t)
  /\ status[s] = "COMPLETED" /\ paid[s] = "PAID" /\ receipt[s] # None
  /\ cancellation[s] = None /\ ~ReceivedCorrection(s)
  /\ status[t] = "COMPLETED" /\ paid[t] = "PENDING" /\ receipt[t] = None
  /\ cancellation[t] = None /\ ~ReceivedCorrection(t)
  /\ Total[order[s]] = Total[order[t]]
  /\ BusinessDate(s) = BusinessDate(t)

Restorable(s, seen) == PairsOf(order[s]) \subseteq DOMAIN seen

-----------------------------------------------------------------------------
(* What each command writes.  "seen" is the balance the command read.      *)

Movement(kind, s, before, after) ==
  [kind |-> kind, sale |-> s, before |-> before, after |-> after]

PostSwapped(kind, s, before, after) ==
  /\ stock' = [p \in DOMAIN stock |->
                 IF p \in DOMAIN after THEN after[p] ELSE stock[p]]
  /\ ledger' = [p \in Pair |->
                  IF p \in DOMAIN after
                  THEN Append(ledger[p],
                              Movement(kind, s, after[p], before[p]))
                  ELSE ledger[p]]

\* Append one movement per pair of "after" and write those balances once.
Post(kind, s, before, after) ==
  /\ stock' = [p \in DOMAIN stock |->
                 IF p \in DOMAIN after THEN after[p] ELSE stock[p]]
  /\ ledger' = [p \in Pair |->
                  IF p \in DOMAIN after
                  THEN Append(ledger[p],
                              Movement(kind, s, before[p], after[p]))
                  ELSE ledger[p]]

Sell(s, r, seen) ==
  Post("SALE", s, seen, [p \in PairsOf(r) |-> seen[p] - Demand[r][p]])

Restore(s, seen) ==
  Post("SALE_CANCELLATION", s, seen,
       [p \in PairsOf(order[s]) |-> seen[p] + Demand[order[s]][p]])

InsertSale(k, r, s, seen) ==
  /\ order' = [order EXCEPT ![s] = r]
  /\ createdBy' = [createdBy EXCEPT ![s] = k]
  /\ status' = [status EXCEPT ![s] = InitialStatus[r]]
  /\ paid' = [paid EXCEPT ![s] = "PENDING"]
  /\ Sell(s, r, seen)
  /\ UNCHANGED <<documents, closingTables>>

InsertPayment(k, s) ==
  /\ receipt' = [receipt EXCEPT ![s] = k]
  /\ paid' = [paid EXCEPT ![s] = "PAID"]
  /\ UNCHANGED <<order, createdBy, status, confirmation, cancellation,
                 replacement, stockTables, closingTables>>

InsertConfirmation(k, s) ==
  /\ confirmation' = [confirmation EXCEPT ![s] = k]
  /\ status' = [status EXCEPT ![s] = "COMPLETED"]
  /\ UNCHANGED <<order, createdBy, paid, receipt, cancellation, replacement,
                 stockTables, closingTables>>

InsertCancellation(k, s, seen) ==
  /\ cancellation' = [cancellation EXCEPT ![s] = k]
  /\ Restore(s, seen)
  /\ status' = [status EXCEPT ![s] = "CANCELLED"]
  /\ UNCHANGED <<order, createdBy, paid, receipt, confirmation, replacement,
                 closingTables>>

\* The payment stays on the voided sale s; t becomes paid through it.
InsertCorrection(k, s, t, seen) ==
  /\ cancellation' = [cancellation EXCEPT ![s] = k]
  /\ replacement' = [replacement EXCEPT ![s] = t]
  /\ Restore(s, seen)
  /\ status' = [status EXCEPT ![s] = "CANCELLED"]
  /\ paid' = [paid EXCEPT ![t] = "PAID"]
  /\ UNCHANGED <<order, createdBy, receipt, confirmation, closingTables>>

InsertClosing(k, d, summed, transit) ==
  /\ closing' = [closing EXCEPT ![d] = "CLOSED"]
  /\ closedBy' = [closedBy EXCEPT ![d] = k]
  /\ counted' = [counted EXCEPT ![d] = summed]
  /\ pending' = [pending EXCEPT ![d] = transit]
  /\ UNCHANGED <<saleTables, documents, stockTables, reopenedBy>>

InsertReopening(k, d) ==
  /\ closing' = [closing EXCEPT ![d] = "REOPENED"]
  /\ reopenedBy' = [reopenedBy EXCEPT ![d] = k]
  /\ UNCHANGED <<saleTables, documents, stockTables, closedBy, counted,
                 pending>>

-----------------------------------------------------------------------------
(* The commands, each alone.                                               *)

Create(k, r, s) ==
  /\ Unclaimed(createdBy, k)
  /\ ~Exists(s)
  /\ Creatable(r, stock)
  /\ InsertSale(k, r, s, stock)

RecordPayment(k, s) ==
  /\ Unclaimed(receipt, k)
  /\ Payable(s)
  /\ InsertPayment(k, s)

Confirm(k, s) ==
  /\ Unclaimed(confirmation, k)
  /\ Confirmable(s)
  /\ InsertConfirmation(k, s)

Cancel(k, s) ==
  /\ Unclaimed(cancellation, k)
  /\ Cancellable(s)
  /\ Restorable(s, stock)
  /\ InsertCancellation(k, s, stock)

VoidDuplicateAnyDay(k, s, t) ==
  /\ Unclaimed(cancellation, k)
  /\ Voidable(s, t)
  /\ Restorable(s, stock)
  /\ InsertCorrection(k, s, t, stock)

VoidDuplicate(k, s, t) ==
  /\ Unclaimed(cancellation, k)
  /\ Voidable(s, t)
  /\ closing[BusinessDate(s)] = None
  /\ Restorable(s, stock)
  /\ InsertCorrection(k, s, t, stock)

CreateClosingAfterReopen(k, d) ==
  /\ Unclaimed(closedBy, k)
  /\ closing[d] # "CLOSED"
  /\ \E summed \in SUBSET Completed(d) : InsertClosing(k, d, summed, {})

(* The figures are read before the closing is written and nothing stops a  *)
(* sale of the day from being created or confirmed in between, so the      *)
(* closing records some earlier reading: sales that are all still          *)
(* completed, but perhaps not every sale that is.                          *)
CreateClosing(k, d) ==
  /\ Unclaimed(closedBy, k)
  /\ closing[d] = None
  /\ \E summed \in SUBSET Completed(d), transit \in SUBSET SalesOn(d) :
       /\ summed \cap transit = {}
       /\ InsertClosing(k, d, summed, transit)

Reopen(k, d) ==
  /\ Unclaimed(reopenedBy, k)
  /\ closing[d] = "CLOSED"
  /\ InsertReopening(k, d)

Command ==
  \/ \E k \in Key, r \in Request, s \in Sale : Create(k, r, s)
  \/ \E k \in Key, s \in Sale :
       RecordPayment(k, s) \/ Confirm(k, s) \/ Cancel(k, s)
  \/ \E k \in Key, s \in Sale, t \in Sale : VoidDuplicate(k, s, t)
  \/ \E k \in Key, d \in Day : CreateClosing(k, d) \/ Reopen(k, d)

Serial == Initially /\ [][Command]_tables

-----------------------------------------------------------------------------
(* Properties.                                                             *)

NullOr(S) == S \cup {None}

Kind == {"SALE", "SALE_CANCELLATION"}

MovementRow == [kind : Kind, sale : Sale, before : Nat, after : Nat]

\* Every column holds a value of its type, and a balance row never has a
\* negative quantity (inventory_balances_quantity_nonnegative).
TypeOK ==
  /\ order \in [Sale -> NullOr(Request)]
  /\ createdBy \in [Sale -> NullOr(Key)]
  /\ status \in [Sale -> NullOr({"IN_TRANSIT", "COMPLETED", "CANCELLED"})]
  /\ paid \in [Sale -> NullOr({"PENDING", "PAID"})]
  /\ receipt \in [Sale -> NullOr(Key)]
  /\ confirmation \in [Sale -> NullOr(Key)]
  /\ cancellation \in [Sale -> NullOr(Key)]
  /\ replacement \in [Sale -> NullOr(Sale)]
  /\ stock \in [DOMAIN Opening -> Nat]
  /\ ledger \in [Pair -> Seq(MovementRow)]
  /\ closing \in [Day -> NullOr({"CLOSED", "REOPENED"})]
  /\ closedBy \in [Day -> NullOr(Key)]
  /\ reopenedBy \in [Day -> NullOr(Key)]
  /\ counted \in [Day -> SUBSET Sale]
  /\ pending \in [Day -> SUBSET Sale]

\* The ledger of a pair explains its balance: the first movement starts at
\* the opening balance, each starts where the previous one ended, and the
\* last one ends at the balance (createInTransaction and
\* restoreSaleInventory chain before/after by hand).
LedgerExplainsStock ==
  \A p \in Pair :
    /\ ledger[p] # <<>> =>
         /\ p \in DOMAIN Opening
         /\ ledger[p][1].before = Opening[p]
         /\ ledger[p][Len(ledger[p])].after = stock[p]
    /\ ledger[p] = <<>> /\ p \in DOMAIN Opening => stock[p] = Opening[p]
    /\ \A i \in 1 .. Len(ledger[p]) - 1 :
         ledger[p][i].after = ledger[p][i + 1].before

MovesOf(kind, s, p) ==
  {i \in 1 .. Len(ledger[p]) :
     ledger[p][i].kind = kind /\ ledger[p][i].sale = s}

\* Stock leaves once for each sold pair and returns once exactly when the
\* sale has a cancellation document, whatever was retried or raced
\* (check_operational_sale_item_ledger, at commit).
StockMovesOnce ==
  \A s \in Sale, p \in Pair :
    LET sold == Exists(s) /\ p \in PairsOf(order[s])
    IN  /\ MovesOf("SALE", s, p) # {} <=> sold
        /\ MovesOf("SALE_CANCELLATION", s, p) # {} <=>
              (sold /\ cancellation[s] # None)
        /\ \A kind \in Kind : \A i, j \in MovesOf(kind, s, p) : i = j

\* Stock is accounted for: the ledger of a pair explains its balance, and each
\* sale and each cancellation stand in it once.
StockAccounted == LedgerExplainsStock /\ StockMovesOnce

\* The documents of a sale agree with its status, as the deferred trigger
\* enforce_operational_sale_documents demands of every commit; the service
\* must never make that trigger fire.
DocumentsAgree ==
  \A s \in Sale :
    /\ status[s] = None =>
         /\ receipt[s] = None /\ confirmation[s] = None
         /\ cancellation[s] = None /\ replacement[s] = None
    /\ status[s] = "IN_TRANSIT" =>
         /\ confirmation[s] = None /\ cancellation[s] = None
         /\ paid[s] = "PENDING"
    /\ status[s] = "COMPLETED" => cancellation[s] = None
    /\ status[s] = "CANCELLED" /\ replacement[s] # None =>
         cancellation[s] # None /\ paid[s] = "PAID"
    /\ status[s] = "CANCELLED" /\ replacement[s] = None =>
         /\ cancellation[s] # None /\ confirmation[s] = None
         /\ paid[s] = "PENDING" /\ receipt[s] = None

\* The sale a recorded payment counts for: the sale it was recorded on, or
\* the replacement it was reassigned to.
Holder(s) == IF replacement[s] = None THEN s ELSE replacement[s]

\* Recorded payments and completed paid sales correspond one to one, with
\* the same total and day: no sale is paid twice, no payment counts for two
\* sales or for none (ADR-021, sale_duplicate_correction_complete).
PaymentHeldOnce ==
  /\ \A s \in Sale : receipt[s] # None =>
       /\ status[Holder(s)] = "COMPLETED" /\ paid[Holder(s)] = "PAID"
       /\ Total[order[s]] = Total[order[Holder(s)]]
       /\ BusinessDate(s) = BusinessDate(Holder(s))
  /\ \A s, t \in Sale :
       receipt[s] # None /\ receipt[t] # None /\ Holder(s) = Holder(t)
         => s = t
  /\ \A t \in Sale : status[t] = "COMPLETED" /\ paid[t] = "PAID" =>
       \E s \in Sale : receipt[s] # None /\ Holder(s) = t

\* How the rows of a sale and of its documents determine each other: the
\* inductive invariant Coherent, behind DocumentsAgree and PaymentHeldOnce.
OwnRows(s) ==
  /\ order[s] = None <=> status[s] = None
  /\ status[s] = None <=> paid[s] = None
  /\ order[s] # None => PairsOf(order[s]) \subseteq DOMAIN stock
  /\ cancellation[s] # None <=> status[s] = "CANCELLED"
  /\ confirmation[s] # None => status[s] \in {"COMPLETED", "CANCELLED"}
  /\ confirmation[s] # None /\ status[s] = "CANCELLED" => replacement[s] # None
  /\ status[s] = "IN_TRANSIT" => paid[s] = "PENDING"
  /\ status[s] = "CANCELLED" =>
       IF replacement[s] = None THEN paid[s] = "PENDING" ELSE receipt[s] # None
  /\ receipt[s] # None => paid[s] = "PAID"
  /\ replacement[s] # None => status[s] = "CANCELLED"

\* A paid sale without a payment of its own received one.
Backed(s) == paid[s] = "PAID" /\ receipt[s] = None => ReceivedCorrection(s)

\* A voided sale and the replacement that received its payment.
Linked(s) ==
  replacement[s] # None =>
    /\ status[replacement[s]] = "COMPLETED" /\ paid[replacement[s]] = "PAID"
    /\ receipt[replacement[s]] = None
    /\ Total[order[s]] = Total[order[replacement[s]]]
    /\ BusinessDate(s) = BusinessDate(replacement[s])
    /\ \A x \in Sale : replacement[x] = replacement[s] => x = s

Coherent == \A s \in Sale : OwnRows(s) /\ Backed(s) /\ Linked(s)

Injective(claims) ==
  \A x, y \in DOMAIN claims :
    claims[x] # None /\ claims[x] = claims[y] => x = y

\* A key backs at most one effect in each scope, however often it is sent
\* (the unique (actor, key) indexes of the document tables).
KeyBacksOneEffect ==
  /\ Injective(createdBy) /\ Injective(receipt) /\ Injective(confirmation)
  /\ Injective(cancellation) /\ Injective(closedBy) /\ Injective(reopenedBy)

\* The frozen figures of a closing never overstate the day: every sale summed
\* is still a completed sale of that day, and none of them was also reported
\* in transit.  Voiding a counted duplicate would break it.
ClosingNeverOverstates ==
  \A d \in Day : closing[d] # None =>
    /\ counted[d] \subseteq Completed(d)
    /\ counted[d] \cap pending[d] = {}

Lifecycle ==
  \A s \in Sale :
    /\ order[s] # None => order'[s] = order[s]
    /\ status'[s] # status[s] =>
         \/ status[s] = None /\ status'[s] \in {"IN_TRANSIT", "COMPLETED"}
              /\ paid'[s] = "PENDING"
         \/ /\ paid'[s] = paid[s]
            /\ \/ status[s] = "IN_TRANSIT" /\ status'[s] = "COMPLETED"
                   /\ confirmation'[s] # None
               \/ status[s] = "IN_TRANSIT" /\ status'[s] = "CANCELLED"
                   /\ paid[s] = "PENDING" /\ cancellation'[s] # None
                   /\ replacement'[s] = None
               \/ status[s] = "COMPLETED" /\ status'[s] = "CANCELLED"
                   /\ paid[s] = "PAID" /\ replacement'[s] # None
    /\ status'[s] = status[s] /\ paid'[s] # paid[s] =>
         /\ paid[s] = "PENDING" /\ paid'[s] = "PAID"
         /\ status[s] = "COMPLETED"
         /\ receipt'[s] # None \/ \E x \in Sale : replacement'[x] = s

\* A sale only moves along the transitions guard_sale_write lets through, and
\* with the document each of them requires.
LifecycleRespected == [][Lifecycle]_tables

ClosedDay ==
  \A d \in Day : closing[d] # None =>
    /\ closing'[d] # None
    /\ counted'[d] = counted[d] /\ pending'[d] = pending[d]
    /\ \A s \in SalesOn(d) : replacement'[s] = replacement[s]

\* Once a day has a closing, reopened or not, its figures are frozen and no
\* sale of the day is corrected (ADR-010, ADR-021).
ClosedDayFrozen == [][ClosedDay]_tables
=============================================================================
