------------------------------ MODULE FinanceBook ------------------------------
(***************************************************************************)
(* Finances: manual entries posted by concurrent requests, the catalogue   *)
(* of categories they need, and the lists and totals read from them and    *)
(* from the sales.  The income of a sale is never stored: it is derived    *)
(* whenever the book is read.                                              *)
(***************************************************************************)
EXTENDS Integers, Sequences, FiniteSets, Functions

CONSTANTS
  Posting,   \* transactions under way at once
  EntryKey,  \* idempotency keys
  Payload,   \* what an entry may say: [category, type, date, amount]
  SoldSale,
  SaleFacts, \* SaleFacts[s]: [date, amount] of sale s
  Catalog,   \* Catalog[c]: the entry type of category c
  Query,     \* what readers ask for: [type, source], "any" for either
  Instant,   \* values of created_at, which rows may share
  PageSize,
  Rank       \* Rank[id]: the place of an id in the order of ids

ASSUME BookAssumption ==
  /\ PageSize \in Nat \ {0} /\ IsFiniteSet(SoldSale) /\ Instant \subseteq Nat
  /\ Rank \in [{"entry"} \X EntryKey \cup {"sale"} \X SoldSale -> Nat] /\ IsInjective(Rank)
  /\ Query \subseteq [type : {"any", "INCOME", "EXPENSE"}, source : {"any", "MANUAL", "SALE"}]
  /\ \A p \in Payload : p.date \in Nat
  /\ \A s \in SoldSale : SaleFacts[s].date \in Nat

VARIABLES
  categories, \* categories[c]: "absent", "active", "inactive"
  entries,    \* rows of financial_entries
  sales,      \* sales[s]: its status and the instant of its row
  work,       \* work[r]: the request under way, or Idle
  answered,   \* the last answer given: [key, payload, outcome]
  shown       \* what a reader has read of one query since the book last changed

book == <<categories, entries, sales>>
bookVars == <<book, work, answered, shown>>

Idle == [stage |-> "idle"]
Unread == [query |-> [type |-> "none", source |-> "none"], pages |-> <<>>, totals |-> <<>>]
NoAnswer == [outcome |-> "none"]

-----------------------------------------------------------------------------
(* Posting.                                                                *)

At(r, stage) == work[r].stage = stage
Moves(r, stage) == work' = [work EXCEPT ![r].stage = stage]

Answers(r, outcome) ==
  /\ work' = [work EXCEPT ![r] = Idle]
  /\ answered' = [key |-> work[r].key, payload |-> work[r].payload, outcome |-> outcome]

\* The actor, still active and allowed, is checked in the transaction.
Begin(r, k, p) ==
  /\ At(r, "idle")
  /\ work' = [work EXCEPT ![r] = [stage |-> "begun", key |-> k, payload |-> p]]
  /\ UNCHANGED <<book, answered, shown>>

Holds(q, k) == ~At(q, "idle") /\ ~At(q, "begun") /\ work[q].key = k

\* pg_advisory_xact_lock on the actor and the key.
Lock(r) ==
  /\ At(r, "begun")
  /\ \A q \in Posting : ~Holds(q, work[r].key)
  /\ Moves(r, "locked")
  /\ UNCHANGED <<book, answered, shown>>

Posted(k) == {e \in entries : e.key = k}

Replay(r) ==
  /\ At(r, "locked")
  /\ \E e \in Posted(work[r].key) :
       Answers(r, IF e.payload = work[r].payload THEN "answered" ELSE "conflict")
  /\ UNCHANGED <<book, shown>>

CategoryFits(p) ==
  categories[p.category] = "active" /\ Catalog[p.category] = p.type

Insert(r) ==
  /\ At(r, "locked")
  /\ Posted(work[r].key) = {}
  /\ CategoryFits(work[r].payload)
  /\ Moves(r, "inserted")
  /\ UNCHANGED <<book, answered, shown>>

\* The category, or the person responsible, is refused.
Refuse(r) ==
  /\ At(r, "locked")
  /\ Posted(work[r].key) = {}
  /\ Answers(r, "refused")
  /\ UNCHANGED <<book, shown>>

\* A key already committed breaks the unique index: P2002, a conflict.
Commit(r) ==
  /\ At(r, "inserted")
  /\ \/ /\ Posted(work[r].key) = {}
        /\ \E now \in Instant :
             entries' = entries \cup
               {[key |-> work[r].key, payload |-> work[r].payload, created |-> now]}
        /\ Answers(r, "answered")
        /\ shown' = Unread
     \/ /\ Posted(work[r].key) # {}
        /\ Answers(r, "conflict")
        /\ UNCHANGED <<entries, shown>>
  /\ UNCHANGED <<categories, sales>>

Abort(r) ==
  /\ ~At(r, "idle")
  /\ work' = [work EXCEPT ![r] = Idle]
  /\ UNCHANGED <<book, answered, shown>>

(* The operator prepares the vocabulary: what is missing is created, what is   *)
(* there is left as it is.  A category is withdrawn by hand.                   *)
Prepare ==
  /\ categories' = [c \in DOMAIN Catalog |->
       IF categories[c] = "absent" THEN "active" ELSE categories[c]]
  /\ categories' # categories
  /\ UNCHANGED <<entries, sales, work, answered, shown>>

Withdraw(c) ==
  /\ categories[c] = "active"
  /\ categories' = [categories EXCEPT ![c] = "inactive"]
  /\ UNCHANGED <<entries, sales, work, answered, shown>>

-----------------------------------------------------------------------------
(* The sales, as far as the book reads them.                               *)

Following == [none |-> {"IN_TRANSIT", "COMPLETED"}, IN_TRANSIT |-> {"COMPLETED", "CANCELLED"},
              COMPLETED |-> {"CANCELLED"}, CANCELLED |-> {}]

SaleMoves(s) ==
  /\ \E status \in Following[sales[s].status], now \in Instant :
       sales' = [sales EXCEPT ![s] =
         [status |-> status,
          created |-> IF sales[s].status = "none" THEN now ELSE sales[s].created]]
  /\ shown' = Unread
  /\ UNCHANGED <<categories, entries, work, answered>>

-----------------------------------------------------------------------------
(* Reading.                                                                *)

\* financeLineUnion: entries, and the income of completed sales.
BookLine ==
  {[id |-> <<"entry", e.key>>, source |-> "MANUAL", type |-> e.payload.type,
    date |-> e.payload.date, amount |-> e.payload.amount,
    created |-> e.created] : e \in entries}
  \cup
  {[id |-> <<"sale", s>>, source |-> "SALE", type |-> "INCOME",
    date |-> SaleFacts[s].date, amount |-> SaleFacts[s].amount,
    created |-> sales[s].created] : s \in {t \in SoldSale : sales[t].status = "COMPLETED"}}

\* financeLineFilters
Matching(q) ==
  {l \in BookLine : q.type \in {"any", l.type} /\ q.source \in {"any", l.source}}

BeforeByInstant(a, b) ==
  a.date > b.date \/ (a.date = b.date /\ a.created > b.created)
\* ORDER BY business_date, created_at, id, all of them descending.
Before(a, b) ==
  \/ a.date > b.date
  \/ a.date = b.date /\ a.created > b.created
  \/ a.date = b.date /\ a.created = b.created /\ Rank[a.id] > Rank[b.id]

\* PostgreSQL returns rows that tie in any order, a new one each time.
Orders(lines) ==
  {o \in [1..Cardinality(lines) -> lines] :
     IsInjective(o) /\ \A i, j \in DOMAIN o : i < j => ~Before(o[j], o[i])}

Slice(o, k) == SubSeq(o, (k - 1) * PageSize + 1, IF k * PageSize < Len(o) THEN k * PageSize
                                                                          ELSE Len(o))

PagesOf(q) == (Cardinality(Matching(q)) + PageSize - 1) \div PageSize

Reading(q) == [shown EXCEPT !.query = q]

\* lines: the reader leafs through the pages of its query.
ReadPage(q) ==
  /\ shown = Unread \/ shown.query = q
  /\ LET k == Len(Reading(q).pages) + 1
     IN  /\ k <= PagesOf(q)
         /\ \E o \in Orders(Matching(q)) :
              shown' = [Reading(q) EXCEPT !.pages = Append(@, Slice(o, k))]
  /\ UNCHANGED <<book, work, answered>>

AmountOf(lines, type) ==
  SumFunctionOnSet([l \in lines |-> l.amount], {l \in lines : l.type = type})

\* totals: the whole of the query, not a page of it.
ReadTotals(q) ==
  /\ shown = Unread \/ shown.query = q
  /\ Reading(q).totals = <<>>
  /\ shown' = [Reading(q) EXCEPT !.totals =
       <<AmountOf(Matching(q), "INCOME"), AmountOf(Matching(q), "EXPENSE")>>]
  /\ UNCHANGED <<book, work, answered>>

BookInit ==
  /\ categories = [c \in DOMAIN Catalog |-> "absent"]
  /\ entries = {}
  /\ sales = [s \in SoldSale |-> [status |-> "none", created |-> 0]]
  /\ work = [r \in Posting |-> Idle]
  /\ answered = NoAnswer
  /\ shown = Unread

BookNext ==
  \/ \E r \in Posting :
       \/ \E k \in EntryKey, p \in Payload : Begin(r, k, p)
       \/ Lock(r) \/ Replay(r) \/ Insert(r) \/ Refuse(r) \/ Commit(r) \/ Abort(r)
  \/ Prepare
  \/ \E c \in DOMAIN Catalog : Withdraw(c)
  \/ \E s \in SoldSale : SaleMoves(s)
  \/ \E q \in Query : ReadPage(q) \/ ReadTotals(q)

BookSpec == BookInit /\ [][BookNext]_bookVars

-----------------------------------------------------------------------------
\* A request sent twice, even at once, finds itself: only another content under
\* the same key is a conflict (create-financial-entry.service.ts locks the key
\* before it looks for a replay).
RetriesAnswered ==
  answered # NoAnswer /\ answered.outcome = "conflict" =>
    \E e \in Posted(answered.key) : e.payload # answered.payload

\* "A page is a real page of the combined result" and "totals cover the whole
\* filtered set": whoever leafs through an unchanged book sees every line on one
\* page, although each page is a query of its own, and the lines add up to the
\* totals.
PagesAddUp ==
  shown # Unread /\ Len(shown.pages) = PagesOf(shown.query) =>
    LET places == {x \in (1..Len(shown.pages)) \X (1..PageSize) : x[2] <= Len(shown.pages[x[1]])}
        seen == [x \in places |-> shown.pages[x[1]][x[2]]]
    IN  /\ Range(seen) = Matching(shown.query)
        /\ IsInjective(seen)
        /\ shown.totals # <<>> =>
             shown.totals = <<AmountOf(Range(seen), "INCOME"), AmountOf(Range(seen), "EXPENSE")>>

\* The book is kept: retries are answered and pages add up.
BookKept == RetriesAnswered /\ PagesAddUp
=============================================================================
