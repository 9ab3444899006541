------------------------ MODULE SaleTransactionsProofs ------------------------
(***************************************************************************)
(* The safety properties of SaleRules, proved for every set of sales,      *)
(* keys, requests, pairs and days; and that, whatever the number of        *)
(* transactions, what one of them checked still holds when it writes, and  *)
(* the tables change only as in SaleRules.                                 *)
(***************************************************************************)
EXTENDS SaleTransactions, TLAPS

-----------------------------------------------------------------------------
(* One command at a time.                                                  *)

LEMMA PairsOfType ==
  ASSUME NEW r \in Request
  PROVE  /\ PairsOf(r) \subseteq Pair
         /\ Demand[r] \in [Pair -> Nat]
         /\ InitialStatus[r] \in {"IN_TRANSIT", "COMPLETED"}
         /\ DayOf[r] \in Day
  BY SaleConstants DEF PairsOf

\* Posting movements keeps the balances and the ledger well typed, provided
\* the balances written are not negative.
LEMMA PostType ==
  ASSUME TypeOK, NEW kind \in Kind, NEW s \in Sale,
         NEW before \in [DOMAIN Opening -> Nat],
         NEW D \in SUBSET (Pair \cap DOMAIN Opening),
         NEW after \in [D -> Nat],
         Post(kind, s, before, after)
  PROVE  /\ stock' \in [DOMAIN Opening -> Nat]
         /\ ledger' \in [Pair -> Seq(MovementRow)]
  <1>1. stock' \in [DOMAIN Opening -> Nat]
    BY DEF Post, TypeOK
  <1>2. ASSUME NEW p \in D
        PROVE  Movement(kind, s, before[p], after[p]) \in MovementRow
    BY DEF Movement, MovementRow
  <1>3. ASSUME NEW p \in Pair
        PROVE  ledger'[p] \in Seq(MovementRow)
    BY <1>2 DEF Post, TypeOK
  <1>4. ledger' \in [Pair -> Seq(MovementRow)]
    BY <1>3 DEF Post
  <1>. QED BY <1>1, <1>4

LEMMA InitType == Initially => TypeOK
  BY SaleConstants DEF Initially, TypeOK, NullOr

LEMMA CreateType ==
  ASSUME TypeOK, NEW k \in Key, NEW r \in Request, NEW s \in Sale,
         NEW rows \in [DOMAIN Opening -> Nat],
         Creatable(r, rows), InsertSale(k, r, s, rows)
  PROVE  TypeOK'
  <1>. DEFINE after == [p \in PairsOf(r) |-> rows[p] - Demand[r][p]]
  <1>1. PairsOf(r) \in SUBSET (Pair \cap DOMAIN Opening)
    BY PairsOfType DEF Creatable
  <1>2. after \in [PairsOf(r) -> Nat]
    BY <1>1, PairsOfType DEF Creatable
  <1>3. Post("SALE", s, rows, after)
    BY DEF InsertSale, Sell
  <1>4. /\ stock' \in [DOMAIN Opening -> Nat]
        /\ ledger' \in [Pair -> Seq(MovementRow)]
    <2>. HIDE DEF after
    <2>. QED BY <1>1, <1>2, <1>3, PostType DEF Kind
  <1>. QED
    BY <1>4, PairsOfType DEF InsertSale, TypeOK, NullOr, documents, closingTables


\* Restoring a sale only adds to balances that exist.
LEMMA RestoreType ==
  ASSUME TypeOK, NEW s \in Sale, Exists(s),
         NEW rows \in [DOMAIN Opening -> Nat],
         Restorable(s, rows), Restore(s, rows)
  PROVE  /\ stock' \in [DOMAIN Opening -> Nat]
         /\ ledger' \in [Pair -> Seq(MovementRow)]
  <1>. DEFINE D == PairsOf(order[s])
              after == [p \in D |-> rows[p] + Demand[order[s]][p]]
  <1>1. order[s] \in Request
    BY DEF TypeOK, NullOr, Exists
  <1>2. D \in SUBSET (Pair \cap DOMAIN Opening)
    BY <1>1, PairsOfType DEF Restorable
  <1>3. after \in [D -> Nat]
    BY <1>1, <1>2, PairsOfType
  <1>4. Post("SALE_CANCELLATION", s, rows, after)
    BY DEF Restore
  <1>. HIDE DEF D, after
  <1>. QED BY <1>2, <1>3, <1>4, PostType DEF Kind

LEMMA PaymentType ==
  ASSUME TypeOK, NEW k \in Key, NEW s \in Sale, InsertPayment(k, s)
  PROVE  TypeOK'
  BY DEF InsertPayment, TypeOK, NullOr, stockTables, closingTables

LEMMA ConfirmationType ==
  ASSUME TypeOK, NEW k \in Key, NEW s \in Sale, InsertConfirmation(k, s)
  PROVE  TypeOK'
  BY DEF InsertConfirmation, TypeOK, NullOr, stockTables, closingTables

LEMMA CancellationType ==
  ASSUME TypeOK, NEW k \in Key, NEW s \in Sale, Exists(s),
         NEW rows \in [DOMAIN Opening -> Nat],
         Restorable(s, rows), InsertCancellation(k, s, rows)
  PROVE  TypeOK'
  <1>1. Restore(s, rows)
    BY DEF InsertCancellation
  <1>2. /\ stock' \in [DOMAIN Opening -> Nat]
        /\ ledger' \in [Pair -> Seq(MovementRow)]
    BY <1>1, RestoreType
  <1>. QED
    BY <1>2 DEF InsertCancellation, TypeOK, NullOr, closingTables

LEMMA CorrectionType ==
  ASSUME TypeOK, NEW k \in Key, NEW s \in Sale, NEW t \in Sale, Exists(s),
         NEW rows \in [DOMAIN Opening -> Nat],
         Restorable(s, rows), InsertCorrection(k, s, t, rows)
  PROVE  TypeOK'
  <1>1. Restore(s, rows)
    BY DEF InsertCorrection
  <1>2. /\ stock' \in [DOMAIN Opening -> Nat]
        /\ ledger' \in [Pair -> Seq(MovementRow)]
    BY <1>1, RestoreType
  <1>. QED
    BY <1>2 DEF InsertCorrection, TypeOK, NullOr, closingTables

LEMMA ClosingType ==
  ASSUME TypeOK, NEW k \in Key, NEW d \in Day,
         NEW summed \in SUBSET Sale, NEW transit \in SUBSET Sale,
         InsertClosing(k, d, summed, transit)
  PROVE  TypeOK'
  BY DEF InsertClosing, TypeOK, NullOr, saleTables, documents, stockTables

LEMMA ReopeningType ==
  ASSUME TypeOK, NEW k \in Key, NEW d \in Day, InsertReopening(k, d)
  PROVE  TypeOK'
  BY DEF InsertReopening, TypeOK, NullOr, saleTables, documents, stockTables

LEMMA StutterType == TypeOK /\ UNCHANGED tables => TypeOK'
  BY DEF TypeOK, tables, saleTables, documents, stockTables, closingTables

LEMMA TypeStep == TypeOK /\ [Command]_tables => TypeOK'
  <1>. SUFFICES ASSUME TypeOK, [Command]_tables PROVE TypeOK'
    OBVIOUS
  <1>0. stock \in [DOMAIN Opening -> Nat]
    BY DEF TypeOK
  <1>1. ASSUME NEW k \in Key, NEW r \in Request, NEW s \in Sale, Create(k, r, s)
        PROVE  TypeOK'
    BY <1>0, <1>1, CreateType DEF Create
  <1>2. ASSUME NEW k \in Key, NEW s \in Sale, RecordPayment(k, s)
        PROVE  TypeOK'
    BY <1>2, PaymentType DEF RecordPayment
  <1>3. ASSUME NEW k \in Key, NEW s \in Sale, Confirm(k, s)
        PROVE  TypeOK'
    BY <1>3, ConfirmationType DEF Confirm
  <1>4. ASSUME NEW k \in Key, NEW s \in Sale, Cancel(k, s)
        PROVE  TypeOK'
    BY <1>0, <1>4, CancellationType DEF Cancel, Cancellable
  <1>5. ASSUME NEW k \in Key, NEW s \in Sale, NEW t \in Sale, VoidDuplicate(k, s, t)
        PROVE  TypeOK'
    BY <1>0, <1>5, CorrectionType DEF VoidDuplicate, Voidable
  <1>6. ASSUME NEW k \in Key, NEW d \in Day, CreateClosing(k, d)
        PROVE  TypeOK'
    BY <1>6, ClosingType DEF CreateClosing, Completed, SalesOn
  <1>7. ASSUME NEW k \in Key, NEW d \in Day, Reopen(k, d)
        PROVE  TypeOK'
    BY <1>7, ReopeningType DEF Reopen
  <1>8. CASE UNCHANGED tables
    BY <1>8, StutterType
  <1>. QED
    BY <1>1, <1>2, <1>3, <1>4, <1>5, <1>6, <1>7, <1>8 DEF Command

\* No sequence of commands drives a balance negative or leaves a column out of
\* its domain.
THEOREM SerialTypeOK == Serial => []TypeOK
  BY InitType, TypeStep, PTL DEF Serial

-----------------------------------------------------------------------------
(* The rows of a sale and its documents stay coherent.                     *)

LEMMA InitCoherent == Initially => Coherent
  BY SaleConstants DEF Initially, Coherent, OwnRows, Backed, Linked

LEMMA CreateCoherent ==
  ASSUME TypeOK, Coherent, NEW k \in Key, NEW r \in Request, NEW s \in Sale,
         Create(k, r, s)
  PROVE  Coherent'
  <1>1. /\ order' = [order EXCEPT ![s] = r]
        /\ status' = [status EXCEPT ![s] = InitialStatus[r]]
        /\ paid' = [paid EXCEPT ![s] = "PENDING"]
        /\ UNCHANGED <<receipt, confirmation, cancellation, replacement>>
        /\ DOMAIN stock' = DOMAIN stock
        /\ PairsOf(r) \subseteq DOMAIN stock
        /\ order[s] = None /\ r # None
        /\ InitialStatus[r] \in {"IN_TRANSIT", "COMPLETED"}
    BY SaleConstants DEF Create, InsertSale, Sell, Post, Creatable, Exists, documents
  <1>2. /\ status[s] = None /\ paid[s] = None /\ receipt[s] = None
        /\ confirmation[s] = None /\ cancellation[s] = None
        /\ replacement[s] = None
        /\ \A x \in Sale : replacement[x] # s
    BY <1>1, SaleConstants DEF Coherent, OwnRows, Backed, Linked, TypeOK, NullOr
  <1>. SUFFICES ASSUME NEW x \in Sale
                PROVE  OwnRows(x)' /\ Backed(x)' /\ Linked(x)'
    BY DEF Coherent
  <1>3. OwnRows(x)'
    BY <1>1, <1>2, SaleConstants DEF Coherent, OwnRows, TypeOK, NullOr, PairsOf
  <1>4. Backed(x)'
    BY <1>1, <1>2, SaleConstants
    DEF Coherent, Backed, TypeOK, NullOr, ReceivedCorrection
  <1>5. Linked(x)'
    <2>1. CASE x = s
      BY <1>1, <1>2, <2>1 DEF Linked, TypeOK
    <2>2. CASE x # s
      BY <1>1, <1>2, <2>2, SaleConstants
      DEF Coherent, Linked, TypeOK, NullOr, BusinessDate
    <2>. QED BY <2>1, <2>2
  <1>. QED BY <1>3, <1>4, <1>5

LEMMA PaymentCoherent ==
  ASSUME TypeOK, Coherent, NEW k \in Key, NEW s \in Sale, RecordPayment(k, s)
  PROVE  Coherent'
  <1>1. /\ receipt' = [receipt EXCEPT ![s] = k]
        /\ paid' = [paid EXCEPT ![s] = "PAID"]
        /\ UNCHANGED <<order, status, confirmation, cancellation, replacement, stock>>
        /\ status[s] = "COMPLETED" /\ paid[s] = "PENDING"
    BY DEF RecordPayment, Payable, InsertPayment, stockTables
  <1>2. /\ \A x \in Sale : replacement[x] # s
        /\ k # None
    BY <1>1, SaleConstants DEF Coherent, Linked
  <1>. SUFFICES ASSUME NEW x \in Sale
                PROVE  OwnRows(x)' /\ Backed(x)' /\ Linked(x)'
    BY DEF Coherent
  <1>3. OwnRows(x)'
    BY <1>1, <1>2, SaleConstants DEF Coherent, OwnRows, TypeOK, NullOr, PairsOf
  <1>4. Backed(x)'
    BY <1>1, <1>2, SaleConstants
    DEF Coherent, Backed, TypeOK, NullOr, ReceivedCorrection
  <1>5. Linked(x)'
    BY <1>1, <1>2, SaleConstants DEF Coherent, Linked, TypeOK, NullOr, BusinessDate
  <1>. QED BY <1>3, <1>4, <1>5

LEMMA ConfirmationCoherent ==
  ASSUME TypeOK, Coherent, NEW k \in Key, NEW s \in Sale, Confirm(k, s)
  PROVE  Coherent'
  <1>1. /\ confirmation' = [confirmation EXCEPT ![s] = k]
        /\ status' = [status EXCEPT ![s] = "COMPLETED"]
        /\ UNCHANGED <<order, paid, receipt, cancellation, replacement, stock>>
        /\ status[s] = "IN_TRANSIT" /\ paid[s] = "PENDING"
    BY DEF Confirm, Confirmable, InsertConfirmation, stockTables
  <1>. QED
    BY <1>1, SaleConstants
    DEF Coherent, OwnRows, Backed, Linked, TypeOK, NullOr, ReceivedCorrection, BusinessDate, PairsOf

LEMMA CancellationCoherent ==
  ASSUME TypeOK, Coherent, NEW k \in Key, NEW s \in Sale, Cancel(k, s)
  PROVE  Coherent'
  <1>1. /\ cancellation' = [cancellation EXCEPT ![s] = k]
        /\ status' = [status EXCEPT ![s] = "CANCELLED"]
        /\ UNCHANGED <<order, paid, receipt, confirmation, replacement>>
        /\ DOMAIN stock' = DOMAIN stock
        /\ status[s] = "IN_TRANSIT" /\ paid[s] = "PENDING"
    BY DEF Cancel, Cancellable, InsertCancellation, Restore, Post
  <1>. QED
    BY <1>1, SaleConstants
    DEF Coherent, OwnRows, Backed, Linked, TypeOK, NullOr, ReceivedCorrection, BusinessDate, PairsOf

LEMMA CorrectionCoherent ==
  ASSUME TypeOK, Coherent, NEW k \in Key, NEW s \in Sale, NEW t \in Sale,
         VoidDuplicate(k, s, t)
  PROVE  Coherent'
  <1>1. /\ cancellation' = [cancellation EXCEPT ![s] = k]
        /\ replacement' = [replacement EXCEPT ![s] = t]
        /\ status' = [status EXCEPT ![s] = "CANCELLED"]
        /\ paid' = [paid EXCEPT ![t] = "PAID"]
        /\ UNCHANGED <<order, receipt, confirmation>>
        /\ DOMAIN stock' = DOMAIN stock
    BY DEF VoidDuplicate, InsertCorrection, Restore, Post
  <1>2. /\ s # t
        /\ status[s] = "COMPLETED" /\ paid[s] = "PAID" /\ receipt[s] # None
        /\ status[t] = "COMPLETED" /\ paid[t] = "PENDING" /\ receipt[t] = None
        /\ Total[order[s]] = Total[order[t]]
        /\ BusinessDate(s) = BusinessDate(t)
        /\ \A x \in Sale : replacement[x] # s /\ replacement[x] # t
    BY DEF VoidDuplicate, Voidable, ReceivedCorrection
  <1>3. OwnRows(s) /\ OwnRows(t) /\ Linked(s) /\ Linked(t) /\ k # None
    BY SaleConstants DEF Coherent
  <1>4. replacement[s] = None /\ replacement[t] = None
    BY <1>2, <1>3 DEF OwnRows
  <1>. SUFFICES ASSUME NEW x \in Sale
                PROVE  OwnRows(x)' /\ Backed(x)' /\ Linked(x)'
    BY DEF Coherent
  <1>5. OwnRows(x)'
    BY <1>1, <1>2, <1>3, <1>4, SaleConstants
    DEF Coherent, OwnRows, TypeOK, NullOr, PairsOf
  <1>6. Backed(x)'
    <2>1. CASE x = t
      BY <1>1, <2>1 DEF Backed, ReceivedCorrection, TypeOK
    <2>2. CASE x # t
      <3>1. paid'[x] = paid[x] /\ receipt'[x] = receipt[x] /\ Backed(x)
        BY <1>1, <2>2 DEF Coherent, TypeOK
      <3>2. ASSUME NEW y \in Sale, replacement[y] = x PROVE replacement'[y] = x
        BY <1>1, <1>4, <3>2, SaleConstants DEF TypeOK
      <3>. QED BY <3>1, <3>2 DEF Backed, ReceivedCorrection
    <2>. QED BY <2>1, <2>2
  <1>7. Linked(x)'
    <2>1. CASE x = s
      BY <1>1, <1>2, <1>4, <2>1 DEF Linked, BusinessDate, TypeOK
    <2>2. CASE x # s
      <3>1. replacement'[x] = replacement[x] /\ Linked(x)
        BY <1>1, <2>2 DEF Coherent, TypeOK
      <3>2. CASE replacement[x] = None
        BY <3>1, <3>2 DEF Linked
      <3>3. CASE replacement[x] # None
        <4>1. replacement[x] \in Sale \ {s, t}
          BY <1>2, <3>3 DEF TypeOK, NullOr
        <4>. QED
          BY <1>1, <1>2, <2>2, <3>1, <3>3, <4>1 DEF Linked, BusinessDate, TypeOK
      <3>. QED BY <3>2, <3>3
    <2>. QED BY <2>1, <2>2
  <1>. QED BY <1>5, <1>6, <1>7

LEMMA CoherentStep == TypeOK /\ Coherent /\ [Command]_tables => Coherent'
  <1>. SUFFICES ASSUME TypeOK, Coherent, [Command]_tables PROVE Coherent'
    OBVIOUS
  <1>1. CASE UNCHANGED <<saleTables, documents, stock>>
    BY <1>1 DEF Coherent, OwnRows, Backed, Linked, ReceivedCorrection, BusinessDate, saleTables, documents
  <1>2. ASSUME NEW k \in Key, NEW d \in Day, CreateClosing(k, d) \/ Reopen(k, d)
        PROVE  UNCHANGED <<saleTables, documents, stock>>
    BY <1>2 DEF CreateClosing, Reopen, InsertClosing, InsertReopening, stockTables
  <1>3. UNCHANGED tables => UNCHANGED <<saleTables, documents, stock>>
    BY DEF tables, stockTables
  <1>. QED
    BY <1>1, <1>2, <1>3, CreateCoherent, PaymentCoherent, ConfirmationCoherent,
       CancellationCoherent, CorrectionCoherent
    DEF Command

THEOREM SerialCoherent == Serial => []Coherent
  BY InitCoherent, CoherentStep, SerialTypeOK, PTL DEF Serial

\* What the deferred document trigger demands holds after every command.
THEOREM SerialDocumentsAgree == Serial => []DocumentsAgree
  <1>1. TypeOK /\ Coherent => DocumentsAgree
    BY SaleConstants DEF Coherent, OwnRows, Backed, Linked, DocumentsAgree, ReceivedCorrection, TypeOK, NullOr
  <1>. QED BY <1>1, SerialTypeOK, SerialCoherent, PTL

\* Payments and completed paid sales correspond one to one.
THEOREM SerialPaymentHeldOnce == Serial => []PaymentHeldOnce
  <1>1. TypeOK /\ Coherent => PaymentHeldOnce
    <2>. SUFFICES ASSUME TypeOK, Coherent PROVE PaymentHeldOnce
      OBVIOUS
    <2>1. ASSUME NEW s \in Sale, receipt[s] # None
          PROVE  /\ Holder(s) \in Sale
                 /\ status[Holder(s)] = "COMPLETED" /\ paid[Holder(s)] = "PAID"
                 /\ Total[order[s]] = Total[order[Holder(s)]]
                 /\ BusinessDate(s) = BusinessDate(Holder(s))
      BY <2>1, SaleConstants DEF Coherent, OwnRows, Backed, Linked, Holder, TypeOK, NullOr
    <2>2. ASSUME NEW s \in Sale, NEW t \in Sale, receipt[s] # None,
                 receipt[t] # None, Holder(s) = Holder(t)
          PROVE  s = t
      BY <2>2, SaleConstants DEF Coherent, OwnRows, Backed, Linked, Holder, TypeOK, NullOr
    <2>3. ASSUME NEW t \in Sale, status[t] = "COMPLETED", paid[t] = "PAID"
          PROVE  \E s \in Sale : receipt[s] # None /\ Holder(s) = t
      <3>1. CASE receipt[t] # None
        BY <2>3, <3>1, SaleConstants DEF Coherent, OwnRows, Backed, Linked, Holder, TypeOK, NullOr
      <3>2. CASE receipt[t] = None
        <4>1. PICK s \in Sale : replacement[s] = t
          BY <2>3, <3>2 DEF Coherent, Backed, ReceivedCorrection
        <4>2. receipt[s] # None
          BY <4>1, SaleConstants DEF Coherent, OwnRows
        <4>. QED BY <4>1, <4>2, SaleConstants DEF Holder
      <3>. QED BY <3>1, <3>2
    <2>. QED BY <2>1, <2>2, <2>3 DEF PaymentHeldOnce
  <1>. QED BY <1>1, SerialTypeOK, SerialCoherent, PTL

-----------------------------------------------------------------------------
(* A key backs one effect.                                                 *)

\* Filling one row of a claim table with a key nobody claimed.
LEMMA ClaimInjective ==
  ASSUME NEW D, NEW claims, claims = [d \in D |-> claims[d]],
         NEW k \in Key, NEW x \in D, Injective(claims), Unclaimed(claims, k)
  PROVE  Injective([claims EXCEPT ![x] = k])
  BY DEF Injective, Unclaimed

LEMMA KeyStep ==
  TypeOK /\ KeyBacksOneEffect /\ [Command]_tables => KeyBacksOneEffect'
  <1>. SUFFICES ASSUME TypeOK, KeyBacksOneEffect, [Command]_tables
                PROVE  KeyBacksOneEffect'
    OBVIOUS
  <1>. USE DEF KeyBacksOneEffect
  <1>1. ASSUME NEW k \in Key, NEW r \in Request, NEW s \in Sale, Create(k, r, s)
        PROVE  KeyBacksOneEffect'
    BY <1>1, ClaimInjective
    DEF Create, InsertSale, documents, closingTables, TypeOK, Injective
  <1>2. ASSUME NEW k \in Key, NEW s \in Sale, RecordPayment(k, s)
        PROVE  KeyBacksOneEffect'
    BY <1>2, ClaimInjective
    DEF RecordPayment, InsertPayment, closingTables, TypeOK, Injective
  <1>3. ASSUME NEW k \in Key, NEW s \in Sale, Confirm(k, s)
        PROVE  KeyBacksOneEffect'
    BY <1>3, ClaimInjective
    DEF Confirm, InsertConfirmation, closingTables, TypeOK, Injective
  <1>4. ASSUME NEW k \in Key, NEW s \in Sale, Cancel(k, s)
        PROVE  KeyBacksOneEffect'
    BY <1>4, ClaimInjective
    DEF Cancel, InsertCancellation, closingTables, TypeOK, Injective
  <1>5. ASSUME NEW k \in Key, NEW s \in Sale, NEW t \in Sale, VoidDuplicate(k, s, t)
        PROVE  KeyBacksOneEffect'
    BY <1>5, ClaimInjective
    DEF VoidDuplicate, InsertCorrection, closingTables, TypeOK, Injective
  <1>6. ASSUME NEW k \in Key, NEW d \in Day, CreateClosing(k, d)
        PROVE  KeyBacksOneEffect'
    BY <1>6, ClaimInjective
    DEF CreateClosing, InsertClosing, saleTables, documents, TypeOK, Injective
  <1>7. ASSUME NEW k \in Key, NEW d \in Day, Reopen(k, d)
        PROVE  KeyBacksOneEffect'
    BY <1>7, ClaimInjective
    DEF Reopen, InsertReopening, saleTables, documents, TypeOK, Injective
  <1>8. CASE UNCHANGED tables
    BY <1>8 DEF tables, saleTables, documents, closingTables, Injective
  <1>. QED
    BY <1>1, <1>2, <1>3, <1>4, <1>5, <1>6, <1>7, <1>8 DEF Command

\* No key, however often it is sent, backs two effects of one scope.
THEOREM SerialKeyBacksOneEffect == Serial => []KeyBacksOneEffect
  <1>1. Initially => KeyBacksOneEffect
    BY DEF Initially, KeyBacksOneEffect, Injective
  <1>. QED BY <1>1, KeyStep, SerialTypeOK, PTL DEF Serial

-----------------------------------------------------------------------------
(* The ledger explains the balances.                                       *)

LEMMA PostExplains ==
  ASSUME TypeOK, LedgerExplainsStock, NEW kind, NEW s,
         NEW D \in SUBSET (Pair \cap DOMAIN Opening),
         NEW after \in [D -> Nat],
         Post(kind, s, stock, after)
  PROVE  LedgerExplainsStock'
  <1>. SUFFICES ASSUME NEW p \in Pair
                PROVE  /\ ledger'[p] # <<>> =>
                            /\ p \in DOMAIN Opening
                            /\ ledger'[p][1].before = Opening[p]
                            /\ ledger'[p][Len(ledger'[p])].after = stock'[p]
                       /\ ledger'[p] = <<>> /\ p \in DOMAIN Opening =>
                            stock'[p] = Opening[p]
                       /\ \A i \in 1 .. Len(ledger'[p]) - 1 :
                            ledger'[p][i].after = ledger'[p][i + 1].before
    BY DEF LedgerExplainsStock
  <1>1. ledger[p] \in Seq(MovementRow)
    BY DEF TypeOK
  <1>2. CASE p \notin D
    BY <1>2 DEF Post, TypeOK, LedgerExplainsStock
  <1>3. CASE p \in D
    <2>. DEFINE m == Movement(kind, s, stock[p], after[p])
    <2>1. /\ ledger'[p] = Append(ledger[p], m)
          /\ stock'[p] = after[p]
          /\ p \in DOMAIN Opening
          /\ m.before = stock[p] /\ m.after = after[p]
      BY <1>3 DEF Post, TypeOK, Movement
    <2>. HIDE DEF m
    <2>2. CASE ledger[p] = <<>>
      <3>1. stock[p] = Opening[p]
        BY <2>1, <2>2 DEF LedgerExplainsStock
      <3>2. ledger'[p] = <<m>> /\ Len(ledger'[p]) = 1
        BY <1>1, <2>1, <2>2
      <3>. QED BY <2>1, <3>1, <3>2
    <2>3. CASE ledger[p] # <<>>
      <3>1. /\ Len(ledger'[p]) = Len(ledger[p]) + 1
            /\ Len(ledger[p]) \in Nat \ {0}
            /\ \A i \in 1 .. Len(ledger[p]) : ledger'[p][i] = ledger[p][i]
            /\ ledger'[p][Len(ledger[p]) + 1] = m
        BY <1>1, <2>1, <2>3
      <3>2. /\ ledger[p][1].before = Opening[p]
            /\ ledger[p][Len(ledger[p])].after = stock[p]
            /\ \A i \in 1 .. Len(ledger[p]) - 1 :
                 ledger[p][i].after = ledger[p][i + 1].before
        BY <2>3 DEF LedgerExplainsStock
      <3>3. ASSUME NEW i \in 1 .. Len(ledger'[p]) - 1
            PROVE  ledger'[p][i].after = ledger'[p][i + 1].before
        <4>1. CASE i = Len(ledger[p])
          BY <2>1, <3>1, <3>2, <4>1
        <4>2. CASE i # Len(ledger[p])
          <5>1. i \in 1 .. Len(ledger[p]) - 1 /\ i + 1 \in 1 .. Len(ledger[p])
            BY <3>1, <4>2
          <5>2. ledger'[p][i] = ledger[p][i]
            BY <3>1, <5>1
          <5>3. ledger'[p][i + 1] = ledger[p][i + 1]
            BY <3>1, <5>1
          <5>4. ledger[p][i].after = ledger[p][i + 1].before
            BY <3>2, <5>1
          <5>. QED BY <5>2, <5>3, <5>4
        <4>. QED BY <4>1, <4>2
      <3>4. ledger'[p] # <<>> /\ 1 \in 1 .. Len(ledger[p])
        BY <1>1, <2>1, <3>1
      <3>. QED BY <2>1, <3>1, <3>2, <3>3, <3>4
    <2>. QED BY <2>2, <2>3
  <1>. QED BY <1>2, <1>3

\* The movements of a sale and of its cancellation are posted to existing
\* balances and leave them non-negative.
LEMMA SellPosts ==
  ASSUME TypeOK, NEW r \in Request, NEW s \in Sale, Creatable(r, stock),
         Sell(s, r, stock)
  PROVE  \E D \in SUBSET (Pair \cap DOMAIN Opening) : \E after \in [D -> Nat] :
           D = PairsOf(r) /\ Post("SALE", s, stock, after)
  <1>. DEFINE after == [p \in PairsOf(r) |-> stock[p] - Demand[r][p]]
  <1>1. PairsOf(r) \in SUBSET (Pair \cap DOMAIN Opening)
    BY PairsOfType DEF Creatable, TypeOK
  <1>2. after \in [PairsOf(r) -> Nat]
    BY <1>1, PairsOfType DEF Creatable, TypeOK
  <1>3. Post("SALE", s, stock, after)
    BY DEF Sell
  <1>. HIDE DEF after
  <1>. QED BY <1>1, <1>2, <1>3

LEMMA RestorePosts ==
  ASSUME TypeOK, NEW s \in Sale, Exists(s), Restorable(s, stock), Restore(s, stock)
  PROVE  \E D \in SUBSET (Pair \cap DOMAIN Opening) : \E after \in [D -> Nat] :
           D = PairsOf(order[s]) /\ Post("SALE_CANCELLATION", s, stock, after)
  <1>. DEFINE after == [p \in PairsOf(order[s]) |-> stock[p] + Demand[order[s]][p]]
  <1>0. order[s] \in Request
    BY DEF TypeOK, NullOr, Exists
  <1>1. PairsOf(order[s]) \in SUBSET (Pair \cap DOMAIN Opening)
    BY <1>0, PairsOfType DEF Restorable, TypeOK
  <1>2. after \in [PairsOf(order[s]) -> Nat]
    BY <1>0, <1>1, PairsOfType DEF TypeOK
  <1>3. Post("SALE_CANCELLATION", s, stock, after)
    BY DEF Restore
  <1>. HIDE DEF after
  <1>. QED BY <1>1, <1>2, <1>3

LEMMA LedgerStep ==
  TypeOK /\ LedgerExplainsStock /\ [Command]_tables => LedgerExplainsStock'
  <1>. SUFFICES ASSUME TypeOK, LedgerExplainsStock, [Command]_tables
                PROVE  LedgerExplainsStock'
    OBVIOUS
  <1>1. ASSUME NEW k \in Key, NEW r \in Request, NEW s \in Sale, Create(k, r, s)
        PROVE  LedgerExplainsStock'
    BY <1>1, SellPosts, PostExplains DEF Create, InsertSale
  <1>2. ASSUME NEW k \in Key, NEW s \in Sale, Cancel(k, s)
        PROVE  LedgerExplainsStock'
    BY <1>2, RestorePosts, PostExplains DEF Cancel, Cancellable, InsertCancellation
  <1>3. ASSUME NEW k \in Key, NEW s \in Sale, NEW t \in Sale, VoidDuplicate(k, s, t)
        PROVE  LedgerExplainsStock'
    BY <1>3, RestorePosts, PostExplains DEF VoidDuplicate, Voidable, InsertCorrection
  <1>4. CASE UNCHANGED stockTables
    BY <1>4 DEF stockTables, LedgerExplainsStock
  <1>5. ASSUME NEW k \in Key, NEW s \in Sale,
               RecordPayment(k, s) \/ Confirm(k, s)
        PROVE  UNCHANGED stockTables
    BY <1>5 DEF RecordPayment, Confirm, InsertPayment, InsertConfirmation
  <1>6. ASSUME NEW k \in Key, NEW d \in Day, CreateClosing(k, d) \/ Reopen(k, d)
        PROVE  UNCHANGED stockTables
    BY <1>6 DEF CreateClosing, Reopen, InsertClosing, InsertReopening
  <1>7. UNCHANGED tables => UNCHANGED stockTables
    BY DEF tables
  <1>. QED
    BY <1>1, <1>2, <1>3, <1>4, <1>5, <1>6, <1>7 DEF Command

\* Every balance is the end of an unbroken chain of movements.
THEOREM SerialLedgerExplainsStock == Serial => []LedgerExplainsStock
  <1>1. Initially => LedgerExplainsStock
    BY DEF Initially, LedgerExplainsStock
  <1>. QED BY <1>1, LedgerStep, SerialTypeOK, PTL DEF Serial

-----------------------------------------------------------------------------
(* Stock moves once for each sold pair.                                    *)

\* Posting adds one movement to the posted sale and kind, and no other.
LEMMA PostMoves ==
  ASSUME TypeOK, NEW kind, NEW s, NEW before, NEW after,
         NEW D \in SUBSET Pair, DOMAIN after = D, Post(kind, s, before, after),
         NEW k, NEW x, NEW p \in Pair
  PROVE  MovesOf(k, x, p)' =
           IF p \in D /\ k = kind /\ x = s
             THEN MovesOf(k, x, p) \cup {Len(ledger[p]) + 1}
             ELSE MovesOf(k, x, p)
  <1>1. ledger[p] \in Seq(MovementRow)
    BY DEF TypeOK
  <1>2. CASE p \notin D
    BY <1>2 DEF Post, MovesOf
  <1>3. CASE p \in D
    <2>. DEFINE m == Movement(kind, s, before[p], after[p])
    <2>1. ledger'[p] = Append(ledger[p], m) /\ m.kind = kind /\ m.sale = s
      BY <1>3 DEF Post, Movement
    <2>. HIDE DEF m
    <2>2. /\ Len(ledger'[p]) = Len(ledger[p]) + 1
          /\ Len(ledger[p]) \in Nat
          /\ \A i \in 1 .. Len(ledger[p]) : ledger'[p][i] = ledger[p][i]
          /\ ledger'[p][Len(ledger[p]) + 1] = m
      BY <1>1, <2>1
    <2>3. 1 .. Len(ledger'[p]) = (1 .. Len(ledger[p])) \cup {Len(ledger[p]) + 1}
      BY <2>2
    <2>. QED BY <1>3, <2>1, <2>2, <2>3 DEF MovesOf
  <1>. QED BY <1>2, <1>3

\* StockMovesOnce for one sale and one pair.
MovesOnce(s, p) ==
  LET sold == Exists(s) /\ p \in PairsOf(order[s])
  IN  /\ MovesOf("SALE", s, p) # {} <=> sold
      /\ MovesOf("SALE_CANCELLATION", s, p) # {} <=>
            (sold /\ cancellation[s] # None)
      /\ \A kind \in Kind : \A i, j \in MovesOf(kind, s, p) : i = j

LEMMA StockMovesOnceIs ==
  StockMovesOnce <=> \A s \in Sale, p \in Pair : MovesOnce(s, p)
  BY DEF StockMovesOnce, MovesOnce

LEMMA CreateMoves ==
  ASSUME TypeOK, Coherent, StockMovesOnce,
         NEW k \in Key, NEW r \in Request, NEW s \in Sale, Create(k, r, s)
  PROVE  StockMovesOnce'
  <1>. SUFFICES ASSUME NEW x \in Sale, NEW p \in Pair PROVE MovesOnce(x, p)'
    BY DEF StockMovesOnce, MovesOnce
  <1>1. PICK D \in SUBSET (Pair \cap DOMAIN Opening) : \E after \in [D -> Nat] :
          D = PairsOf(r) /\ Post("SALE", s, stock, after)
    BY SellPosts DEF Create, InsertSale
  <1>2. \A kind : MovesOf(kind, x, p)' =
          IF p \in PairsOf(r) /\ kind = "SALE" /\ x = s
            THEN MovesOf(kind, x, p) \cup {Len(ledger[p]) + 1}
            ELSE MovesOf(kind, x, p)
    BY <1>1, PostMoves
  <1>3. MovesOnce(x, p)
    BY StockMovesOnceIs
  <1>4. /\ order' = [order EXCEPT ![s] = r] /\ order[s] = None /\ r # None
        /\ cancellation' = cancellation
    BY SaleConstants DEF Create, InsertSale, Exists, documents
  <1>5. cancellation[s] = None
    BY <1>4, SaleConstants DEF Coherent, OwnRows
  <1>6. CASE x = s
    <2>1. order'[x] = r /\ Exists(x)' /\ ~Exists(x)
      BY <1>4, <1>6 DEF TypeOK, Exists
    <2>2. MovesOf("SALE", x, p) = {} /\ MovesOf("SALE_CANCELLATION", x, p) = {}
      BY <1>3, <2>1 DEF MovesOnce
    <2>. QED BY <1>2, <1>4, <1>5, <1>6, <2>1, <2>2 DEF MovesOnce, Kind, PairsOf
  <1>7. CASE x # s
    <2>1. order'[x] = order[x]
      BY <1>4, <1>7 DEF TypeOK
    <2>. QED BY <1>2, <1>3, <1>4, <1>7, <2>1 DEF MovesOnce, Exists, PairsOf
  <1>. QED BY <1>6, <1>7

\* The common step of Cancel and VoidDuplicate: a live sale is restored and
\* receives its cancellation document.
LEMMA RestoreMoves ==
  ASSUME TypeOK, StockMovesOnce, NEW k \in Key, NEW s \in Sale,
         Exists(s), cancellation[s] = None, Restorable(s, stock),
         Restore(s, stock), order' = order,
         cancellation' = [cancellation EXCEPT ![s] = k]
  PROVE  StockMovesOnce'
  <1>. SUFFICES ASSUME NEW x \in Sale, NEW p \in Pair PROVE MovesOnce(x, p)'
    BY DEF StockMovesOnce, MovesOnce
  <1>1. PICK D \in SUBSET (Pair \cap DOMAIN Opening) : \E after \in [D -> Nat] :
          D = PairsOf(order[s]) /\ Post("SALE_CANCELLATION", s, stock, after)
    BY RestorePosts
  <1>2. \A kind : MovesOf(kind, x, p)' =
          IF p \in PairsOf(order[s]) /\ kind = "SALE_CANCELLATION" /\ x = s
            THEN MovesOf(kind, x, p) \cup {Len(ledger[p]) + 1}
            ELSE MovesOf(kind, x, p)
    BY <1>1, PostMoves
  <1>3. MovesOnce(x, p) /\ k # None
    BY StockMovesOnceIs, SaleConstants
  <1>4. CASE x = s
    <2>1. MovesOf("SALE_CANCELLATION", x, p) = {} /\ cancellation'[x] = k
      BY <1>3, <1>4 DEF MovesOnce, TypeOK
    <2>. QED BY <1>2, <1>3, <1>4, <2>1 DEF MovesOnce, Kind, Exists, PairsOf
  <1>5. CASE x # s
    <2>1. cancellation'[x] = cancellation[x]
      BY <1>5 DEF TypeOK
    <2>. QED BY <1>2, <1>3, <1>5, <2>1 DEF MovesOnce, Exists, PairsOf
  <1>. QED BY <1>4, <1>5

LEMMA MovesStep ==
  TypeOK /\ Coherent /\ StockMovesOnce /\ [Command]_tables => StockMovesOnce'
  <1>. SUFFICES ASSUME TypeOK, Coherent, StockMovesOnce, [Command]_tables
                PROVE  StockMovesOnce'
    OBVIOUS
  <1>1. ASSUME NEW k \in Key, NEW s \in Sale, Cancel(k, s)
        PROVE  StockMovesOnce'
    BY <1>1, RestoreMoves DEF Cancel, Cancellable, InsertCancellation
  <1>2. ASSUME NEW k \in Key, NEW s \in Sale, NEW t \in Sale, VoidDuplicate(k, s, t)
        PROVE  StockMovesOnce'
    BY <1>2, RestoreMoves DEF VoidDuplicate, Voidable, InsertCorrection
  <1>3. CASE UNCHANGED <<order, cancellation, ledger>>
    BY <1>3 DEF StockMovesOnce, MovesOf, Exists, PairsOf
  <1>4. ASSUME NEW k \in Key, NEW s \in Sale,
               RecordPayment(k, s) \/ Confirm(k, s)
        PROVE  UNCHANGED <<order, cancellation, ledger>>
    BY <1>4
    DEF RecordPayment, Confirm, InsertPayment, InsertConfirmation, stockTables
  <1>5. ASSUME NEW k \in Key, NEW d \in Day, CreateClosing(k, d) \/ Reopen(k, d)
        PROVE  UNCHANGED <<order, cancellation, ledger>>
    BY <1>5
    DEF CreateClosing, Reopen, InsertClosing, InsertReopening, saleTables,
        documents, stockTables
  <1>6. UNCHANGED tables => UNCHANGED <<order, cancellation, ledger>>
    BY DEF tables, saleTables, documents, stockTables
  <1>. QED
    BY <1>1, <1>2, <1>3, <1>4, <1>5, <1>6, CreateMoves DEF Command

\* Stock leaves once for a sold pair and returns once when, and only when,
\* the sale is cancelled or voided.
THEOREM SerialStockMovesOnce == Serial => []StockMovesOnce
  <1>1. Initially => StockMovesOnce
    BY SaleConstants DEF Initially, StockMovesOnce, MovesOf, Exists
  <1>. QED BY <1>1, MovesStep, SerialTypeOK, SerialCoherent, PTL DEF Serial

\* Stock is accounted for, one pair and one sale at a time.
THEOREM SerialStockAccounted == Serial => []StockAccounted
  <1>1. LedgerExplainsStock /\ StockMovesOnce => StockAccounted
    BY DEF StockAccounted
  <1>. QED BY <1>1, SerialLedgerExplainsStock, SerialStockMovesOnce, PTL

-----------------------------------------------------------------------------
(* Closed days.                                                            *)

LEMMA ClosingStep ==
  TypeOK /\ Coherent /\ ClosingNeverOverstates /\ [Command]_tables
    => ClosingNeverOverstates'
  <1>. SUFFICES ASSUME TypeOK, Coherent, ClosingNeverOverstates, [Command]_tables,
                       NEW d \in Day, closing'[d] # None
                PROVE  /\ counted'[d] \subseteq Completed(d)'
                       /\ counted'[d] \cap pending'[d] = {}
    BY DEF ClosingNeverOverstates
  <1>. USE DEF Completed, SalesOn, Exists, BusinessDate
  <1>0. ASSUME UNCHANGED closingTables
        PROVE  /\ counted[d] \subseteq Completed(d)
               /\ counted'[d] = counted[d] /\ pending'[d] = pending[d]
               /\ counted[d] \cap pending[d] = {}
    BY <1>0 DEF ClosingNeverOverstates, closingTables
  <1>1. ASSUME NEW k \in Key, NEW r \in Request, NEW s \in Sale, Create(k, r, s)
        PROVE  Completed(d) \subseteq Completed(d)'
    BY <1>1 DEF Create, InsertSale, TypeOK
  <1>2. ASSUME NEW k \in Key, NEW s \in Sale, Confirm(k, s)
        PROVE  Completed(d) \subseteq Completed(d)'
    BY <1>2 DEF Confirm, InsertConfirmation, TypeOK
  <1>3. ASSUME NEW k \in Key, NEW s \in Sale, Cancel(k, s)
        PROVE  Completed(d) \subseteq Completed(d)'
    BY <1>3 DEF Cancel, Cancellable, InsertCancellation, TypeOK
  <1>4. ASSUME NEW k \in Key, NEW s \in Sale, NEW t \in Sale, VoidDuplicate(k, s, t)
        PROVE  Completed(d) \subseteq Completed(d)'
    <2>1. closing[BusinessDate(s)] = None /\ closing' = closing
      BY <1>4 DEF VoidDuplicate, InsertCorrection, closingTables
    <2>2. s \notin Completed(d)
      BY <2>1
    <2>3. \A x \in Sale \ {s} : status'[x] = status[x]
      BY <1>4 DEF VoidDuplicate, InsertCorrection, TypeOK
    <2>4. order' = order
      BY <1>4 DEF VoidDuplicate, InsertCorrection
    <2>. QED BY <2>2, <2>3, <2>4
  <1>5. ASSUME NEW k \in Key, NEW s \in Sale, RecordPayment(k, s)
        PROVE  Completed(d) \subseteq Completed(d)'
    BY <1>5 DEF RecordPayment, InsertPayment
  <1>6. ASSUME NEW k \in Key, NEW e \in Day, CreateClosing(k, e)
        PROVE  /\ counted'[d] \subseteq Completed(d)'
               /\ counted'[d] \cap pending'[d] = {}
    <2>1. PICK summed \in SUBSET Completed(e), transit \in SUBSET SalesOn(e) :
            summed \cap transit = {} /\ InsertClosing(k, e, summed, transit)
      BY <1>6 DEF CreateClosing
    <2>2. Completed(d)' = Completed(d)
      BY <2>1 DEF InsertClosing, saleTables
    <2>3. CASE d = e
      BY <2>1, <2>2, <2>3 DEF InsertClosing, TypeOK
    <2>4. CASE d # e
      BY <2>1, <2>2, <2>4 DEF InsertClosing, TypeOK, ClosingNeverOverstates
    <2>. QED BY <2>3, <2>4
  <1>7. ASSUME NEW k \in Key, NEW e \in Day, Reopen(k, e)
        PROVE  /\ counted'[d] \subseteq Completed(d)'
               /\ counted'[d] \cap pending'[d] = {}
    <2>1. closing[d] # None /\ UNCHANGED <<order, status, counted, pending>>
      BY <1>7, SaleConstants DEF Reopen, InsertReopening, TypeOK, saleTables
    <2>. QED BY <2>1 DEF ClosingNeverOverstates
  <1>8. UNCHANGED tables => UNCHANGED closingTables /\ UNCHANGED <<order, status>>
    BY DEF tables, saleTables
  <1>9. ASSUME NEW k \in Key, NEW r \in Request, NEW s \in Sale, NEW t \in Sale,
               \/ Create(k, r, s) \/ RecordPayment(k, s) \/ Confirm(k, s)
               \/ Cancel(k, s) \/ VoidDuplicate(k, s, t)
        PROVE  UNCHANGED closingTables
    BY <1>9
    DEF Create, RecordPayment, Confirm, Cancel, VoidDuplicate, InsertSale,
        InsertPayment, InsertConfirmation, InsertCancellation, InsertCorrection
  <1>. QED
    <2>1. CASE UNCHANGED tables
      BY <2>1, <1>0, <1>8
    <2>2. CASE \E k \in Key, r \in Request, s \in Sale : Create(k, r, s)
      BY <2>2, <1>0, <1>1, <1>9
    <2>3. CASE \E k \in Key, s \in Sale :
                 RecordPayment(k, s) \/ Confirm(k, s) \/ Cancel(k, s)
      BY <2>3, <1>0, <1>2, <1>3, <1>5
      DEF RecordPayment, Confirm, Cancel, InsertPayment, InsertConfirmation,
          InsertCancellation
    <2>4. CASE \E k \in Key, s \in Sale, t \in Sale : VoidDuplicate(k, s, t)
      BY <2>4, <1>0, <1>4 DEF VoidDuplicate, InsertCorrection
    <2>. QED BY <2>1, <2>2, <2>3, <2>4, <1>6, <1>7 DEF Command

\* The figures of a closing stay a lower bound of the day's sales for ever.
THEOREM SerialClosingNeverOverstates == Serial => []ClosingNeverOverstates
  <1>1. Initially => ClosingNeverOverstates
    BY DEF Initially, ClosingNeverOverstates
  <1>. QED BY <1>1, ClosingStep, SerialTypeOK, SerialCoherent, PTL DEF Serial

-----------------------------------------------------------------------------
(* What a step may never do.                                               *)

LEMMA LifecycleStep == TypeOK /\ Coherent /\ [Command]_tables => Lifecycle
  <1>. SUFFICES ASSUME TypeOK, Coherent, [Command]_tables PROVE Lifecycle
    OBVIOUS
  <1>. USE DEF TypeOK, Exists
  <1>1. ASSUME NEW k \in Key, NEW r \in Request, NEW s \in Sale, Create(k, r, s)
        PROVE  Lifecycle
    <2>1. /\ InitialStatus[r] \in {"IN_TRANSIT", "COMPLETED"}
          /\ order[s] = None /\ status[s] = None
      BY <1>1, SaleConstants DEF Create, Coherent, OwnRows
    <2>2. /\ order' = [order EXCEPT ![s] = r]
          /\ status' = [status EXCEPT ![s] = InitialStatus[r]]
          /\ paid' = [paid EXCEPT ![s] = "PENDING"]
      BY <1>1 DEF Create, InsertSale
    <2>3. /\ order'[s] = r /\ status'[s] = InitialStatus[r]
          /\ paid'[s] = "PENDING"
      BY <2>2
    <2>4. ASSUME NEW x \in Sale, x # s
          PROVE  UNCHANGED <<order[x], status[x], paid[x]>>
      BY <2>2, <2>4
    <2>5. status[s] # status'[s]
      BY <2>1, <2>3, SaleConstants
    <2>. QED BY <2>1, <2>3, <2>4, <2>5 DEF Lifecycle
  <1>2. ASSUME NEW k \in Key, NEW s \in Sale, RecordPayment(k, s)
        PROVE  Lifecycle
    BY <1>2, SaleConstants DEF RecordPayment, Payable, InsertPayment, Lifecycle
  <1>3. ASSUME NEW k \in Key, NEW s \in Sale, Confirm(k, s)
        PROVE  Lifecycle
    BY <1>3, SaleConstants DEF Confirm, Confirmable, InsertConfirmation, Lifecycle
  <1>4. ASSUME NEW k \in Key, NEW s \in Sale, Cancel(k, s)
        PROVE  Lifecycle
    <2>1. status[s] = "IN_TRANSIT" /\ paid[s] = "PENDING" /\ replacement[s] = None
      BY <1>4 DEF Cancel, Cancellable, Coherent, OwnRows
    <2>. QED BY <1>4, <2>1, SaleConstants DEF Cancel, InsertCancellation, Lifecycle
  <1>5. ASSUME NEW k \in Key, NEW s \in Sale, NEW t \in Sale, VoidDuplicate(k, s, t)
        PROVE  Lifecycle
    <2>1. /\ s # t /\ t # None /\ order' = order
          /\ status[s] = "COMPLETED" /\ paid[s] = "PAID"
          /\ status[t] = "COMPLETED" /\ paid[t] = "PENDING"
          /\ status' = [status EXCEPT ![s] = "CANCELLED"]
          /\ paid' = [paid EXCEPT ![t] = "PAID"]
          /\ replacement'[s] = t
      BY <1>5, SaleConstants DEF VoidDuplicate, Voidable, InsertCorrection
    <2>2. ASSUME NEW x \in Sale, x # s
          PROVE  status'[x] = status[x]
      BY <2>1, <2>2
    <2>. QED BY <2>1, <2>2 DEF Lifecycle
  <1>6. CASE UNCHANGED saleTables
    BY <1>6 DEF saleTables, Lifecycle
  <1>7. ASSUME NEW k \in Key, NEW d \in Day, CreateClosing(k, d) \/ Reopen(k, d)
        PROVE  UNCHANGED saleTables
    BY <1>7 DEF CreateClosing, Reopen, InsertClosing, InsertReopening
  <1>8. UNCHANGED tables => UNCHANGED saleTables
    BY DEF tables
  <1>. QED
    BY <1>1, <1>2, <1>3, <1>4, <1>5, <1>6, <1>7, <1>8 DEF Command

\* No command moves a sale outside the transitions of guard_sale_write.
THEOREM SerialLifecycleRespected == Serial => LifecycleRespected
  BY LifecycleStep, SerialTypeOK, SerialCoherent, PTL DEF Serial, LifecycleRespected

LEMMA ClosedDayStep == TypeOK /\ [Command]_tables => ClosedDay
  <1>. SUFFICES ASSUME TypeOK, [Command]_tables, NEW d \in Day, closing[d] # None
                PROVE  /\ closing'[d] # None
                       /\ counted'[d] = counted[d] /\ pending'[d] = pending[d]
                       /\ \A s \in SalesOn(d) : replacement'[s] = replacement[s]
    BY DEF ClosedDay
  <1>. USE DEF TypeOK
  <1>1. CASE UNCHANGED <<closingTables, replacement>>
    BY <1>1 DEF closingTables
  <1>2. ASSUME NEW k \in Key, NEW r \in Request, NEW s \in Sale, Create(k, r, s)
        PROVE  UNCHANGED <<closingTables, replacement>>
    BY <1>2 DEF Create, InsertSale, documents
  <1>3. ASSUME NEW k \in Key, NEW s \in Sale, NEW t \in Sale, VoidDuplicate(k, s, t)
        PROVE  /\ UNCHANGED closingTables
               /\ \A x \in SalesOn(d) : replacement'[x] = replacement[x]
    <2>1. closing[BusinessDate(s)] = None
      BY <1>3 DEF VoidDuplicate
    <2>2. s \notin SalesOn(d)
      BY <2>1 DEF SalesOn
    <2>. QED BY <1>3, <2>2 DEF VoidDuplicate, InsertCorrection, SalesOn
  <1>4. ASSUME NEW k \in Key, NEW e \in Day, CreateClosing(k, e) \/ Reopen(k, e)
        PROVE  /\ closing'[d] # None
               /\ counted'[d] = counted[d] /\ pending'[d] = pending[d]
               /\ replacement' = replacement
    <2>1. CASE CreateClosing(k, e)
      <3>1. d # e
        BY <2>1 DEF CreateClosing
      <3>. QED BY <2>1, <3>1 DEF CreateClosing, InsertClosing, documents
    <2>2. CASE Reopen(k, e)
      BY <2>2, SaleConstants DEF Reopen, InsertReopening, documents
    <2>. QED BY <1>4, <2>1, <2>2
  <1>5. UNCHANGED tables => UNCHANGED <<closingTables, replacement>>
    BY DEF tables, documents
  <1>6. ASSUME NEW k \in Key, NEW s \in Sale,
               RecordPayment(k, s) \/ Confirm(k, s) \/ Cancel(k, s)
        PROVE  UNCHANGED <<closingTables, replacement>>
    BY <1>6
    DEF RecordPayment, Confirm, Cancel, InsertPayment,
        InsertConfirmation, InsertCancellation
  <1>. QED
    BY <1>1, <1>2, <1>3, <1>4, <1>5, <1>6 DEF Command, closingTables

\* Once a day has a closing its figures and its corrections are frozen.
THEOREM SerialClosedDayFrozen == Serial => ClosedDayFrozen
  BY ClosedDayStep, SerialTypeOK, PTL DEF Serial, ClosedDayFrozen

-----------------------------------------------------------------------------
(* Commands and their locks.                                               *)

LEMMA CommandType ==
  ASSUME NEW c \in Commands
  PROVE  /\ c.op \in {"create", "pay", "confirm", "cancel", "void", "close", "reopen"}
         /\ c.key \in Key
         /\ c.op = "create" => c.req \in Request
         /\ c.op \in SaleOp \cup {"void"} => c.sale \in Sale
         /\ c.op = "void" => c.other \in Sale
         /\ c.op \in DayOp => c.day \in Day
  <1>1. CASE \E k \in Key, r \in Request : c = NewSale(k, r)
    BY <1>1 DEF NewSale, SaleOp, DayOp
  <1>2. CASE \E op \in SaleOp, k \in Key, s \in Sale : c = OnSale(op, k, s)
    BY <1>2 DEF OnSale, SaleOp, DayOp
  <1>3. CASE \E k \in Key, s \in Sale, x \in Sale : c = Duplicate(k, s, x)
    BY <1>3 DEF Duplicate, SaleOp, DayOp
  <1>4. CASE \E op \in DayOp, k \in Key, d \in Day : c = OnDay(op, k, d)
    BY <1>4 DEF OnDay, SaleOp, DayOp
  <1>. QED BY <1>1, <1>2, <1>3, <1>4 DEF Commands

\* Commands of one scope with the same key share their advisory lock.
LEMMA SameKeyLock ==
  ASSUME NEW c, NEW d, Scope(c) = Scope(d), c.key = d.key
  PROVE  KeyLock(c) = KeyLock(d)
  BY DEF KeyLock

\* A command under way that passed its checks, and what it holds.
LEMMA Under ==
  ASSUME ControlOK, ChecksSurvive, NEW t \in Txn, pc[t] # "idle"
  PROVE  /\ cmd[t] \in Commands
         /\ pc[t] \in PhasesOf(cmd[t].op)
         /\ KeepsLocks(t)
         /\ ChecksHold(t)
         /\ seen[t] \in [DOMAIN Opening -> Nat]
         /\ sums[t] \in (SUBSET Sale) \X (SUBSET Sale)
  BY DEF ControlOK, ChecksSurvive

-----------------------------------------------------------------------------
(* A step of transaction t disturbs no row, day or key that t has not      *)
(* locked, except by adding sales and documents of its own.                *)

RowsKept(t) ==
  /\ \A s \in Sale : Exists(s) => order'[s] = order[s]
  /\ \A s \in Sale : Exists(s) /\ SaleLock(s) \notin held[t] =>
       /\ status'[s] = status[s] /\ paid'[s] = paid[s]
       /\ receipt'[s] = receipt[s] /\ confirmation'[s] = confirmation[s]
       /\ cancellation'[s] = cancellation[s]
       /\ ~ReceivedCorrection(s) => ~ReceivedCorrection(s)'

DaysKept(t) ==
  \A d \in Day :
    /\ closing[d] = None /\ DayLock(d) \notin held[t] => closing'[d] = None
    /\ closing[d] = "CLOSED" /\ ClosingLock(d) \notin held[t] =>
         closing'[d] = "CLOSED"
    /\ DayLock(d) \notin held[t] => Completed(d) \subseteq Completed(d)'

StockKept(t) ==
  /\ DOMAIN stock' = DOMAIN stock
  /\ \A p \in DOMAIN stock : StockLock(p) \notin held[t] => stock'[p] = stock[p]

KeysKept(t) ==
  \A c \in Commands :
    KeyLock(c) \notin held[t] /\ Unclaimed(Claims(c), c.key)
      => Unclaimed(Claims(c)', c.key)

Respects(t) == RowsKept(t) /\ DaysKept(t) /\ StockKept(t) /\ KeysKept(t)

LEMMA ReadingRespects ==
  ASSUME NEW t \in Txn, UNCHANGED tables
  PROVE  Respects(t)
  <1>1. RowsKept(t)
    BY DEF RowsKept, tables, saleTables, documents, ReceivedCorrection
  <1>2. DaysKept(t)
    BY DEF DaysKept, tables, saleTables, closingTables, Completed, SalesOn,
           Exists, BusinessDate
  <1>3. StockKept(t)
    BY DEF StockKept, tables, stockTables
  <1>4. KeysKept(t)
    <2>. SUFFICES ASSUME NEW c \in Commands PROVE Claims(c)' = Claims(c)
      BY DEF KeysKept
    <2>. QED
      BY DEF Claims, tables, saleTables, documents, closingTables
  <1>. QED BY <1>1, <1>2, <1>3, <1>4 DEF Respects

\* Command c adds a document to a claim table only under its own key, and
\* only to the table of its scope.
ClaimsOnly(c, scope, before, after) ==
  \A k : Unclaimed(before, k) /\ (Scope(c) # scope \/ k # c.key) => Unclaimed(after, k)

LEMMA Claiming ==
  ASSUME NEW S, NEW before, DOMAIN before = S, NEW x \in S, NEW c, NEW scope
  PROVE  ClaimsOnly(c, scope, before, [before EXCEPT ![x] = c.key])
           \/ Scope(c) # scope
  BY DEF ClaimsOnly, Unclaimed

LEMMA NotClaiming ==
  ASSUME NEW before, NEW c, NEW scope
  PROVE  ClaimsOnly(c, scope, before, before)
  BY DEF ClaimsOnly

LEMMA OwnKeyOnly ==
  ASSUME NEW t \in Txn, KeyLock(cmd[t]) \in held[t],
         ClaimsOnly(cmd[t], "create", createdBy, createdBy'),
         ClaimsOnly(cmd[t], "pay", receipt, receipt'),
         ClaimsOnly(cmd[t], "confirm", confirmation, confirmation'),
         ClaimsOnly(cmd[t], "cancel", cancellation, cancellation'),
         ClaimsOnly(cmd[t], "close", closedBy, closedBy'),
         ClaimsOnly(cmd[t], "reopen", reopenedBy, reopenedBy')
  PROVE  KeysKept(t)
  <1>. SUFFICES ASSUME NEW d \in Commands, KeyLock(d) \notin held[t],
                       Unclaimed(Claims(d), d.key)
                PROVE  Unclaimed(Claims(d)', d.key)
    BY DEF KeysKept
  <1>1. Scope(cmd[t]) # Scope(d) \/ d.key # cmd[t].key
    BY SameKeyLock
  <1>2. CASE d.op = "create"
    BY <1>1, <1>2 DEF Claims, Scope, ClaimsOnly
  <1>3. CASE d.op = "pay"
    BY <1>1, <1>3 DEF Claims, Scope, ClaimsOnly
  <1>4. CASE d.op = "confirm"
    BY <1>1, <1>4 DEF Claims, Scope, ClaimsOnly
  <1>5. CASE d.op \in {"cancel", "void"}
    BY <1>1, <1>5 DEF Claims, Scope, ClaimsOnly
  <1>6. CASE d.op = "close"
    BY <1>1, <1>6 DEF Claims, Scope, ClaimsOnly
  <1>7. CASE d.op = "reopen"
    BY <1>1, <1>7 DEF Claims, Scope, ClaimsOnly
  <1>. QED BY <1>2, <1>3, <1>4, <1>5, <1>6, <1>7, CommandType

LEMMA CreateRespects ==
  ASSUME TypeOK, ControlOK, ChecksSurvive, NEW t \in Txn, NEW s \in Sale,
         CommitCreate(t, s)
  PROVE  Respects(t)
  <1>. DEFINE c == cmd[t]
  <1>0. /\ pc[t] = "stocked" /\ c.op = "create" /\ ~Exists(s)
        /\ InsertSale(c.key, c.req, s, seen[t])
    BY DEF CommitCreate
  <1>1. /\ c \in Commands /\ c.key \in Key /\ c.req \in Request
        /\ KeepsLocks(t)
    BY <1>0, Under, CommandType
  <1>2. RowsKept(t)
    BY <1>0 DEF InsertSale, RowsKept, documents, Exists, ReceivedCorrection, TypeOK
  <1>3. DaysKept(t)
    BY <1>0 DEF InsertSale, DaysKept, closingTables, Completed, SalesOn,
                Exists, BusinessDate, TypeOK
  <1>4. StockKept(t)
    <2>1. \A p \in PairsOf(c.req) : StockLock(p) \in held[t]
      BY <1>0, <1>1 DEF KeepsLocks, PairsMoved
    <2>. QED
      BY <1>0, <2>1 DEF InsertSale, Sell, Post, StockKept, TypeOK
  <1>5. KeysKept(t)
    <2>1. createdBy' = [createdBy EXCEPT ![s] = c.key] /\ DOMAIN createdBy = Sale
      BY <1>0 DEF InsertSale, TypeOK
    <2>2. UNCHANGED <<receipt, confirmation, cancellation, closedBy, reopenedBy>>
      BY <1>0 DEF InsertSale, documents, closingTables
    <2>3. ClaimsOnly(c, "create", createdBy, createdBy')
      BY <1>0, <2>1, Claiming DEF Scope
    <2>. QED BY <1>1, <2>2, <2>3, NotClaiming, OwnKeyOnly DEF KeepsLocks
  <1>. QED BY <1>2, <1>3, <1>4, <1>5 DEF Respects

LEMMA PaymentRespects ==
  ASSUME TypeOK, ControlOK, ChecksSurvive, NEW t \in Txn, CommitPayment(t)
  PROVE  Respects(t)
  <1>. DEFINE c == cmd[t]
  <1>0. /\ pc[t] = "checked" /\ c.op = "pay" /\ InsertPayment(c.key, c.sale)
    BY DEF CommitPayment
  <1>1. /\ c.key \in Key /\ c.sale \in Sale /\ KeepsLocks(t)
        /\ SaleLock(c.sale) \in held[t] /\ KeyLock(c) \in held[t]
    BY <1>0, Under, CommandType DEF KeepsLocks, PastSales, SalesOf, SaleOp
  <1>2. RowsKept(t)
    BY <1>0, <1>1 DEF InsertPayment, RowsKept, Exists, ReceivedCorrection, TypeOK
  <1>3. DaysKept(t)
    BY <1>0 DEF InsertPayment, DaysKept, closingTables, Completed, SalesOn,
                Exists, BusinessDate
  <1>4. StockKept(t)
    BY <1>0 DEF InsertPayment, StockKept, stockTables
  <1>5. KeysKept(t)
    <2>1. receipt' = [receipt EXCEPT ![c.sale] = c.key] /\ DOMAIN receipt = Sale
      BY <1>0 DEF InsertPayment, TypeOK
    <2>2. UNCHANGED <<createdBy, confirmation, cancellation, closedBy, reopenedBy>>
      BY <1>0 DEF InsertPayment, closingTables
    <2>3. ClaimsOnly(c, "pay", receipt, receipt')
      BY <1>0, <1>1, <2>1, Claiming DEF Scope
    <2>. QED BY <1>1, <2>2, <2>3, NotClaiming, OwnKeyOnly
  <1>. QED BY <1>2, <1>3, <1>4, <1>5 DEF Respects

LEMMA ConfirmationRespects ==
  ASSUME TypeOK, ControlOK, ChecksSurvive, NEW t \in Txn, CommitConfirmation(t)
  PROVE  Respects(t)
  <1>. DEFINE c == cmd[t]
  <1>0. /\ pc[t] = "checked" /\ c.op = "confirm"
        /\ InsertConfirmation(c.key, c.sale)
    BY DEF CommitConfirmation
  <1>1. /\ c.key \in Key /\ c.sale \in Sale /\ KeepsLocks(t)
        /\ SaleLock(c.sale) \in held[t] /\ KeyLock(c) \in held[t]
    BY <1>0, Under, CommandType DEF KeepsLocks, PastSales, SalesOf, SaleOp
  <1>2. RowsKept(t)
    BY <1>0, <1>1
    DEF InsertConfirmation, RowsKept, Exists, ReceivedCorrection, TypeOK
  <1>3. DaysKept(t)
    BY <1>0 DEF InsertConfirmation, DaysKept, closingTables, Completed, SalesOn,
                Exists, BusinessDate, TypeOK
  <1>4. StockKept(t)
    BY <1>0 DEF InsertConfirmation, StockKept, stockTables
  <1>5. KeysKept(t)
    <2>1. /\ confirmation' = [confirmation EXCEPT ![c.sale] = c.key]
          /\ DOMAIN confirmation = Sale
      BY <1>0 DEF InsertConfirmation, TypeOK
    <2>2. UNCHANGED <<createdBy, receipt, cancellation, closedBy, reopenedBy>>
      BY <1>0 DEF InsertConfirmation, closingTables
    <2>3. ClaimsOnly(c, "confirm", confirmation, confirmation')
      BY <1>0, <1>1, <2>1, Claiming DEF Scope
    <2>. QED BY <1>1, <2>2, <2>3, NotClaiming, OwnKeyOnly
  <1>. QED BY <1>2, <1>3, <1>4, <1>5 DEF Respects

\* Restoring stock touches the balances of the sale only.
LEMMA RestoreKeeps ==
  ASSUME TypeOK, NEW t \in Txn, NEW s \in Sale, Restore(s, seen[t]),
         \A p \in PairsOf(order[s]) : StockLock(p) \in held[t]
  PROVE  StockKept(t)
  BY DEF Restore, Post, StockKept, TypeOK

LEMMA CancellationRespects ==
  ASSUME TypeOK, ControlOK, ChecksSurvive, NEW t \in Txn, CommitCancellation(t)
  PROVE  Respects(t)
  <1>. DEFINE c == cmd[t]
  <1>0. /\ pc[t] = "stocked" /\ c.op = "cancel"
        /\ InsertCancellation(c.key, c.sale, seen[t])
    BY DEF CommitCancellation
  <1>1. /\ c.key \in Key /\ c.sale \in Sale /\ KeepsLocks(t)
        /\ SaleLock(c.sale) \in held[t] /\ KeyLock(c) \in held[t]
        /\ \A p \in PairsOf(order[c.sale]) : StockLock(p) \in held[t]
        /\ Cancellable(c.sale)
    BY <1>0, Under, CommandType
    DEF KeepsLocks, ChecksHold, Accepted, PastSales, SalesOf, SaleOp, PairsMoved
  <1>2. RowsKept(t)
    BY <1>0, <1>1
    DEF InsertCancellation, RowsKept, Exists, ReceivedCorrection, TypeOK
  <1>3. DaysKept(t)
    BY <1>0, <1>1
    DEF InsertCancellation, DaysKept, closingTables, Completed, SalesOn,
        Exists, BusinessDate, TypeOK, Cancellable
  <1>4. StockKept(t)
    BY <1>0, <1>1, RestoreKeeps DEF InsertCancellation
  <1>5. KeysKept(t)
    <2>1. /\ cancellation' = [cancellation EXCEPT ![c.sale] = c.key]
          /\ DOMAIN cancellation = Sale
      BY <1>0 DEF InsertCancellation, TypeOK
    <2>2. UNCHANGED <<createdBy, receipt, confirmation, closedBy, reopenedBy>>
      BY <1>0 DEF InsertCancellation, closingTables
    <2>3. ClaimsOnly(c, "cancel", cancellation, cancellation')
      BY <1>0, <1>1, <2>1, Claiming DEF Scope
    <2>. QED BY <1>1, <2>2, <2>3, NotClaiming, OwnKeyOnly
  <1>. QED BY <1>2, <1>3, <1>4, <1>5 DEF Respects

LEMMA CorrectionRespects ==
  ASSUME TypeOK, ControlOK, ChecksSurvive, NEW t \in Txn, CommitCorrection(t)
  PROVE  Respects(t)
  <1>. DEFINE c == cmd[t]
  <1>0. /\ pc[t] = "stocked" /\ c.op = "void"
        /\ InsertCorrection(c.key, c.sale, c.other, seen[t])
    BY DEF CommitCorrection
  <1>1. /\ c.key \in Key /\ c.sale \in Sale /\ c.other \in Sale /\ KeepsLocks(t)
        /\ SaleLock(c.sale) \in held[t] /\ SaleLock(c.other) \in held[t]
        /\ KeyLock(c) \in held[t]
        /\ DayLock(BusinessDate(c.sale)) \in held[t]
        /\ \A p \in PairsOf(order[c.sale]) : StockLock(p) \in held[t]
    BY <1>0, Under, CommandType
    DEF KeepsLocks, PastSales, PastDay, DayLocked, SalesOf, SaleOp, PairsMoved
  <1>2. RowsKept(t)
    BY <1>0, <1>1
    DEF InsertCorrection, RowsKept, Exists, ReceivedCorrection, TypeOK
  <1>3. DaysKept(t)
    BY <1>0, <1>1
    DEF InsertCorrection, DaysKept, closingTables, Completed, SalesOn,
        Exists, BusinessDate, TypeOK
  <1>4. StockKept(t)
    BY <1>0, <1>1, RestoreKeeps DEF InsertCorrection
  <1>5. KeysKept(t)
    <2>1. /\ cancellation' = [cancellation EXCEPT ![c.sale] = c.key]
          /\ DOMAIN cancellation = Sale
      BY <1>0 DEF InsertCorrection, TypeOK
    <2>2. UNCHANGED <<createdBy, receipt, confirmation, closedBy, reopenedBy>>
      BY <1>0 DEF InsertCorrection, closingTables
    <2>3. ClaimsOnly(c, "cancel", cancellation, cancellation')
      BY <1>0, <1>1, <2>1, Claiming DEF Scope
    <2>. QED BY <1>1, <2>2, <2>3, NotClaiming, OwnKeyOnly
  <1>. QED BY <1>2, <1>3, <1>4, <1>5 DEF Respects

LEMMA ClosingRespects ==
  ASSUME TypeOK, ControlOK, ChecksSurvive, NEW t \in Txn, CommitClosing(t)
  PROVE  Respects(t)
  <1>. DEFINE c == cmd[t]
  <1>0. /\ pc[t] = "summed" /\ c.op = "close"
        /\ InsertClosing(c.key, c.day, sums[t][1], sums[t][2])
    BY DEF CommitClosing
  <1>1. /\ c.key \in Key /\ c.day \in Day /\ KeepsLocks(t)
        /\ DayLock(c.day) \in held[t] /\ KeyLock(c) \in held[t]
    BY <1>0, Under, CommandType DEF KeepsLocks, PastDay, DayLocked, DayOp
  <1>2. RowsKept(t)
    BY <1>0 DEF InsertClosing, RowsKept, saleTables, documents, ReceivedCorrection
  <1>3. DaysKept(t)
    BY <1>0, <1>1 DEF InsertClosing, DaysKept, saleTables, documents, Completed,
                      SalesOn, Exists, BusinessDate, TypeOK
  <1>4. StockKept(t)
    BY <1>0 DEF InsertClosing, StockKept, stockTables
  <1>5. KeysKept(t)
    <2>1. closedBy' = [closedBy EXCEPT ![c.day] = c.key] /\ DOMAIN closedBy = Day
      BY <1>0 DEF InsertClosing, TypeOK
    <2>2. UNCHANGED <<createdBy, receipt, confirmation, cancellation, reopenedBy>>
      BY <1>0 DEF InsertClosing, saleTables, documents
    <2>3. ClaimsOnly(c, "close", closedBy, closedBy')
      BY <1>0, <1>1, <2>1, Claiming DEF Scope
    <2>. QED BY <1>1, <2>2, <2>3, NotClaiming, OwnKeyOnly
  <1>. QED BY <1>2, <1>3, <1>4, <1>5 DEF Respects

LEMMA ReopeningRespects ==
  ASSUME TypeOK, ControlOK, ChecksSurvive, NEW t \in Txn, CommitReopening(t)
  PROVE  Respects(t)
  <1>. DEFINE c == cmd[t]
  <1>0. /\ pc[t] = "checked" /\ c.op = "reopen" /\ InsertReopening(c.key, c.day)
    BY DEF CommitReopening
  <1>1. /\ c.key \in Key /\ c.day \in Day /\ KeepsLocks(t) /\ ChecksHold(t)
        /\ ClosingLock(c.day) \in held[t] /\ KeyLock(c) \in held[t]
    BY <1>0, Under, CommandType DEF KeepsLocks, PastClosing, DayOp
  <1>2. RowsKept(t)
    BY <1>0 DEF InsertReopening, RowsKept, saleTables, documents, ReceivedCorrection
  <1>3. DaysKept(t)
    <2>1. closing[c.day] = "CLOSED" /\ "CLOSED" # None
      BY <1>0, <1>1, SaleConstants DEF ChecksHold, PastClosing
    <2>. QED
      BY <1>0, <1>1, <2>1
      DEF InsertReopening, DaysKept, saleTables, documents, Completed,
          SalesOn, Exists, BusinessDate, TypeOK
  <1>4. StockKept(t)
    BY <1>0 DEF InsertReopening, StockKept, stockTables
  <1>5. KeysKept(t)
    <2>1. reopenedBy' = [reopenedBy EXCEPT ![c.day] = c.key] /\ DOMAIN reopenedBy = Day
      BY <1>0 DEF InsertReopening, TypeOK
    <2>2. UNCHANGED <<createdBy, receipt, confirmation, cancellation, closedBy>>
      BY <1>0 DEF InsertReopening, saleTables, documents
    <2>3. ClaimsOnly(c, "reopen", reopenedBy, reopenedBy')
      BY <1>0, <1>1, <2>1, Claiming DEF Scope
    <2>. QED BY <1>1, <2>2, <2>3, NotClaiming, OwnKeyOnly
  <1>. QED BY <1>2, <1>3, <1>4, <1>5 DEF Respects

-----------------------------------------------------------------------------
(* What a transaction checked is not disturbed by the others.              *)

\* The control of u does not change.
Waits(u) ==
  /\ pc'[u] = pc[u] /\ cmd'[u] = cmd[u] /\ held'[u] = held[u]
  /\ seen'[u] = seen[u] /\ sums'[u] = sums[u]

LEMMA AcceptedExists ==
  ASSUME NEW c, Accepted(c)
  PROVE  \A s \in SalesOf(c) : Exists(s)
  BY DEF Accepted, SalesOf, Payable, Confirmable, Cancellable, Voidable

LEMMA AcceptedKept ==
  ASSUME NEW t \in Txn, RowsKept(t), NEW c \in Commands,
         c.op \in SaleOp \cup {"void"}, Accepted(c),
         \A s \in SalesOf(c) : SaleLock(s) \notin held[t]
  PROVE  /\ Accepted(c)'
         /\ \A s \in SalesOf(c) : order'[s] = order[s]
  <1>1. SalesOf(c) \subseteq Sale
    BY CommandType DEF SalesOf
  <1>2. \A s \in SalesOf(c) : Exists(s)
    BY AcceptedExists
  <1>3. \A s \in SalesOf(c) :
          /\ order'[s] = order[s] /\ Exists(s)'
          /\ status'[s] = status[s] /\ paid'[s] = paid[s]
          /\ receipt'[s] = receipt[s] /\ confirmation'[s] = confirmation[s]
          /\ cancellation'[s] = cancellation[s]
          /\ ~ReceivedCorrection(s) => ~ReceivedCorrection(s)'
    BY <1>1, <1>2 DEF RowsKept, Exists
  <1>4. CASE c.op \in SaleOp
    BY <1>3, <1>4 DEF SaleOp, SalesOf, Accepted, Payable, Confirmable, Cancellable
  <1>5. CASE c.op = "void"
    BY <1>3, <1>5 DEF SaleOp, SalesOf, Accepted, Voidable, BusinessDate
  <1>. QED BY <1>3, <1>4, <1>5

LEMMA OthersKeep ==
  ASSUME TypeOK, ControlOK, ChecksSurvive, NEW t \in Txn, NEW u \in Txn \ {t},
         Respects(t), Waits(u), pc[u] # "idle"
  PROVE  KeepsLocks(u)' /\ ChecksHold(u)'
  <1>0. PICK c \in Commands : cmd[u] = c
    BY Under
  <1>1. /\ pc[u] \in PhasesOf(c.op)
        /\ KeepsLocks(u) /\ ChecksHold(u)
        /\ cmd'[u] = c
    BY <1>0, Under DEF Waits
  <1>2. held[t] \cap held[u] = {}
    BY DEF ChecksSurvive, Exclusive
  <1>3. /\ PastSales(u)' = PastSales(u) /\ PastDay(u)' = PastDay(u)
        /\ PastClosing(u)' = PastClosing(u) /\ KeyLock(cmd[u])' = KeyLock(c)
    BY <1>0, <1>1 DEF Waits, PastSales, PastDay, PastClosing, KeyLock, Scope
  <1>4. Unclaimed(Claims(cmd[u]), cmd[u].key)'
    <2>1. KeyLock(c) \notin held[t] /\ Unclaimed(Claims(c), c.key)
      BY <1>0, <1>1, <1>2 DEF KeepsLocks, ChecksHold
    <2>2. Unclaimed(Claims(c)', c.key)
      BY <1>1, <2>1 DEF Respects, KeysKept
    <2>. QED BY <1>1, <2>2 DEF Unclaimed, Claims
  <1>5. ASSUME PastSales(u)
        PROVE  Accepted(cmd[u])' /\ \A s \in SalesOf(c) : order'[s] = order[s]
    <2>1. \A s \in SalesOf(c) : SaleLock(s) \notin held[t]
      BY <1>0, <1>1, <1>2, <1>5 DEF KeepsLocks
    <2>2. /\ Accepted(c) /\ c.op \in SaleOp \cup {"void"}
      BY <1>0, <1>1, <1>5 DEF ChecksHold, PastSales
    <2>3. Accepted(c)' /\ \A s \in SalesOf(c) : order'[s] = order[s]
      BY <1>1, <2>1, <2>2, AcceptedKept DEF Respects
    <2>4. Accepted(cmd[u])' = Accepted(c)'
      BY <1>1
    <2>. QED BY <2>3, <2>4
  <1>6. ASSUME PastDay(u)
        PROVE  /\ DayLocked(cmd[u])' = DayLocked(c)
               /\ closing'[DayLocked(c)] = None
    <2>1. DayLock(DayLocked(c)) \notin held[t] /\ closing[DayLocked(c)] = None
      BY <1>0, <1>1, <1>2, <1>6 DEF KeepsLocks, ChecksHold
    <2>2. CASE c.op = "close"
      <3>1. DayLocked(c) = c.day /\ DayLocked(cmd[u])' = c.day /\ c.day \in Day
        BY <1>1, <2>2, CommandType DEF DayLocked, DayOp
      <3>. QED BY <2>1, <3>1 DEF Respects, DaysKept
    <2>3. CASE c.op = "void"
      <3>1. PastSales(u)
        BY <1>0, <1>6, <2>3 DEF PastDay, PastSales
      <3>2. order'[c.sale] = order[c.sale] /\ c.sale \in Sale /\ Exists(c.sale)
        BY <1>0, <1>1, <1>5, <2>3, <3>1, CommandType
        DEF SalesOf, ChecksHold, Accepted, Voidable
      <3>3. DayLocked(c) = BusinessDate(c.sale) /\ DayLocked(c) \in Day
        BY <2>3, <3>2, PairsOfType DEF DayLocked, BusinessDate, TypeOK, NullOr, Exists
      <3>4. DayLocked(cmd[u])' = BusinessDate(c.sale)
        BY <1>1, <2>3, <3>2 DEF DayLocked, BusinessDate
      <3>. QED BY <2>1, <3>3, <3>4 DEF Respects, DaysKept
    <2>. QED BY <1>0, <1>6, <2>2, <2>3 DEF PastDay
  <1>7. ASSUME PastClosing(u)
        PROVE  closing'[c.day] = "CLOSED"
    BY <1>0, <1>1, <1>2, <1>7, CommandType
    DEF PastClosing, KeepsLocks, ChecksHold, Respects, DaysKept, DayOp
  <1>8. ASSUME pc[u] = "summed"
        PROVE  /\ sums[u][1] \subseteq Completed(c.day)'
               /\ sums[u][2] \subseteq SalesOn(c.day)'
               /\ sums[u][1] \cap sums[u][2] = {}
    <2>1. c.op = "close" /\ c.day \in Day
      BY <1>1, <1>8, CommandType DEF PhasesOf, DayOp
    <2>2. /\ sums[u][1] \subseteq Completed(c.day)
          /\ sums[u][2] \subseteq SalesOn(c.day)
          /\ sums[u][1] \cap sums[u][2] = {}
      BY <1>0, <1>1, <1>8 DEF ChecksHold
    <2>3. DayLock(c.day) \notin held[t]
      BY <1>0, <1>1, <1>2, <1>8, <2>1 DEF KeepsLocks, PastDay, DayLocked
    <2>4. Completed(c.day) \subseteq Completed(c.day)'
      BY <2>1, <2>3 DEF Respects, DaysKept
    <2>5. SalesOn(c.day) \subseteq SalesOn(c.day)'
      BY DEF Respects, RowsKept, SalesOn, Exists, BusinessDate
    <2>. QED BY <2>2, <2>4, <2>5
  <1>9. ASSUME pc[u] = "stocked"
        PROVE  /\ PairsMoved(cmd[u])' = PairsMoved(c)
               /\ StockSuffices(cmd[u])'
               /\ \A p \in PairsMoved(c) : stock'[p] = stock[p]
    <2>1. /\ StockSuffices(c)
          /\ \A p \in PairsMoved(c) : StockLock(p) \notin held[t]
      BY <1>0, <1>1, <1>2, <1>9 DEF KeepsLocks, ChecksHold
    <2>2. PairsMoved(c) \subseteq DOMAIN stock
      BY <2>1 DEF StockSuffices, PairsMoved, Creatable, Restorable
    <2>3. /\ DOMAIN stock' = DOMAIN stock
          /\ \A p \in PairsMoved(c) : stock'[p] = stock[p]
      BY <2>1, <2>2 DEF Respects, StockKept
    <2>4. CASE c.op = "create"
      <3>1. PairsMoved(c) = PairsOf(c.req) /\ PairsMoved(cmd[u])' = PairsOf(c.req)
        BY <1>1, <2>4 DEF PairsMoved
      <3>2. Creatable(c.req, stock')
        BY <2>1, <2>3, <2>4, <3>1 DEF StockSuffices, Creatable
      <3>. QED BY <1>1, <2>3, <2>4, <3>1, <3>2 DEF StockSuffices
    <2>5. CASE c.op # "create"
      <3>1. PastSales(u) /\ c.sale \in SalesOf(c)
        BY <1>0, <1>1, <1>9, <2>5, CommandType
        DEF PastSales, SalesOf, PhasesOf, SaleOp
      <3>2. order'[c.sale] = order[c.sale]
        BY <1>5, <3>1
      <3>3. /\ PairsMoved(c) = PairsOf(order[c.sale])
            /\ PairsMoved(cmd[u])' = PairsOf(order[c.sale])
        BY <1>1, <2>5, <3>2 DEF PairsMoved
      <3>4. Restorable(c.sale, stock)'
        BY <2>1, <2>3, <2>5, <3>2 DEF StockSuffices, Restorable
      <3>. QED BY <1>1, <2>3, <2>5, <3>3, <3>4 DEF StockSuffices
    <2>. QED BY <2>4, <2>5
  <1>10. KeepsLocks(u)'
    <2>1. KeyLock(cmd[u])' \in held'[u]
      BY <1>0, <1>1, <1>3 DEF Waits, KeepsLocks
    <2>2. ASSUME PastSales(u)' PROVE \A s \in SalesOf(cmd[u])' : SaleLock(s) \in held'[u]
      BY <1>0, <1>1, <1>3, <2>2 DEF Waits, KeepsLocks, SalesOf
    <2>3. ASSUME PastDay(u)' PROVE DayLock(DayLocked(cmd[u]))' \in held'[u]
      BY <1>0, <1>1, <1>3, <1>6, <2>3 DEF Waits, KeepsLocks, DayLock
    <2>4. ASSUME PastClosing(u)' PROVE ClosingLock(cmd'[u].day) \in held'[u]
      BY <1>0, <1>1, <1>3, <2>4 DEF Waits, KeepsLocks
    <2>5. ASSUME pc'[u] = "stocked"
          PROVE  \A p \in PairsMoved(cmd[u])' : StockLock(p) \in held'[u]
      BY <1>0, <1>1, <1>9, <2>5 DEF Waits, KeepsLocks
    <2>. QED BY <2>1, <2>2, <2>3, <2>4, <2>5 DEF KeepsLocks
  <1>11. ChecksHold(u)'
    <2>1. PastSales(u)' => Accepted(cmd[u])'
      BY <1>3, <1>5
    <2>2. PastDay(u)' => (closing[DayLocked(cmd[u])])' = None
      BY <1>3, <1>6
    <2>3. PastClosing(u)' => closing'[cmd'[u].day] = "CLOSED"
      BY <1>1, <1>3, <1>7
    <2>4. pc'[u] = "summed" =>
            /\ sums'[u][1] \subseteq Completed(cmd[u].day)'
            /\ sums'[u][2] \subseteq SalesOn(cmd[u].day)'
            /\ sums'[u][1] \cap sums'[u][2] = {}
      <3>1. /\ Completed(cmd[u].day)' = Completed(c.day)'
            /\ SalesOn(cmd[u].day)' = SalesOn(c.day)'
        BY <1>1
      <3>. QED BY <1>8, <3>1 DEF Waits
    <2>5. pc'[u] = "stocked" =>
            /\ StockSuffices(cmd[u])'
            /\ \A p \in PairsMoved(cmd[u])' : seen'[u][p] = stock'[p]
      BY <1>0, <1>1, <1>9 DEF Waits, ChecksHold
    <2>. QED BY <1>4, <2>1, <2>2, <2>3, <2>4, <2>5 DEF ChecksHold
  <1>. QED BY <1>10, <1>11

-----------------------------------------------------------------------------
(* Every commit is a command of SaleRules.                                 *)

LEMMA SellAsSeen ==
  ASSUME NEW s, NEW r, NEW before, \A p \in PairsOf(r) : before[p] = stock[p],
         Sell(s, r, before)
  PROVE  Sell(s, r, stock)
  <1>. DEFINE after == [p \in PairsOf(r) |-> before[p] - Demand[r][p]]
  <1>1. after = [p \in PairsOf(r) |-> stock[p] - Demand[r][p]]
    OBVIOUS
  <1>2. DOMAIN after = PairsOf(r)
    OBVIOUS
  <1>3. Post("SALE", s, before, after)
    BY DEF Sell
  <1>. HIDE DEF after
  <1>4. Post("SALE", s, stock, after)
    BY <1>2, <1>3 DEF Post
  <1>. QED BY <1>1, <1>4 DEF Sell

LEMMA RestoreAsSeen ==
  ASSUME NEW s, NEW before, \A p \in PairsOf(order[s]) : before[p] = stock[p],
         Restore(s, before)
  PROVE  Restore(s, stock)
  <1>. DEFINE after == [p \in PairsOf(order[s]) |-> before[p] + Demand[order[s]][p]]
  <1>1. after = [p \in PairsOf(order[s]) |-> stock[p] + Demand[order[s]][p]]
    OBVIOUS
  <1>2. DOMAIN after = PairsOf(order[s])
    OBVIOUS
  <1>3. Post("SALE_CANCELLATION", s, before, after)
    BY DEF Restore
  <1>. HIDE DEF after
  <1>4. Post("SALE_CANCELLATION", s, stock, after)
    BY <1>2, <1>3 DEF Post
  <1>. QED BY <1>1, <1>4 DEF Restore

LEMMA CommitIsCommand ==
  ASSUME TypeOK, ControlOK, ChecksSurvive, NEW t \in Txn, Commit(t)
  PROVE  Command
  <1>. DEFINE c == cmd[t]
  <1>1. pc[t] # "idle"
    BY DEF Commit, CommitCreate, CommitPayment, CommitConfirmation,
           CommitCancellation, CommitCorrection, CommitClosing, CommitReopening
  <1>2. /\ c \in Commands /\ c.key \in Key
        /\ Unclaimed(Claims(c), c.key) /\ ChecksHold(t)
    BY <1>1, Under, CommandType DEF ChecksHold
  <1>3. ASSUME NEW s \in Sale, CommitCreate(t, s) PROVE Command
    <2>1. /\ pc[t] = "stocked" /\ c.op = "create" /\ c.req \in Request
          /\ ~Exists(s) /\ InsertSale(c.key, c.req, s, seen[t])
      BY <1>2, <1>3, CommandType DEF CommitCreate
    <2>2. /\ Creatable(c.req, stock) /\ Unclaimed(createdBy, c.key)
          /\ \A p \in PairsOf(c.req) : seen[t][p] = stock[p]
      BY <1>2, <2>1 DEF ChecksHold, StockSuffices, PairsMoved, Claims
    <2>3. InsertSale(c.key, c.req, s, stock)
      BY <2>1, <2>2, SellAsSeen DEF InsertSale
    <2>4. Create(c.key, c.req, s)
      BY <2>1, <2>2, <2>3 DEF Create
    <2>. QED BY <1>2, <2>1, <2>4 DEF Command
  <1>4. ASSUME CommitPayment(t) PROVE Command
    <2>1. /\ pc[t] = "checked" /\ c.op = "pay" /\ c.sale \in Sale
          /\ InsertPayment(c.key, c.sale)
      BY <1>2, <1>4, CommandType DEF CommitPayment, SaleOp
    <2>2. Payable(c.sale) /\ Unclaimed(receipt, c.key)
      BY <1>2, <2>1 DEF ChecksHold, PastSales, SaleOp, Accepted, Claims
    <2>3. RecordPayment(c.key, c.sale)
      BY <2>1, <2>2 DEF RecordPayment
    <2>. QED BY <1>2, <2>1, <2>3 DEF Command
  <1>5. ASSUME CommitConfirmation(t) PROVE Command
    <2>1. /\ pc[t] = "checked" /\ c.op = "confirm" /\ c.sale \in Sale
          /\ InsertConfirmation(c.key, c.sale)
      BY <1>2, <1>5, CommandType DEF CommitConfirmation, SaleOp
    <2>2. Confirmable(c.sale) /\ Unclaimed(confirmation, c.key)
      BY <1>2, <2>1 DEF ChecksHold, PastSales, SaleOp, Accepted, Claims
    <2>3. Confirm(c.key, c.sale)
      BY <2>1, <2>2 DEF Confirm
    <2>. QED BY <1>2, <2>1, <2>3 DEF Command
  <1>6. ASSUME CommitCancellation(t) PROVE Command
    <2>1. /\ pc[t] = "stocked" /\ c.op = "cancel" /\ c.sale \in Sale
          /\ InsertCancellation(c.key, c.sale, seen[t])
      BY <1>2, <1>6, CommandType DEF CommitCancellation, SaleOp
    <2>2. /\ Cancellable(c.sale) /\ Unclaimed(cancellation, c.key)
          /\ Restorable(c.sale, stock)
          /\ \A p \in PairsOf(order[c.sale]) : seen[t][p] = stock[p]
      BY <1>2, <2>1
      DEF ChecksHold, PastSales, SaleOp, Accepted, Claims, StockSuffices, PairsMoved
    <2>3. InsertCancellation(c.key, c.sale, stock)
      BY <2>1, <2>2, RestoreAsSeen DEF InsertCancellation
    <2>4. Cancel(c.key, c.sale)
      BY <2>2, <2>3 DEF Cancel
    <2>. QED BY <1>2, <2>1, <2>4 DEF Command
  <1>7. ASSUME CommitCorrection(t) PROVE Command
    <2>1. /\ pc[t] = "stocked" /\ c.op = "void" /\ c.sale \in Sale /\ c.other \in Sale
          /\ InsertCorrection(c.key, c.sale, c.other, seen[t])
      BY <1>2, <1>7, CommandType DEF CommitCorrection
    <2>2. /\ Voidable(c.sale, c.other) /\ Unclaimed(cancellation, c.key)
          /\ closing[BusinessDate(c.sale)] = None
          /\ Restorable(c.sale, stock)
          /\ \A p \in PairsOf(order[c.sale]) : seen[t][p] = stock[p]
      BY <1>2, <2>1
      DEF ChecksHold, PastSales, PastDay, DayLocked, SaleOp, Accepted, Claims,
          StockSuffices, PairsMoved
    <2>3. InsertCorrection(c.key, c.sale, c.other, stock)
      BY <2>1, <2>2, RestoreAsSeen DEF InsertCorrection
    <2>4. VoidDuplicate(c.key, c.sale, c.other)
      BY <2>2, <2>3 DEF VoidDuplicate
    <2>. QED BY <1>2, <2>1, <2>4 DEF Command
  <1>8. ASSUME CommitClosing(t) PROVE Command
    <2>1. /\ pc[t] = "summed" /\ c.op = "close" /\ c.day \in Day
          /\ InsertClosing(c.key, c.day, sums[t][1], sums[t][2])
      BY <1>2, <1>8, CommandType DEF CommitClosing, DayOp
    <2>2. /\ closing[c.day] = None /\ Unclaimed(closedBy, c.key)
          /\ sums[t][1] \subseteq Completed(c.day)
          /\ sums[t][2] \subseteq SalesOn(c.day)
          /\ sums[t][1] \cap sums[t][2] = {}
      BY <1>2, <2>1 DEF ChecksHold, PastDay, DayLocked, Claims
    <2>3. CreateClosing(c.key, c.day)
      BY <2>1, <2>2 DEF CreateClosing
    <2>. QED BY <1>2, <2>1, <2>3 DEF Command
  <1>9. ASSUME CommitReopening(t) PROVE Command
    <2>1. /\ pc[t] = "checked" /\ c.op = "reopen" /\ c.day \in Day
          /\ InsertReopening(c.key, c.day)
      BY <1>2, <1>9, CommandType DEF CommitReopening, DayOp
    <2>2. closing[c.day] = "CLOSED" /\ Unclaimed(reopenedBy, c.key)
      BY <1>2, <2>1 DEF ChecksHold, PastClosing, Claims
    <2>3. Reopen(c.key, c.day)
      BY <2>1, <2>2 DEF Reopen
    <2>. QED BY <1>2, <2>1, <2>3 DEF Command
  <1>. QED BY <1>3, <1>4, <1>5, <1>6, <1>7, <1>8, <1>9 DEF Commit

LEMMA CommitRespects ==
  ASSUME TypeOK, ControlOK, ChecksSurvive, NEW t \in Txn, Commit(t)
  PROVE  Respects(t) /\ End(t)
  <1>1. Respects(t)
    BY CreateRespects, PaymentRespects, ConfirmationRespects,
       CancellationRespects, CorrectionRespects, ClosingRespects,
       ReopeningRespects
    DEF Commit
  <1>2. End(t)
    BY DEF Commit, CommitCreate, CommitPayment, CommitConfirmation,
           CommitCancellation, CommitCorrection, CommitClosing, CommitReopening
  <1>. QED BY <1>1, <1>2

-----------------------------------------------------------------------------
(* The inductive invariant.                                                *)

IInv == TypeOK /\ ControlOK /\ ChecksSurvive

LEMMA EndKeeps ==
  ASSUME TypeOK, ControlOK, ChecksSurvive, NEW t \in Txn, Respects(t), End(t)
  PROVE  ControlOK' /\ ChecksSurvive'
  <1>1. \A u \in Txn \ {t} : Waits(u)
    BY DEF End, Waits, ControlOK
  <1>2. pc'[t] = "idle" /\ held'[t] = {}
    BY DEF End, ControlOK
  <1>3. ControlOK'
    <2>1. /\ pc' \in [Txn -> Phase] /\ held' \in [Txn -> SUBSET Lock]
          /\ cmd' \in [Txn -> NullOr(Commands)]
      BY DEF End, ControlOK, Phase, NullOr
    <2>2. /\ seen' \in [Txn -> [DOMAIN Opening -> Nat]]
          /\ sums' \in [Txn -> (SUBSET Sale) \X (SUBSET Sale)]
      BY SaleConstants DEF End, ControlOK
    <2>3. ASSUME NEW u \in Txn
          PROVE  IF pc'[u] = "idle" THEN cmd'[u] = None /\ held'[u] = {}
                 ELSE cmd'[u] \in Commands /\ pc'[u] \in PhasesOf(cmd'[u].op)
      BY DEF End, ControlOK
    <2>. QED BY <2>1, <2>2, <2>3 DEF ControlOK
  <1>4. Exclusive'
    BY <1>1, <1>2 DEF Waits, Exclusive, ChecksSurvive
  <1>5. ASSUME NEW u \in Txn, pc'[u] # "idle"
        PROVE  KeepsLocks(u)' /\ ChecksHold(u)'
    <2>1. u \in Txn \ {t} /\ Waits(u) /\ pc[u] # "idle"
      BY <1>1, <1>2, <1>5 DEF Waits
    <2>. QED BY <2>1, OthersKeep
  <1>. QED BY <1>3, <1>4, <1>5 DEF ChecksSurvive

\* A step before the write: transaction t adds locks that are free, and the
\* facts it checks or reads are true now.
LEMMA PrepareKeeps ==
  ASSUME TypeOK, ControlOK, ChecksSurvive, NEW t \in Txn, UNCHANGED tables,
         NEW L \in SUBSET Lock, Free(t, L),
         held' = [held EXCEPT ![t] = @ \cup L],
         NEW phase \in Phase \ {"idle"}, pc' = [pc EXCEPT ![t] = phase],
         NEW c \in Commands, phase \in PhasesOf(c.op),
         cmd' = [cmd EXCEPT ![t] = c],
         \A u \in Txn \ {t} : seen'[u] = seen[u] /\ sums'[u] = sums[u],
         seen' \in [Txn -> [DOMAIN Opening -> Nat]],
         sums' \in [Txn -> (SUBSET Sale) \X (SUBSET Sale)],
         KeepsLocks(t)', ChecksHold(t)'
  PROVE  ControlOK' /\ ChecksSurvive'
  <1>1. \A u \in Txn \ {t} : Waits(u)
    BY DEF Waits, ControlOK
  <1>2. ControlOK'
    <2>1. /\ pc' \in [Txn -> Phase] /\ held' \in [Txn -> SUBSET Lock]
          /\ cmd' \in [Txn -> NullOr(Commands)]
      BY DEF ControlOK, NullOr
    <2>2. ASSUME NEW u \in Txn
          PROVE  IF pc'[u] = "idle" THEN cmd'[u] = None /\ held'[u] = {}
                 ELSE cmd'[u] \in Commands /\ pc'[u] \in PhasesOf(cmd'[u].op)
      BY DEF ControlOK
    <2>. QED BY <2>1, <2>2 DEF ControlOK
  <1>3. Exclusive'
    BY DEF Exclusive, ChecksSurvive, Free, ControlOK
  <1>4. Respects(t)
    BY ReadingRespects
  <1>5. ASSUME NEW u \in Txn, pc'[u] # "idle"
        PROVE  KeepsLocks(u)' /\ ChecksHold(u)'
    <2>1. CASE u = t
      BY <2>1
    <2>2. CASE u # t
      <3>1. u \in Txn \ {t} /\ Waits(u) /\ pc[u] # "idle"
        BY <1>1, <1>5, <2>2 DEF Waits
      <3>. QED BY <1>4, <3>1, OthersKeep
    <2>. QED BY <2>1, <2>2
  <1>. QED BY <1>2, <1>3, <1>5 DEF ChecksSurvive

\* Reading the tables before a step that leaves them alone.
LEMMA TablesRead ==
  ASSUME UNCHANGED tables, NEW c
  PROVE  /\ Accepted(c)' = Accepted(c)
         /\ StockSuffices(c)' = StockSuffices(c)
         /\ PairsMoved(c)' = PairsMoved(c)
         /\ DayLocked(c)' = DayLocked(c)
         /\ Unclaimed(Claims(c), c.key)' = Unclaimed(Claims(c), c.key)
         /\ \A d : Completed(d)' = Completed(d) /\ SalesOn(d)' = SalesOn(d)
         /\ closing' = closing /\ stock' = stock
  <1>1. UNCHANGED <<order, createdBy, status, paid, receipt, confirmation,
                    cancellation, replacement, stock, closing, closedBy,
                    reopenedBy>>
    BY DEF tables, saleTables, documents, stockTables, closingTables
  <1>2. Accepted(c)' = Accepted(c)
    BY <1>1 DEF Accepted, Payable, Confirmable, Cancellable, Voidable, Exists,
                BusinessDate, ReceivedCorrection
  <1>3. StockSuffices(c)' = StockSuffices(c)
    BY <1>1 DEF StockSuffices, Creatable, Restorable
  <1>4. PairsMoved(c)' = PairsMoved(c) /\ DayLocked(c)' = DayLocked(c)
    BY <1>1 DEF PairsMoved, DayLocked, BusinessDate
  <1>5. Unclaimed(Claims(c), c.key)' = Unclaimed(Claims(c), c.key)
    <2>1. Claims(c)' = Claims(c)
      BY <1>1 DEF Claims
    <2>. QED BY <2>1 DEF Unclaimed
  <1>6. \A d : Completed(d)' = Completed(d) /\ SalesOn(d)' = SalesOn(d)
    BY <1>1 DEF Completed, SalesOn, Exists, BusinessDate
  <1>. QED BY <1>1, <1>2, <1>3, <1>4, <1>5, <1>6

LEMMA LockTypes ==
  ASSUME NEW c \in Commands
  PROVE  /\ {KeyLock(c)} \in SUBSET Lock
         /\ \A s \in Sale : SaleLock(s) \in Lock
         /\ \A d \in Day : DayLock(d) \in Lock /\ ClosingLock(d) \in Lock
         /\ \A p \in Pair : StockLock(p) \in Lock
  BY DEF Lock

LEMMA BeginKeeps ==
  ASSUME TypeOK, ControlOK, ChecksSurvive, NEW t \in Txn, NEW c \in Commands,
         Begin(t, c)
  PROVE  ControlOK' /\ ChecksSurvive'
  <1>1. /\ pc[t] = "idle" /\ pc' = [pc EXCEPT ![t] = "begun"]
        /\ Free(t, {KeyLock(c)}) /\ held' = [held EXCEPT ![t] = @ \cup {KeyLock(c)}]
        /\ Unclaimed(Claims(c), c.key) /\ cmd' = [cmd EXCEPT ![t] = c]
        /\ UNCHANGED tables /\ seen' = seen /\ sums' = sums
    BY DEF Begin, Advance, Acquire
  <1>2. pc'[t] = "begun" /\ cmd'[t] = c /\ KeyLock(c) \in held'[t]
    BY <1>1 DEF ControlOK
  <1>3. "begun" \in PhasesOf(c.op)
    BY CommandType DEF PhasesOf
  <1>4. ~PastSales(t)' /\ ~PastDay(t)' /\ ~PastClosing(t)'
    BY <1>2 DEF PastSales, PastDay, PastClosing
  <1>5. KeepsLocks(t)'
    <2>1. KeyLock(cmd[t])' = KeyLock(c)
      BY <1>2 DEF KeyLock, Scope
    <2>. QED BY <1>2, <1>4, <2>1 DEF KeepsLocks
  <1>6. ChecksHold(t)'
    <2>1. Unclaimed(Claims(c), c.key)'
      BY <1>1, TablesRead
    <2>2. Unclaimed(Claims(cmd[t]), cmd[t].key)'
      BY <1>2, <2>1 DEF Unclaimed, Claims
    <2>. QED BY <1>2, <1>4, <2>2 DEF ChecksHold
  <1>. QED
    BY <1>1, <1>3, <1>5, <1>6, LockTypes, PrepareKeeps DEF Phase, ControlOK

LEMMA LockSalesKeeps ==
  ASSUME TypeOK, ControlOK, ChecksSurvive, NEW t \in Txn, LockSales(t)
  PROVE  ControlOK' /\ ChecksSurvive'
  <1>0. PICK c \in Commands :
          /\ cmd[t] = c /\ KeepsLocks(t) /\ ChecksHold(t) /\ pc[t] = "begun"
    BY Under DEF LockSales, Advance
  <1>. DEFINE L == {SaleLock(s) : s \in SalesOf(c)}
  <1>1. /\ pc' = [pc EXCEPT ![t] = "checked"]
        /\ c.op \in SaleOp \cup {"void"} /\ Accepted(c)
        /\ Free(t, L) /\ held' = [held EXCEPT ![t] = @ \cup L]
        /\ UNCHANGED tables /\ cmd' = cmd /\ seen' = seen /\ sums' = sums
    BY <1>0 DEF LockSales, Advance, Acquire
  <1>2. /\ pc'[t] = "checked" /\ cmd'[t] = c /\ held'[t] = held[t] \cup L
        /\ cmd' = [cmd EXCEPT ![t] = c]
    BY <1>0, <1>1 DEF ControlOK
  <1>3. "checked" \in PhasesOf(c.op) /\ L \in SUBSET Lock
    BY <1>1, CommandType, LockTypes DEF PhasesOf, SalesOf, SaleOp
  <1>4. ~PastDay(t)' /\ ~PastClosing(t)'
    BY <1>1, <1>2 DEF PastDay, PastClosing, SaleOp
  <1>5. KeepsLocks(t)'
    <2>1. KeyLock(cmd[t])' \in held'[t]
      BY <1>0, <1>2 DEF KeepsLocks, KeyLock, Scope
    <2>2. \A s \in SalesOf(cmd'[t]) : SaleLock(s) \in held'[t]
      BY <1>2
    <2>. QED BY <1>2, <1>4, <2>1, <2>2 DEF KeepsLocks, SalesOf
  <1>6. ChecksHold(t)'
    <2>1. Accepted(c)' /\ Unclaimed(Claims(c), c.key)'
      BY <1>0, <1>1, TablesRead DEF ChecksHold
    <2>2. Accepted(cmd[t])' /\ Unclaimed(Claims(cmd[t]), cmd[t].key)'
      <3>1. Accepted(cmd[t])' = Accepted(c)'
        BY <1>2
      <3>2. Unclaimed(Claims(cmd[t]), cmd[t].key)'
        BY <1>2, <2>1 DEF Unclaimed, Claims
      <3>. QED BY <2>1, <3>1, <3>2
    <2>. QED BY <1>2, <1>4, <2>2 DEF ChecksHold
  <1>. HIDE DEF L
  <1>. QED
    BY <1>1, <1>2, <1>3, <1>5, <1>6, PrepareKeeps DEF Phase, ControlOK

\* The checks a transaction passed before its step hold after it.
LEMMA PassedChecks ==
  ASSUME UNCHANGED tables, NEW t \in Txn, NEW c \in Commands,
         cmd[t] = c, cmd'[t] = c, ChecksHold(t)
  PROVE  /\ Unclaimed(Claims(cmd[t]), cmd[t].key)'
         /\ PastSales(t) => Accepted(cmd[t])'
         /\ PastDay(t) => (closing[DayLocked(cmd[t])])' = None
         /\ PastClosing(t) => closing'[c.day] = "CLOSED"
  <1>1. Unclaimed(Claims(cmd[t]), cmd[t].key)'
    <2>1. Unclaimed(Claims(c), c.key)'
      BY TablesRead DEF ChecksHold
    <2>. QED BY <2>1 DEF Unclaimed, Claims
  <1>2. Accepted(cmd[t])' = Accepted(c)
    <2>1. Accepted(cmd[t])' = Accepted(c)'
      OBVIOUS
    <2>2. Accepted(c)' = Accepted(c)
      BY TablesRead
    <2>. QED BY <2>1, <2>2
  <1>3. DayLocked(cmd[t])' = DayLocked(c)
    <2>1. DayLocked(cmd[t])' = DayLocked(c)'
      OBVIOUS
    <2>2. DayLocked(c)' = DayLocked(c)
      BY TablesRead
    <2>. QED BY <2>1, <2>2
  <1>4. closing' = closing
    BY TablesRead
  <1>. QED BY <1>1, <1>2, <1>3, <1>4 DEF ChecksHold

LEMMA LockDayKeeps ==
  ASSUME TypeOK, ControlOK, ChecksSurvive, NEW t \in Txn, LockDay(t)
  PROVE  ControlOK' /\ ChecksSurvive'
  <1>0. PICK c \in Commands :
          /\ cmd[t] = c /\ KeepsLocks(t) /\ ChecksHold(t)
          /\ pc[t] \in PhasesOf(c.op)
    BY Under DEF LockDay, AtDayLock
  <1>. DEFINE d == DayLocked(c)
  <1>1. /\ pc' = [pc EXCEPT ![t] = "dated"] /\ AtDayLock(t)
        /\ closing[DayLocked(c)] = None
        /\ Free(t, {DayLock(DayLocked(c))})
        /\ held' = [held EXCEPT ![t] = @ \cup {DayLock(DayLocked(c))}]
        /\ UNCHANGED tables /\ cmd' = cmd /\ seen' = seen /\ sums' = sums
    BY <1>0 DEF LockDay, Acquire
  <1>2. /\ pc'[t] = "dated" /\ cmd'[t] = c
        /\ held'[t] = held[t] \cup {DayLock(DayLocked(c))}
        /\ cmd' = [cmd EXCEPT ![t] = c]
    BY <1>0, <1>1 DEF ControlOK
  <1>3. /\ c.op = "void" => PastSales(t)
        /\ c.op \in {"void", "close"}
        /\ PastSales(t)' => PastSales(t)
    BY <1>0, <1>1, <1>2 DEF AtDayLock, PastSales, SaleOp
  <1>4. "dated" \in PhasesOf(c.op) /\ {DayLock(DayLocked(c))} \in SUBSET Lock
    <2>1. CASE c.op = "close"
      BY <2>1, CommandType, LockTypes DEF PhasesOf, DayLocked, DayOp
    <2>2. CASE c.op = "void"
      <3>1. c.sale \in Sale /\ Exists(c.sale)
        BY <1>0, <1>3, <2>2, CommandType DEF ChecksHold, Accepted, Voidable, SaleOp
      <3>2. DayLocked(c) \in Day
        BY <2>2, <3>1, PairsOfType DEF DayLocked, BusinessDate, TypeOK, NullOr, Exists
      <3>. QED BY <2>2, <3>2, LockTypes DEF PhasesOf
    <2>. QED BY <1>3, <2>1, <2>2
  <1>5. ~PastClosing(t)' /\ PastDay(t)'
    BY <1>2, <1>3 DEF PastClosing, PastDay
  <1>6. DayLocked(cmd[t])' = DayLocked(c)
    <2>1. DayLocked(cmd[t])' = DayLocked(c)'
      BY <1>2
    <2>. QED BY <1>1, <2>1, TablesRead
  <1>7. KeepsLocks(t)'
    <2>1. KeyLock(cmd[t])' \in held'[t]
      BY <1>0, <1>2 DEF KeepsLocks, KeyLock, Scope
    <2>2. PastSales(t)' => \A s \in SalesOf(cmd[t])' : SaleLock(s) \in held'[t]
      BY <1>0, <1>2, <1>3 DEF KeepsLocks, SalesOf
    <2>3. DayLock(DayLocked(cmd[t]))' \in held'[t]
      BY <1>2, <1>6 DEF DayLock
    <2>. QED BY <1>2, <1>5, <2>1, <2>2, <2>3 DEF KeepsLocks
  <1>8. ChecksHold(t)'
    <2>1. /\ Unclaimed(Claims(cmd[t]), cmd[t].key)'
          /\ PastSales(t)' => Accepted(cmd[t])'
      BY <1>0, <1>1, <1>2, <1>3, PassedChecks
    <2>2. (closing[DayLocked(cmd[t])])' = None
      BY <1>1, <1>6, TablesRead
    <2>. QED BY <1>2, <1>5, <2>1, <2>2 DEF ChecksHold
  <1>. QED
    BY <1>1, <1>2, <1>4, <1>7, <1>8, PrepareKeeps DEF Phase, ControlOK

LEMMA LockClosingKeeps ==
  ASSUME TypeOK, ControlOK, ChecksSurvive, NEW t \in Txn, LockClosing(t)
  PROVE  ControlOK' /\ ChecksSurvive'
  <1>0. PICK c \in Commands : cmd[t] = c /\ KeepsLocks(t) /\ ChecksHold(t)
    BY Under DEF LockClosing, Advance
  <1>1. /\ pc' = [pc EXCEPT ![t] = "checked"] /\ c.op = "reopen"
        /\ closing[c.day] = "CLOSED"
        /\ Free(t, {ClosingLock(c.day)})
        /\ held' = [held EXCEPT ![t] = @ \cup {ClosingLock(c.day)}]
        /\ UNCHANGED tables /\ cmd' = cmd /\ seen' = seen /\ sums' = sums
    BY <1>0 DEF LockClosing, Advance, Acquire
  <1>2. /\ pc'[t] = "checked" /\ cmd'[t] = c
        /\ held'[t] = held[t] \cup {ClosingLock(c.day)}
        /\ cmd' = [cmd EXCEPT ![t] = c]
    BY <1>0, <1>1 DEF ControlOK
  <1>3. "checked" \in PhasesOf(c.op) /\ {ClosingLock(c.day)} \in SUBSET Lock
    BY <1>1, CommandType, LockTypes DEF PhasesOf, DayOp
  <1>4. ~PastSales(t)' /\ ~PastDay(t)'
    BY <1>1, <1>2 DEF PastSales, PastDay, SaleOp
  <1>5. KeepsLocks(t)'
    <2>1. KeyLock(cmd[t])' \in held'[t]
      BY <1>0, <1>2 DEF KeepsLocks, KeyLock, Scope
    <2>. QED BY <1>2, <1>4, <2>1 DEF KeepsLocks
  <1>6. ChecksHold(t)'
    <2>1. Unclaimed(Claims(cmd[t]), cmd[t].key)'
      BY <1>0, <1>1, <1>2, PassedChecks
    <2>2. closing'[cmd'[t].day] = "CLOSED"
      BY <1>1, <1>2, TablesRead
    <2>. QED BY <1>2, <1>4, <2>1, <2>2 DEF ChecksHold
  <1>. QED
    BY <1>1, <1>2, <1>3, <1>5, <1>6, PrepareKeeps DEF Phase, ControlOK

LEMMA ReadFiguresKeeps ==
  ASSUME TypeOK, ControlOK, ChecksSurvive, NEW t \in Txn, ReadFigures(t)
  PROVE  ControlOK' /\ ChecksSurvive'
  <1>0. PICK c \in Commands : cmd[t] = c /\ KeepsLocks(t) /\ ChecksHold(t)
    BY Under DEF ReadFigures, Advance
  <1>1. /\ pc[t] = "dated" /\ pc' = [pc EXCEPT ![t] = "summed"] /\ c.op = "close"
        /\ sums' = [sums EXCEPT ![t] = <<Completed(c.day), InTransit(c.day)>>]
        /\ UNCHANGED tables /\ cmd' = cmd /\ seen' = seen /\ held' = held
    BY <1>0 DEF ReadFigures, Advance
  <1>2. /\ pc'[t] = "summed" /\ cmd'[t] = c
        /\ cmd' = [cmd EXCEPT ![t] = c]
        /\ sums'[t] = <<Completed(c.day), InTransit(c.day)>>
    BY <1>0, <1>1 DEF ControlOK
  <1>3. /\ "summed" \in PhasesOf(c.op)
        /\ Free(t, {}) /\ held' = [held EXCEPT ![t] = @ \cup {}]
    BY <1>1 DEF PhasesOf, Free, ControlOK
  <1>4. /\ ~PastSales(t)' /\ ~PastClosing(t)'
        /\ PastDay(t) /\ DayLocked(cmd[t])' = c.day /\ DayLocked(c) = c.day
    BY <1>0, <1>1, <1>2 DEF PastSales, PastDay, PastClosing, SaleOp, DayLocked
  <1>5. KeepsLocks(t)'
    <2>1. KeyLock(cmd[t])' \in held'[t]
      BY <1>0, <1>1, <1>2 DEF KeepsLocks, KeyLock, Scope
    <2>2. DayLock(DayLocked(cmd[t]))' \in held'[t]
      BY <1>0, <1>1, <1>4 DEF KeepsLocks, DayLock
    <2>. QED BY <1>2, <1>4, <2>1, <2>2 DEF KeepsLocks
  <1>6. ChecksHold(t)'
    <2>1. /\ Unclaimed(Claims(cmd[t]), cmd[t].key)'
          /\ (closing[DayLocked(cmd[t])])' = None
      BY <1>0, <1>1, <1>2, <1>4, PassedChecks
    <2>2. /\ Completed(c.day) \cap InTransit(c.day) = {}
          /\ InTransit(c.day) \subseteq SalesOn(c.day)
      BY DEF Completed, InTransit
    <2>3. /\ sums'[t][1] \subseteq Completed(cmd[t].day)'
          /\ sums'[t][2] \subseteq SalesOn(cmd[t].day)'
          /\ sums'[t][1] \cap sums'[t][2] = {}
      <3>1. /\ Completed(cmd[t].day)' = Completed(c.day)'
            /\ SalesOn(cmd[t].day)' = SalesOn(c.day)'
        BY <1>2
      <3>2. /\ Completed(c.day)' = Completed(c.day)
            /\ SalesOn(c.day)' = SalesOn(c.day)
        BY <1>1, TablesRead
      <3>. QED BY <1>2, <2>2, <3>1, <3>2
    <2>. QED BY <1>2, <1>4, <2>1, <2>3 DEF ChecksHold
  <1>7. sums' \in [Txn -> (SUBSET Sale) \X (SUBSET Sale)]
    BY <1>1 DEF ControlOK, Completed, InTransit, SalesOn
  <1>. QED
    BY <1>1, <1>2, <1>3, <1>5, <1>6, <1>7, PrepareKeeps DEF Phase, ControlOK

LEMMA LockStockKeeps ==
  ASSUME TypeOK, ControlOK, ChecksSurvive, NEW t \in Txn, LockStock(t)
  PROVE  ControlOK' /\ ChecksSurvive'
  <1>0. PICK c \in Commands :
          /\ cmd[t] = c /\ KeepsLocks(t) /\ ChecksHold(t)
          /\ pc[t] \in PhasesOf(c.op)
    BY Under DEF LockStock, AtStockLock
  <1>. DEFINE L == {StockLock(p) : p \in PairsMoved(c)}
  <1>1. /\ pc' = [pc EXCEPT ![t] = "stocked"] /\ AtStockLock(t)
        /\ StockSuffices(c)
        /\ Free(t, L) /\ held' = [held EXCEPT ![t] = @ \cup L]
        /\ seen' = [seen EXCEPT ![t] = stock]
        /\ UNCHANGED tables /\ cmd' = cmd /\ sums' = sums
    BY <1>0 DEF LockStock, Acquire
  <1>2. /\ pc'[t] = "stocked" /\ cmd'[t] = c /\ held'[t] = held[t] \cup L
        /\ cmd' = [cmd EXCEPT ![t] = c] /\ seen'[t] = stock
    BY <1>0, <1>1 DEF ControlOK
  <1>3. /\ c.op \in {"create", "cancel", "void"}
        /\ PastSales(t)' => PastSales(t)
        /\ PastDay(t)' => PastDay(t)
        /\ ~PastClosing(t)'
    BY <1>0, <1>1, <1>2
    DEF AtStockLock, PastSales, PastDay, PastClosing, SaleOp
  <1>4. "stocked" \in PhasesOf(c.op) /\ L \in SUBSET Lock
    <2>1. PairsMoved(c) \subseteq Pair
      BY <1>1, SaleConstants DEF StockSuffices, PairsMoved, PairsOf
    <2>. QED BY <1>3, <2>1, LockTypes DEF PhasesOf
  <1>5. /\ DayLocked(cmd[t])' = DayLocked(c)
        /\ PairsMoved(cmd[t])' = PairsMoved(c)
        /\ StockSuffices(cmd[t])' = StockSuffices(c)
        /\ stock' = stock
    <2>1. /\ DayLocked(cmd[t])' = DayLocked(c)'
          /\ PairsMoved(cmd[t])' = PairsMoved(c)'
          /\ StockSuffices(cmd[t])' = StockSuffices(c)'
      BY <1>2
    <2>2. /\ DayLocked(c)' = DayLocked(c)
          /\ PairsMoved(c)' = PairsMoved(c)
          /\ StockSuffices(c)' = StockSuffices(c)
          /\ stock' = stock
      BY <1>1, TablesRead
    <2>. QED BY <2>1, <2>2
  <1>6. KeepsLocks(t)'
    <2>1. KeyLock(cmd[t])' \in held'[t]
      BY <1>0, <1>2 DEF KeepsLocks, KeyLock, Scope
    <2>2. PastSales(t)' => \A s \in SalesOf(cmd[t])' : SaleLock(s) \in held'[t]
      BY <1>0, <1>2, <1>3 DEF KeepsLocks, SalesOf
    <2>3. PastDay(t)' => DayLock(DayLocked(cmd[t]))' \in held'[t]
      BY <1>0, <1>2, <1>3, <1>5 DEF KeepsLocks, DayLock
    <2>4. \A p \in PairsMoved(cmd[t])' : StockLock(p) \in held'[t]
      BY <1>2, <1>5
    <2>. QED BY <1>2, <1>3, <2>1, <2>2, <2>3, <2>4 DEF KeepsLocks
  <1>7. ChecksHold(t)'
    <2>1. /\ Unclaimed(Claims(cmd[t]), cmd[t].key)'
          /\ PastSales(t)' => Accepted(cmd[t])'
          /\ PastDay(t)' => (closing[DayLocked(cmd[t])])' = None
      BY <1>0, <1>1, <1>2, <1>3, PassedChecks
    <2>2. /\ StockSuffices(cmd[t])'
          /\ \A p \in PairsMoved(cmd[t])' : seen'[t][p] = stock'[p]
      BY <1>1, <1>2, <1>5
    <2>. QED BY <1>2, <1>3, <2>1, <2>2 DEF ChecksHold
  <1>8. seen' \in [Txn -> [DOMAIN Opening -> Nat]]
    BY <1>1 DEF ControlOK, TypeOK
  <1>. HIDE DEF L
  <1>. QED
    BY <1>1, <1>2, <1>4, <1>6, <1>7, <1>8, PrepareKeeps DEF Phase, ControlOK

-----------------------------------------------------------------------------
(* The theorems.                                                           *)

LEMMA InitIInv == Init => IInv
  <1>. SUFFICES ASSUME Init PROVE IInv
    OBVIOUS
  <1>1. TypeOK
    BY InitType DEF Init
  <1>2. ControlOK
    BY SaleConstants DEF Init, ControlOK, Phase, NullOr
  <1>3. ChecksSurvive
    BY DEF Init, ChecksSurvive, Exclusive
  <1>. QED BY <1>1, <1>2, <1>3 DEF IInv

LEMMA RefuseEnds ==
  ASSUME NEW t \in Txn, Refuse(t) \/ Rollback(t)
  PROVE  End(t) /\ UNCHANGED tables
  BY DEF Refuse, Rollback, RefuseSales, RefuseDay, RefuseClosing, RefuseStock

\* A stuttering step leaves what a transaction holds and checked as it was.
LEMMA StutterKeeps ==
  ASSUME ControlOK, ChecksSurvive, UNCHANGED tables, UNCHANGED control,
         NEW t \in Txn, pc[t] # "idle"
  PROVE  KeepsLocks(t)' /\ ChecksHold(t)'
  <1>0. PICK c \in Commands : cmd[t] = c /\ KeepsLocks(t) /\ ChecksHold(t)
    BY Under
  <1>1. /\ pc'[t] = pc[t] /\ cmd'[t] = c /\ held'[t] = held[t]
        /\ seen'[t] = seen[t] /\ sums'[t] = sums[t]
    BY <1>0 DEF control
  <1>2. /\ PastSales(t)' = PastSales(t)
        /\ PastDay(t)' = PastDay(t)
        /\ PastClosing(t)' = PastClosing(t)
    BY <1>0, <1>1 DEF PastSales, PastDay, PastClosing
  <1>3. /\ DayLocked(cmd[t])' = DayLocked(c)
        /\ PairsMoved(cmd[t])' = PairsMoved(c)
        /\ StockSuffices(cmd[t])' = StockSuffices(c)
    <2>1. /\ DayLocked(cmd[t])' = DayLocked(c)'
          /\ PairsMoved(cmd[t])' = PairsMoved(c)'
          /\ StockSuffices(cmd[t])' = StockSuffices(c)'
      BY <1>1
    <2>2. /\ DayLocked(c)' = DayLocked(c)
          /\ PairsMoved(c)' = PairsMoved(c)
          /\ StockSuffices(c)' = StockSuffices(c)
      BY TablesRead
    <2>. QED BY <2>1, <2>2
  <1>4. KeepsLocks(t)'
    <2>1. KeyLock(cmd[t])' \in held'[t]
      BY <1>0, <1>1 DEF KeepsLocks, KeyLock, Scope
    <2>2. PastSales(t)' => \A s \in SalesOf(cmd[t])' : SaleLock(s) \in held'[t]
      BY <1>0, <1>1, <1>2 DEF KeepsLocks, SalesOf
    <2>3. PastDay(t)' => DayLock(DayLocked(cmd[t]))' \in held'[t]
      BY <1>0, <1>1, <1>2, <1>3 DEF KeepsLocks, DayLock
    <2>4. pc'[t] = "stocked" =>
            \A p \in PairsMoved(cmd[t])' : StockLock(p) \in held'[t]
      BY <1>0, <1>1, <1>3 DEF KeepsLocks
    <2>5. PastClosing(t)' => ClosingLock(cmd[t].day)' \in held'[t]
      BY <1>0, <1>1, <1>2 DEF KeepsLocks, ClosingLock
    <2>. QED BY <2>1, <2>2, <2>3, <2>4, <2>5 DEF KeepsLocks
  <1>5. ChecksHold(t)'
    <2>1. /\ Unclaimed(Claims(cmd[t]), cmd[t].key)'
          /\ PastSales(t)' => Accepted(cmd[t])'
          /\ PastDay(t)' => (closing[DayLocked(cmd[t])])' = None
          /\ PastClosing(t)' => (closing[cmd[t].day])' = "CLOSED"
      BY <1>0, <1>1, <1>2, PassedChecks
    <2>2. pc'[t] = "stocked" =>
            /\ StockSuffices(cmd[t])'
            /\ \A p \in PairsMoved(cmd[t])' : seen'[t][p] = stock'[p]
      BY <1>0, <1>1, <1>3, TablesRead DEF ChecksHold
    <2>3. pc'[t] = "summed" =>
            /\ sums'[t][1] \subseteq Completed(cmd[t].day)'
            /\ sums'[t][2] \subseteq SalesOn(cmd[t].day)'
            /\ sums'[t][1] \cap sums'[t][2] = {}
      <3>1. /\ Completed(cmd[t].day)' = Completed(c.day)
            /\ SalesOn(cmd[t].day)' = SalesOn(c.day)
        BY <1>1, TablesRead
      <3>. QED BY <1>0, <1>1, <3>1 DEF ChecksHold
    <2>. QED BY <2>1, <2>2, <2>3 DEF ChecksHold
  <1>. QED BY <1>4, <1>5

LEMMA IInvStep ==
  ASSUME IInv, [Next]_vars
  PROVE  IInv' /\ [Command]_tables
  <1>0. TypeOK /\ ControlOK /\ ChecksSurvive
    BY DEF IInv
  <1>1. ASSUME NEW t \in Txn, NEW c \in Commands, Begin(t, c)
        PROVE  IInv' /\ [Command]_tables
    <2>1. UNCHANGED tables
      BY <1>1 DEF Begin
    <2>. QED BY <1>0, <1>1, <2>1, BeginKeeps, StutterType DEF IInv
  <1>2. ASSUME NEW t \in Txn, Prepare(t)
        PROVE  IInv' /\ [Command]_tables
    <2>1. UNCHANGED tables
      BY <1>2 DEF Prepare, LockSales, LockDay, LockClosing, LockStock, ReadFigures
    <2>2. ControlOK' /\ ChecksSurvive'
      BY <1>0, <1>2, LockSalesKeeps, LockDayKeeps, LockClosingKeeps,
         LockStockKeeps, ReadFiguresKeeps
      DEF Prepare
    <2>. QED BY <1>0, <2>1, <2>2, StutterType DEF IInv
  <1>3. ASSUME NEW t \in Txn, Refuse(t) \/ Rollback(t)
        PROVE  IInv' /\ [Command]_tables
    <2>1. End(t) /\ UNCHANGED tables
      BY <1>3, RefuseEnds
    <2>. QED BY <1>0, <2>1, EndKeeps, ReadingRespects, StutterType DEF IInv
  <1>4. ASSUME NEW t \in Txn, Commit(t)
        PROVE  IInv' /\ [Command]_tables
    <2>1. Command
      BY <1>0, <1>4, CommitIsCommand
    <2>2. ControlOK' /\ ChecksSurvive'
      BY <1>0, <1>4, CommitRespects, EndKeeps
    <2>. QED BY <1>0, <2>1, <2>2, TypeStep DEF IInv
  <1>5. ASSUME UNCHANGED vars
        PROVE  IInv' /\ [Command]_tables
    <2>1. UNCHANGED tables /\ UNCHANGED <<pc, cmd, held, seen, sums>>
      BY <1>5 DEF vars, control
    <2>2. ControlOK'
      BY <1>0, <2>1 DEF ControlOK
    <2>3. ChecksSurvive'
      <3>1. Exclusive'
        BY <1>0, <2>1 DEF ChecksSurvive, Exclusive
      <3>2. ASSUME NEW u \in Txn, pc'[u] # "idle"
            PROVE  KeepsLocks(u)' /\ ChecksHold(u)'
        BY <1>0, <1>5, <2>1, <3>2, StutterKeeps DEF vars
      <3>. QED BY <3>1, <3>2 DEF ChecksSurvive
    <2>. QED BY <1>0, <2>1, <2>2, <2>3, StutterType DEF IInv
  <1>6. ASSUME NEW t \in Txn, NEW c \in Commands, Replay(t, c)
        PROVE  UNCHANGED vars
    BY <1>6 DEF Replay
  <1>. QED BY <1>1, <1>2, <1>3, <1>4, <1>5, <1>6 DEF Next

\* Whatever a transaction read before its write, its row and advisory locks
\* keep true until it writes (lockSale, loadBalances, the scoped key locks).
THEOREM ChecksAlwaysSurvive == Spec => []ChecksSurvive
  <1>1. IInv => ChecksSurvive
    BY DEF IInv
  <1>2. IInv /\ [Next]_vars => IInv'
    BY IInvStep
  <1>. QED BY <1>1, <1>2, InitIInv, PTL DEF Spec

\* An open transaction runs one of the commands, in one of its phases, and a
\* finished one, committed or rolled back, holds no lock.
THEOREM ControlAlwaysOK == Spec => []ControlOK
  <1>1. IInv => ControlOK
    BY DEF IInv
  <1>2. IInv /\ [Next]_vars => IInv'
    BY IInvStep
  <1>. QED BY <1>1, <1>2, InitIInv, PTL DEF Spec

\* However many transactions interleave and fail, the sales, stock and
\* closing tables change only as if the commands ran one at a time.
THEOREM ImplementsSerial == Spec => Serial
  <1>1. Init => Initially
    BY DEF Init
  <1>2. IInv /\ [Next]_vars => IInv' /\ [Command]_tables
    BY IInvStep
  <1>. QED BY <1>1, <1>2, InitIInv, PTL DEF Spec, Serial

\* Hence the guarantees of the serial rules are guarantees of the running API:
\* each payment, key, movement and closing is as the theorems on Serial say.
COROLLARY ApiKeepsSaleRules ==
  Spec => /\ [](TypeOK /\ DocumentsAgree /\ PaymentHeldOnce /\ KeyBacksOneEffect)
          /\ [](LedgerExplainsStock /\ StockMovesOnce /\ ClosingNeverOverstates)
          /\ LifecycleRespected /\ ClosedDayFrozen
  BY ImplementsSerial, SerialTypeOK, SerialDocumentsAgree, SerialPaymentHeldOnce,
     SerialKeyBacksOneEffect, SerialLedgerExplainsStock, SerialStockMovesOnce,
     SerialClosingNeverOverstates, SerialLifecycleRespected,
     SerialClosedDayFrozen, PTL
=============================================================================
