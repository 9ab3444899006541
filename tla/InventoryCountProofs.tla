------------------------- MODULE InventoryCountProofs -------------------------
(***************************************************************************)
(* For any sessions, pairs, requests and quantities: an approval lands on  *)
(* what was counted and is linked to its adjustments, no correction is     *)
(* lost, and counts and commands together implement the abstract ledger.   *)
(*                                                                         *)
(* The argument: the session row is held by one capture or one approval,   *)
(* so that an approval finds at its commit the lines it has read; and the  *)
(* balances it locked are those the lines expected until then.             *)
(***************************************************************************)
EXTENDS InventoryCount, SequenceTheorems, TLAPS

Statuses == {"OPEN", "PENDING_APPROVAL", "APPROVED", "CANCELLED"}

MovementRow == [kind : {"ADJUSTMENT", "RECEIPT"}, before : Quantity, after : Quantity]

Revision == [before : Quantity, after : Quantity, saw : Quantity]

Sheet == [Pair -> NullOr(LineRow)]

Capture ==
  [op : {"capture"}, session : Session, pair : Pair,
   counted : Quantity, expected : Quantity]

Correction == [op : {"correct"}, session : Session, pair : Pair, saw : LineRow]

Approval == [op : {"approve"}, session : Session, read : Sheet, locked : BOOLEAN]

TypeOK ==
  /\ status \in [Session -> NullOr(Statuses)]
  /\ lines \in [Session -> Sheet]
  /\ revisions \in [Session -> [Pair -> Seq(Revision)]]
  /\ DOMAIN stock \subseteq Pair /\ stock \in [DOMAIN stock -> Quantity]
  /\ movements \in [Pair -> Seq(MovementRow)]
  /\ step \in [Txn -> NullOr(Capture \cup Correction \cup Approval)]

Holds(t) == Serving(t, "capture") \/ Serving(t, "approve")

\* One request at a time holds the row of a session.
OneHolder ==
  \A t, u \in Txn :
    Holds(t) /\ Holds(u) /\ step[t].session = step[u].session => t = u

\* A capture under way inserts a line that is not there yet, while its
\* session is open.
CapturesInsert ==
  \A t \in Txn : Serving(t, "capture") =>
    /\ status[step[t].session] = "OPEN"
    /\ lines[step[t].session][step[t].pair] = None

\* An approval under way has read the lines as they are.
ApprovalsReadLines ==
  \A t \in Txn : Serving(t, "approve") =>
    /\ status[step[t].session] = "PENDING_APPROVAL"
    /\ lines[step[t].session] = step[t].read
    /\ Captured(step[t].read) # {}

Locks(t, p) ==
  Serving(t, "approve") /\ step[t].locked /\ p \in Adjustable(step[t].read)

\* A balance is locked by one approval, and is what that approval expects.
LockedAsExpected ==
  \A t \in Txn, p \in Pair : Locks(t, p) =>
    /\ Balance(p) = step[t].read[p].expected
    /\ \A u \in Txn : Locks(u, p) => u = t

\* A correction is composed over an earlier version, or over the present one.
CorrectionsLag ==
  \A t \in Txn : Serving(t, "correct") =>
    LET line == lines[step[t].session][step[t].pair]
    IN  /\ line # None
        /\ step[t].saw.version <= line.version
        /\ step[t].saw.version = line.version => step[t].saw.counted = line.counted

\* What has not been captured has no history.
NoLineNoRevision ==
  \A n \in Session, p \in Pair : lines[n][p] = None => revisions[n][p] = <<>>

\* What AdjustmentsMatchLines and CorrectionsNotLost say of a line.
Matches(state, line, moves) ==
  IF state = "APPROVED" /\ Difference(line) # 0
  THEN /\ line.movement \in 1 .. Len(moves)
       /\ moves[line.movement].kind = "ADJUSTMENT"
       /\ moves[line.movement].after - moves[line.movement].before = Difference(line)
  ELSE line.movement = 0

Follows(line, revs) ==
  /\ line.version = Len(revs) + 1
  /\ revs # <<>> => revs[Len(revs)].after = line.counted
  /\ \A i \in 1 .. Len(revs) : revs[i].saw = revs[i].before
  /\ \A i \in 1 .. Len(revs) - 1 : revs[i].after = revs[i + 1].before

LinesMatch ==
  \A n \in Session :
    /\ status[n] = "APPROVED" => \E p \in Pair : lines[n][p] # None
    /\ \A p \in Pair : lines[n][p] # None =>
         Matches(status[n], lines[n][p], movements[p])

LinesFollow ==
  \A n \in Session, p \in Pair :
    lines[n][p] # None => Follows(lines[n][p], revisions[n][p])

IInv ==
  /\ TypeOK /\ OneHolder /\ CapturesInsert /\ ApprovalsReadLines
  /\ LockedAsExpected /\ CorrectionsLag /\ NoLineNoRevision
  /\ LinesMatch /\ LinesFollow

-----------------------------------------------------------------------------
(* Values.                                                                 *)

LEMMA QuantitiesWhole ==
  ASSUME NEW q \in Quantity
  PROVE  q \in Int
  BY BalancesAssumption DEF Quantity

LEMMA CountedTyped ==
  ASSUME NEW e \in Quantity, NEW c \in Quantity
  PROVE  Counted(e, c) \in LineRow /\ Counted(e, c) # None
  BY InventoryCountAssumption DEF Counted, LineRow

LEMMA BalanceTyped ==
  ASSUME TypeOK, NEW p \in Pair
  PROVE  Balance(p) \in Quantity
  BY BalancesAssumption DEF TypeOK, Balance, Quantity

LEMMA SheetTyped ==
  ASSUME TypeOK, NEW n \in Session
  PROVE  /\ lines[n] \in Sheet
         /\ \A p \in Pair : lines[n][p] # None => lines[n][p] \in LineRow
  BY DEF TypeOK, Sheet, NullOr

LEMMA CapturedIn ==
  ASSUME NEW ls \in Sheet
  PROVE  /\ \A p : p \in Captured(ls) <=> p \in Pair /\ ls[p] # None
         /\ \A p : p \in Adjustable(ls) <=>
                     p \in Pair /\ ls[p] # None /\ Difference(ls[p]) # 0
  BY DEF Captured, Adjustable, Sheet

LEMMA CaptureServed ==
  ASSUME TypeOK, NEW t \in Txn, Serving(t, "capture")
  PROVE  /\ step[t].session \in Session /\ step[t].pair \in Pair
         /\ step[t].counted \in Quantity /\ step[t].expected \in Quantity
  BY DEF TypeOK, Serving, NullOr, Capture, Correction, Approval

LEMMA CorrectionServed ==
  ASSUME TypeOK, NEW t \in Txn, Serving(t, "correct")
  PROVE  /\ step[t].session \in Session /\ step[t].pair \in Pair
         /\ step[t].saw \in LineRow
  BY DEF TypeOK, Serving, NullOr, Capture, Correction, Approval

LEMMA ApprovalServed ==
  ASSUME TypeOK, NEW t \in Txn, Serving(t, "approve")
  PROVE  /\ step[t].session \in Session /\ step[t].read \in Sheet
         /\ step[t].locked \in BOOLEAN
         /\ step[t] \in Approval
  BY DEF TypeOK, Serving, NullOr, Capture, Correction, Approval

LEMMA MatchSound == TypeOK /\ LinesMatch => AdjustmentsMatchLines
  <1>. SUFFICES ASSUME TypeOK, LinesMatch PROVE AdjustmentsMatchLines
    OBVIOUS
  <1>1. ASSUME NEW n \in Session
        PROVE  status[n] = "APPROVED" => Captured(lines[n]) # {}
    BY SheetTyped, CapturedIn DEF LinesMatch
  <1>2. ASSUME NEW n \in Session, NEW p \in Captured(lines[n])
        PROVE  Matches(status[n], lines[n][p], movements[p])
    <2>1. p \in Pair /\ lines[n][p] # None
      BY SheetTyped, CapturedIn
    <2>. QED BY <2>1 DEF LinesMatch
  <1>. QED BY <1>1, <1>2 DEF AdjustmentsMatchLines, Matches

LEMMA FollowSound == TypeOK /\ LinesFollow => CorrectionsNotLost
  <1>. SUFFICES ASSUME TypeOK, LinesFollow PROVE CorrectionsNotLost
    OBVIOUS
  <1>1. ASSUME NEW n \in Session, NEW p \in Captured(lines[n])
        PROVE  Follows(lines[n][p], revisions[n][p])
    <2>1. p \in Pair /\ lines[n][p] # None
      BY SheetTyped, CapturedIn
    <2>. QED BY <2>1 DEF LinesFollow
  <1>. QED BY <1>1 DEF CorrectionsNotLost, Follows

-----------------------------------------------------------------------------
(* Requests: what changes when only one of them goes a step further.       *)

OnlyStep(t) ==
  /\ step' \in [Txn -> NullOr(Capture \cup Correction \cup Approval)]
  /\ \A u \in Txn : u # t => step'[u] = step[u]

LEMMA DoneStep ==
  ASSUME TypeOK, NEW t \in Txn, Done(t)
  PROVE  OnlyStep(t) /\ step'[t] = None
  BY DEF TypeOK, Done, OnlyStep, NullOr

\* What is true of the other requests and of the tables remains so.
LEMMA OneStepKeeps ==
  ASSUME IInv, NEW t \in Txn, OnlyStep(t), UNCHANGED tables,
         Holds(t)' => \A u \in Txn : Holds(u) => u = t \/ step[u].session # step'[t].session,
         Serving(t, "capture")' =>
           /\ status[step'[t].session] = "OPEN"
           /\ lines[step'[t].session][step'[t].pair] = None,
         Serving(t, "approve")' =>
           /\ status[step'[t].session] = "PENDING_APPROVAL"
           /\ lines[step'[t].session] = step'[t].read
           /\ Captured(step'[t].read) # {},
         \A p \in Pair : Locks(t, p)' =>
           /\ Balance(p) = step'[t].read[p].expected
           /\ \A u \in Txn : Locks(u, p) => u = t,
         Serving(t, "correct")' =>
           LET line == lines[step'[t].session][step'[t].pair]
           IN  /\ line # None
               /\ step'[t].saw.version <= line.version
               /\ step'[t].saw.version = line.version =>
                    step'[t].saw.counted = line.counted
  PROVE  IInv'
  <1>1. TypeOK'
    BY DEF IInv, TypeOK, tables, OnlyStep
  <1>2. OneHolder'
    BY DEF IInv, OneHolder, OnlyStep, Holds, Serving
  <1>3. CapturesInsert'
    BY DEF IInv, CapturesInsert, OnlyStep, Serving, tables
  <1>4. ApprovalsReadLines'
    BY DEF IInv, ApprovalsReadLines, OnlyStep, Serving, tables
  <1>5. LockedAsExpected'
    <2>1. \A p \in Pair : Balance(p)' = Balance(p)
      BY DEF Balance, tables
    <2>2. \A u \in Txn, p \in Pair : u # t => Locks(u, p)' = Locks(u, p)
      BY DEF OnlyStep, Locks, Serving
    <2>. QED BY <2>1, <2>2 DEF IInv, LockedAsExpected, OnlyStep
  <1>6. CorrectionsLag'
    BY DEF IInv, CorrectionsLag, OnlyStep, Serving, tables
  <1>7. NoLineNoRevision' /\ LinesMatch' /\ LinesFollow'
    BY DEF IInv, NoLineNoRevision, LinesMatch, LinesFollow, tables
  <1>. QED BY <1>1, <1>2, <1>3, <1>4, <1>5, <1>6, <1>7 DEF IInv

LEMMA BeginCaptureKeeps ==
  ASSUME IInv, NEW t \in Txn, NEW n \in Session, NEW p \in Pair,
         NEW counted \in Quantity, BeginCapture(t, n, p, counted)
  PROVE  IInv'
  <1>. DEFINE c == [op |-> "capture", session |-> n, pair |-> p,
                    counted |-> counted, expected |-> Balance(p)]
  <1>1. TypeOK
    BY DEF IInv
  <1>2. c \in Capture
    BY <1>1, BalanceTyped DEF Capture
  <1>3. OnlyStep(t) /\ step'[t] = c
    <2>1. step' = [step EXCEPT ![t] = c]
      BY DEF BeginCapture
    <2>. HIDE DEF c
    <2>. QED BY <1>1, <1>2, <2>1 DEF TypeOK, OnlyStep, NullOr
  <1>4. /\ Serving(t, "approve")' = FALSE /\ Serving(t, "correct")' = FALSE
        /\ \A q \in Pair : ~ Locks(t, q)'
    BY <1>3 DEF Serving, Locks
  <1>5. \A u \in Txn : Holds(u) => step[u].session # step'[t].session
    BY <1>3 DEF BeginCapture, SessionFree, Holds
  <1>6. status[n] = "OPEN" /\ lines[n][p] = None /\ UNCHANGED tables
    BY DEF BeginCapture
  <1>. QED BY <1>3, <1>4, <1>5, <1>6, OneStepKeeps

LEMMA ReadLineKeeps ==
  ASSUME IInv, NEW t \in Txn, NEW n \in Session, NEW p \in Pair, ReadLine(t, n, p)
  PROVE  IInv'
  <1>. DEFINE c == [op |-> "correct", session |-> n, pair |-> p, saw |-> lines[n][p]]
  <1>1. TypeOK
    BY DEF IInv
  <1>2. lines[n][p] # None /\ lines[n][p] \in LineRow /\ UNCHANGED tables
    BY <1>1, SheetTyped DEF ReadLine
  <1>3. c \in Correction
    BY <1>2 DEF Correction
  <1>4. OnlyStep(t) /\ step'[t] = c
    <2>1. step' = [step EXCEPT ![t] = c]
      BY DEF ReadLine
    <2>. HIDE DEF c
    <2>. QED BY <1>1, <1>3, <2>1 DEF TypeOK, OnlyStep, NullOr
  <1>5. /\ Serving(t, "approve")' = FALSE /\ Serving(t, "capture")' = FALSE
        /\ Holds(t)' = FALSE /\ \A q \in Pair : ~ Locks(t, q)'
    BY <1>4 DEF Serving, Locks, Holds
  <1>6. lines[n][p].version <= lines[n][p].version
    BY <1>2 DEF LineRow
  <1>. QED BY <1>2, <1>4, <1>5, <1>6, OneStepKeeps

LEMMA BeginApproveKeeps ==
  ASSUME IInv, NEW t \in Txn, NEW n \in Session, BeginApprove(t, n)
  PROVE  IInv'
  <1>. DEFINE c == [op |-> "approve", session |-> n, read |-> lines[n], locked |-> FALSE]
  <1>1. TypeOK
    BY DEF IInv
  <1>2. c \in Approval
    BY <1>1, SheetTyped DEF Approval
  <1>3. OnlyStep(t) /\ step'[t] = c
    <2>1. step' = [step EXCEPT ![t] = c]
      BY DEF BeginApprove
    <2>. HIDE DEF c
    <2>. QED BY <1>1, <1>2, <2>1 DEF TypeOK, OnlyStep, NullOr
  <1>4. /\ Serving(t, "capture")' = FALSE /\ Serving(t, "correct")' = FALSE
        /\ \A q \in Pair : ~ Locks(t, q)'
    BY <1>3 DEF Serving, Locks
  <1>5. \A u \in Txn : Holds(u) => step[u].session # step'[t].session
    BY <1>3 DEF BeginApprove, SessionFree, Holds
  <1>6. /\ status[n] = "PENDING_APPROVAL" /\ Captured(lines[n]) # {}
        /\ UNCHANGED tables
    BY DEF BeginApprove
  <1>. QED BY <1>3, <1>4, <1>5, <1>6, OneStepKeeps

LEMMA LockBalancesKeeps ==
  ASSUME IInv, NEW t \in Txn, LockBalances(t)
  PROVE  IInv'
  <1>. DEFINE c == [step[t] EXCEPT !.locked = TRUE]
  <1>1. TypeOK /\ Serving(t, "approve") /\ step[t].locked = FALSE /\ UNCHANGED tables
    <2>1. TypeOK /\ Serving(t, "approve") /\ ~ step[t].locked /\ UNCHANGED tables
      BY DEF IInv, LockBalances
    <2>2. step[t].locked \in BOOLEAN
      BY <2>1, ApprovalServed
    <2>. QED BY <2>1, <2>2
  <1>2. step[t] \in Approval
    BY <1>1, ApprovalServed
  <1>3. /\ c \in Approval /\ c.session = step[t].session /\ c.read = step[t].read
        /\ c.op = "approve" /\ c.locked = TRUE
    BY <1>2 DEF Approval
  <1>4. OnlyStep(t) /\ step'[t] = c
    <2>1. step' = [step EXCEPT ![t] = c]
      BY <1>1 DEF LockBalances, TypeOK
    <2>. HIDE DEF c
    <2>. QED BY <1>1, <1>3, <2>1 DEF TypeOK, OnlyStep, NullOr
  <1>. HIDE DEF c
  <1>5. Serving(t, "capture")' = FALSE /\ Serving(t, "correct")' = FALSE
    BY <1>3, <1>4 DEF Serving
  <1>6. \A u \in Txn : Holds(u) => u = t \/ step[u].session # step'[t].session
    BY <1>1, <1>3, <1>4 DEF IInv, OneHolder, Holds
  <1>7. /\ status[step'[t].session] = "PENDING_APPROVAL"
        /\ lines[step'[t].session] = step'[t].read
        /\ Captured(step'[t].read) # {}
    BY <1>1, <1>3, <1>4 DEF IInv, ApprovalsReadLines
  <1>8. ASSUME NEW p \in Pair, Locks(t, p)'
        PROVE  /\ Balance(p) = step'[t].read[p].expected
               /\ \A u \in Txn : Locks(u, p) => u = t
    <2>1. p \in Adjustable(step[t].read)
      BY <1>3, <1>4, <1>8 DEF Locks
    <2>2. BalanceFree(p) /\ Balance(p) = step[t].read[p].expected
      BY <2>1 DEF LockBalances
    <2>. QED BY <1>3, <1>4, <2>2 DEF BalanceFree, Locks
  <1>. QED BY <1>1, <1>4, <1>5, <1>6, <1>7, <1>8, OneStepKeeps

LEMMA AbandonKeeps ==
  ASSUME IInv, NEW t \in Txn, Abandon(t)
  PROVE  IInv'
  <1>1. OnlyStep(t) /\ step'[t] = None
    BY DoneStep DEF Abandon, IInv
  <1>2. /\ \A op : Serving(t, op)' = FALSE
        /\ Holds(t)' = FALSE /\ \A q \in Pair : ~ Locks(t, q)'
    BY <1>1 DEF Serving, Locks, Holds
  <1>. QED BY <1>1, <1>2, OneStepKeeps DEF Abandon

-----------------------------------------------------------------------------
(* The status of a session that nobody holds.                              *)

LEMMA StatusKeeps ==
  ASSUME IInv, NEW n \in Session, NEW s \in Statuses, s # "APPROVED",
         status[n] # "APPROVED", SessionFree(n),
         status' = [status EXCEPT ![n] = s],
         UNCHANGED <<lines, revisions, stock, movements, step>>
  PROVE  IInv'
  <1>1. \A m \in Session : status'[m] = IF m = n THEN s ELSE status[m]
    BY DEF IInv, TypeOK
  <1>2. TypeOK'
    BY DEF IInv, TypeOK, NullOr
  <1>3. \A t \in Txn : Holds(t) => step[t].session \in Session \ {n}
    BY CaptureServed, ApprovalServed DEF SessionFree, Holds, IInv
  <1>4. \A t \in Txn : \A op : Serving(t, op)' = Serving(t, op)
    BY DEF Serving
  <1>5. OneHolder' /\ CorrectionsLag' /\ NoLineNoRevision' /\ LinesFollow'
    BY DEF IInv, OneHolder, Holds, Serving, CorrectionsLag, NoLineNoRevision, LinesFollow
  <1>6. CapturesInsert' /\ ApprovalsReadLines'
    BY <1>1, <1>3, <1>4 DEF IInv, CapturesInsert, ApprovalsReadLines, Holds
  <1>7. LockedAsExpected'
    BY DEF IInv, LockedAsExpected, Locks, Serving, Balance
  <1>8. LinesMatch'
    BY <1>1 DEF IInv, LinesMatch, Matches
  <1>. QED BY <1>2, <1>5, <1>6, <1>7, <1>8 DEF IInv

LEMMA OpenKeeps ==
  ASSUME IInv, NEW n \in Session, Open(n)
  PROVE  IInv'
  <1>1. status[n] = None
    BY DEF Open
  <1>2. SessionFree(n)
    BY <1>1, InventoryCountAssumption
       DEF IInv, CapturesInsert, ApprovalsReadLines, SessionFree
  <1>. QED BY <1>1, <1>2, StatusKeeps, InventoryCountAssumption DEF Open, Statuses

LEMMA SubmitKeeps ==
  ASSUME IInv, NEW n \in Session, Submit(n)
  PROVE  IInv'
  BY StatusKeeps DEF Submit, Statuses

LEMMA CancelKeeps ==
  ASSUME IInv, NEW n \in Session, Cancel(n)
  PROVE  IInv'
  BY StatusKeeps DEF Cancel, Statuses

-----------------------------------------------------------------------------
(* Stock.                                                                  *)

LEMMA AppendTyped ==
  ASSUME NEW T, NEW s \in Seq(T), NEW e \in T
  PROVE  /\ Append(s, e) \in Seq(T)
         /\ DOMAIN s = 1 .. Len(s) /\ Len(s) \in Nat
         /\ Len(Append(s, e)) = Len(s) + 1
         /\ DOMAIN Append(s, e) = 1 .. (Len(s) + 1)
         /\ \A i \in 1 .. Len(s) : Append(s, e)[i] = s[i]
         /\ Append(s, e)[Len(s) + 1] = e
  <1>1. Len(Append(s, e)) = Len(s) + 1 /\ Len(s) \in Nat
    OBVIOUS
  <1>. QED BY <1>1

\* A movement is recorded for each pair of S, from its balance to the next,
\* and for no other.
OnlyPosts(S) ==
  /\ DOMAIN stock' \subseteq Pair /\ stock' \in [DOMAIN stock' -> Quantity]
  /\ movements' \in [Pair -> Seq(MovementRow)]
  /\ \A p \in Pair :
       IF p \in S
       THEN \E m \in MovementRow :
              /\ m.before = Balance(p) /\ m.after = Balance(p)'
              /\ movements'[p] = Append(movements[p], m)
       ELSE Balance(p)' = Balance(p) /\ movements'[p] = movements[p]

LEMMA PostEffect ==
  ASSUME TypeOK, NEW p \in Pair, NEW kind \in {"ADJUSTMENT", "RECEIPT"},
         NEW after \in Quantity, Post(p, kind, after)
  PROVE  OnlyPosts({p}) /\ Balance(p)' = after
  <1>. DEFINE m == [kind |-> kind, before |-> Balance(p), after |-> after]
  <1>1. m \in MovementRow
    BY BalanceTyped DEF MovementRow
  <1>2. /\ DOMAIN stock' = DOMAIN stock \cup {p}
        /\ \A q \in DOMAIN stock' : stock'[q] = IF q = p THEN after ELSE stock[q]
        /\ stock' \in [DOMAIN stock' -> Quantity]
    BY DEF Post, TypeOK
  <1>3. movements' = [movements EXCEPT ![p] = Append(movements[p], m)]
    BY DEF Post
  <1>4. \A q \in Pair : Balance(q)' = IF q = p THEN after ELSE Balance(q)
    BY <1>2 DEF Balance
  <1>5. Append(movements[p], m) \in Seq(MovementRow)
    BY <1>1 DEF TypeOK
  <1>6. m.before = Balance(p) /\ m.after = Balance(p)'
    BY <1>4
  <1>. HIDE DEF m
  <1>. QED BY <1>1, <1>2, <1>3, <1>4, <1>5, <1>6 DEF OnlyPosts, TypeOK

\* What has been recorded stays where it is.
LEMMA MovementsStay ==
  ASSUME TypeOK, NEW S, OnlyPosts(S), NEW p \in Pair, NEW i \in 1 .. Len(movements[p])
  PROVE  i \in 1 .. Len(movements'[p]) /\ movements'[p][i] = movements[p][i]
  <1>1. movements[p] \in Seq(MovementRow)
    BY DEF TypeOK
  <1>2. CASE p \in S
    <2>1. PICK m \in MovementRow : movements'[p] = Append(movements[p], m)
      BY <1>2 DEF OnlyPosts
    <2>. QED BY <1>1, <2>1, AppendTyped
  <1>3. CASE p \notin S
    BY <1>3 DEF OnlyPosts
  <1>. QED BY <1>2, <1>3

LEMMA MatchStays ==
  ASSUME TypeOK, NEW S, OnlyPosts(S), NEW p \in Pair, NEW state, NEW line \in LineRow,
         Matches(state, line, movements[p])
  PROVE  Matches(state, line, movements'[p])
  BY MovementsStay DEF Matches

LEMMA StockKeeps ==
  ASSUME IInv, NEW S, OnlyPosts(S), \A p \in S : BalanceFree(p),
         UNCHANGED <<status, lines, revisions, step>>
  PROVE  IInv'
  <1>1. TypeOK'
    BY DEF IInv, TypeOK, OnlyPosts
  <1>2. OneHolder' /\ CorrectionsLag' /\ NoLineNoRevision' /\ LinesFollow'
    BY DEF IInv, OneHolder, Holds, Serving, CorrectionsLag, NoLineNoRevision, LinesFollow
  <1>3. CapturesInsert' /\ ApprovalsReadLines'
    BY DEF IInv, CapturesInsert, ApprovalsReadLines, Serving
  <1>4. LockedAsExpected'
    <2>1. \A t \in Txn, p \in Pair : Locks(t, p)' = Locks(t, p)
      BY DEF Locks, Serving
    <2>2. \A t \in Txn, p \in Pair : Locks(t, p) => p \notin S
      BY DEF Locks, BalanceFree
    <2>3. \A p \in Pair : p \notin S => Balance(p)' = Balance(p)
      BY DEF OnlyPosts
    <2>. QED BY <2>1, <2>2, <2>3 DEF IInv, LockedAsExpected
  <1>5. LinesMatch'
    <2>1. ASSUME NEW n \in Session, NEW p \in Pair, lines[n][p] # None
          PROVE  Matches(status[n], lines[n][p], movements'[p])
      <3>1. Matches(status[n], lines[n][p], movements[p]) /\ lines[n][p] \in LineRow
        BY <2>1, SheetTyped DEF IInv, LinesMatch
      <3>. QED BY <3>1, MatchStays DEF IInv
    <2>. QED BY <2>1 DEF IInv, LinesMatch
  <1>. QED BY <1>1, <1>2, <1>3, <1>4, <1>5 DEF IInv

LEMMA AdjustStockKeeps ==
  ASSUME IInv, NEW p \in Pair, NEW delta \in Int, AdjustStock(p, delta)
  PROVE  IInv' /\ OnlyPosts({p}) /\ Balance(p)' # Balance(p)
  <1>1. TypeOK /\ p \in DOMAIN stock /\ Balance(p) = stock[p]
    BY DEF IInv, AdjustStock, Balance
  <1>2. OnlyPosts({p}) /\ Balance(p)' = stock[p] + delta
    BY <1>1, PostEffect DEF AdjustStock
  <1>3. Balance(p)' # Balance(p)
    BY <1>1, <1>2, BalanceTyped, QuantitiesWhole DEF AdjustStock
  <1>. QED BY <1>2, <1>3, StockKeeps DEF AdjustStock

LEMMA ReceiveStockKeeps ==
  ASSUME IInv, NEW p \in Pair, NEW quantity \in Quantity, ReceiveStock(p, quantity)
  PROVE  IInv' /\ OnlyPosts({p}) /\ Balance(p)' # Balance(p)
  <1>1. TypeOK
    BY DEF IInv
  <1>2. OnlyPosts({p}) /\ Balance(p)' = Balance(p) + quantity
    BY <1>1, PostEffect DEF ReceiveStock
  <1>3. Balance(p)' # Balance(p)
    BY <1>1, <1>2, BalanceTyped, QuantitiesWhole DEF ReceiveStock
  <1>. QED BY <1>2, <1>3, StockKeeps DEF ReceiveStock

-----------------------------------------------------------------------------
(* Lines.                                                                  *)

\* Only the line of p in session n is written.
OnlyLine(n, p) ==
  /\ lines' \in [Session -> Sheet]
  /\ \A m \in Session, q \in Pair : m # n \/ q # p => lines'[m][q] = lines[m][q]
  /\ \A m \in Session : m # n => lines'[m] = lines[m]

LEMMA CommitCaptureKeeps ==
  ASSUME IInv, NEW t \in Txn, CommitCapture(t)
  PROVE  IInv'
  <1>. DEFINE n == step[t].session
              p == step[t].pair
              new == Counted(step[t].expected, step[t].counted)
  <1>1. /\ TypeOK /\ Serving(t, "capture")
        /\ UNCHANGED <<status, revisions, stock, movements>>
    BY DEF IInv, CommitCapture
  <1>2. /\ n \in Session /\ p \in Pair
        /\ new \in LineRow /\ new # None
    BY <1>1, CaptureServed, CountedTyped
  <1>3. new.version = 1 /\ new.movement = 0
    BY DEF Counted
  <1>4. status[n] = "OPEN" /\ lines[n][p] = None /\ revisions[n][p] = <<>>
    BY <1>1, <1>2 DEF IInv, CapturesInsert, NoLineNoRevision
  <1>5. lines' = [lines EXCEPT ![n][p] = new]
    BY DEF CommitCapture
  <1>. HIDE DEF new
  <1>6. OnlyLine(n, p) /\ lines'[n][p] = new
    BY <1>1, <1>2, <1>5 DEF OnlyLine, TypeOK, Sheet, NullOr
  <1>7. OnlyStep(t) /\ step'[t] = None
    BY <1>1, DoneStep DEF CommitCapture
  <1>8. TypeOK'
    BY <1>1, <1>6, <1>7 DEF TypeOK, OnlyLine, OnlyStep
  <1>9. /\ \A u \in Txn : u # t => \A op : Serving(u, op)' = Serving(u, op)
        /\ \A op : ~ Serving(t, op)'
    BY <1>7 DEF OnlyStep, Serving
  <1>10. OneHolder'
    BY <1>7, <1>9 DEF IInv, OneHolder, Holds, OnlyStep
  <1>11. \A u \in Txn : u # t /\ Holds(u) => step[u].session \in Session \ {n}
    BY <1>1, CaptureServed, ApprovalServed DEF IInv, OneHolder, Holds
  <1>12. CapturesInsert'
    BY <1>1, <1>6, <1>7, <1>9, <1>11, CaptureServed
       DEF IInv, CapturesInsert, Holds, OnlyLine, OnlyStep
  <1>13. ApprovalsReadLines'
    BY <1>1, <1>6, <1>7, <1>9, <1>11 DEF IInv, ApprovalsReadLines, Holds, OnlyLine, OnlyStep
  <1>14. LockedAsExpected'
    <2>1. \A u \in Txn, q \in Pair :
            /\ Locks(u, q)' => u # t /\ step'[u] = step[u]
            /\ u # t => (Locks(u, q)' <=> Locks(u, q))
            /\ Balance(q)' = Balance(q)
      BY <1>1, <1>7, <1>9 DEF Locks, OnlyStep, Balance
    <2>. QED BY <2>1 DEF IInv, LockedAsExpected
  <1>15. CorrectionsLag'
    <2>. SUFFICES ASSUME NEW u \in Txn, Serving(u, "correct")'
                  PROVE  LET line == lines'[step'[u].session][step'[u].pair]
                         IN  /\ line # None
                             /\ step'[u].saw.version <= line.version
                             /\ step'[u].saw.version = line.version =>
                                  step'[u].saw.counted = line.counted
      BY DEF CorrectionsLag
    <2>1. u # t /\ Serving(u, "correct") /\ step'[u] = step[u]
      BY <1>7, <1>9 DEF OnlyStep
    <2>2. step[u].session \in Session /\ step[u].pair \in Pair
      BY <1>1, <2>1, CorrectionServed
    <2>3. step[u].session # n \/ step[u].pair # p
      BY <1>4, <2>1 DEF IInv, CorrectionsLag
    <2>. QED BY <1>6, <2>1, <2>2, <2>3 DEF IInv, CorrectionsLag, OnlyLine
  <1>16. NoLineNoRevision'
    BY <1>1, <1>2, <1>6 DEF IInv, NoLineNoRevision, OnlyLine
  <1>17. LinesMatch'
    <2>1. ASSUME NEW m \in Session, NEW q \in Pair, lines'[m][q] # None
          PROVE  Matches(status[m], lines'[m][q], movements[q])
      <3>1. CASE m = n /\ q = p
        BY <1>3, <1>4, <1>6, <3>1 DEF Matches
      <3>2. CASE m # n \/ q # p
        BY <1>6, <2>1, <3>2 DEF IInv, LinesMatch, OnlyLine
      <3>. QED BY <3>1, <3>2
    <2>2. ASSUME NEW m \in Session, status[m] = "APPROVED"
          PROVE  \E q \in Pair : lines'[m][q] # None
      BY <1>4, <1>6, <2>2 DEF IInv, LinesMatch, OnlyLine
    <2>. QED BY <1>1, <2>1, <2>2 DEF LinesMatch
  <1>18. LinesFollow'
    <2>1. ASSUME NEW m \in Session, NEW q \in Pair, lines'[m][q] # None
          PROVE  Follows(lines'[m][q], revisions[m][q])
      <3>1. CASE m = n /\ q = p
        BY <1>3, <1>4, <1>6, <3>1 DEF Follows
      <3>2. CASE m # n \/ q # p
        BY <1>6, <2>1, <3>2 DEF IInv, LinesFollow, OnlyLine
      <3>. QED BY <3>1, <3>2
    <2>. QED BY <1>1, <2>1 DEF LinesFollow
  <1>. QED BY <1>8, <1>10, <1>12, <1>13, <1>14, <1>15, <1>16, <1>17, <1>18 DEF IInv

\* A revision of the quantity that was seen continues the revisions.
LEMMA FollowsOn ==
  ASSUME NEW revs \in Seq(Revision), NEW r \in Revision,
         NEW line \in LineRow, NEW new \in LineRow, Follows(line, revs),
         r.before = line.counted, r.saw = line.counted, r.after = new.counted,
         new.version = line.version + 1
  PROVE  Follows(new, Append(revs, r))
  <1>. DEFINE all == Append(revs, r)
  <1>1. /\ Len(revs) \in Nat /\ Len(all) = Len(revs) + 1
        /\ \A i \in 1 .. Len(revs) : all[i] = revs[i]
        /\ all[Len(revs) + 1] = r /\ all # <<>>
    BY AppendTyped
  <1>. HIDE DEF all
  <1>2. new.version = Len(all) + 1
    BY <1>1 DEF Follows
  <1>3. \A i \in 1 .. Len(all) : all[i].saw = all[i].before
    BY <1>1 DEF Follows
  <1>4. ASSUME NEW i \in 1 .. Len(all) - 1
        PROVE  all[i].after = all[i + 1].before
    <2>1. CASE i = Len(revs)
      <3>1. revs # <<>> /\ revs[Len(revs)].after = line.counted
        BY <1>1, <2>1 DEF Follows
      <3>. QED BY <1>1, <2>1, <3>1
    <2>2. CASE i # Len(revs)
      <3>1. i \in 1 .. Len(revs) - 1 /\ i \in 1 .. Len(revs) /\ i + 1 \in 1 .. Len(revs)
        BY <1>1, <2>2
      <3>. QED BY <1>1, <3>1 DEF Follows
    <2>. QED BY <2>1, <2>2
  <1>5. all[Len(all)].after = new.counted
    BY <1>1
  <1>. QED BY <1>2, <1>3, <1>4, <1>5 DEF Follows, all

LEMMA CorrectKeeps ==
  ASSUME IInv, NEW t \in Txn, NEW counted \in Quantity, Correct(t, counted)
  PROVE  IInv'
  <1>. DEFINE n == step[t].session
              p == step[t].pair
              line == lines[n][p]
              new == [line EXCEPT !.counted = counted, !.version = @ + 1]
              r == [before |-> line.counted, after |-> counted,
                    saw |-> step[t].saw.counted]
  <1>1. /\ TypeOK /\ Serving(t, "correct") /\ SessionFree(n) /\ status[n] = "OPEN"
        /\ line.version = step[t].saw.version
        /\ UNCHANGED <<status, stock, movements>>
    BY DEF IInv, Correct
  <1>2. /\ n \in Session /\ p \in Pair /\ step[t].saw \in LineRow
        /\ line # None /\ line \in LineRow /\ step[t].saw.counted = line.counted
    <2>1. n \in Session /\ p \in Pair /\ step[t].saw \in LineRow
      BY <1>1, CorrectionServed
    <2>2. line # None /\ step[t].saw.counted = line.counted
      BY <1>1 DEF IInv, CorrectionsLag
    <2>. QED BY <1>1, <2>1, <2>2, SheetTyped
  <1>3. /\ new \in LineRow /\ new # None /\ new.counted = counted
        /\ new.version = line.version + 1 /\ new.movement = line.movement
    <2>1. line.version + 1 \in Nat
      BY <1>2 DEF LineRow
    <2>. QED BY <1>2, <2>1, InventoryCountAssumption DEF LineRow
  <1>4. r \in Revision /\ r.before = line.counted /\ r.saw = line.counted /\ r.after = counted
    BY <1>2 DEF Revision, LineRow
  <1>5. OnlyLine(n, p) /\ lines'[n][p] = new
    <2>1. lines' = [lines EXCEPT ![n][p].counted = counted, ![n][p].version = @ + 1]
      BY Zenon DEF Correct, Recount
    <2>2. lines[n] \in Sheet /\ \A m \in Session : lines[m] \in Sheet
      BY <1>1, <1>2, SheetTyped
    <2>3. lines'[n][p] = new
      BY <1>1, <1>2, <2>1, <2>2 DEF TypeOK, Sheet
    <2>4. /\ \A m \in Session, q \in Pair : m # n \/ q # p => lines'[m][q] = lines[m][q]
          /\ \A m \in Session : m # n => lines'[m] = lines[m]
          /\ DOMAIN lines' = Session /\ DOMAIN lines'[n] = Pair
          /\ lines'[n] = [q \in Pair |-> IF q = p THEN lines'[n][p] ELSE lines[n][q]]
      BY <1>1, <1>2, <2>1, <2>2 DEF TypeOK, Sheet
    <2>5. lines'[n] \in Sheet
      <3>. HIDE DEF new
      <3>. QED BY <1>3, <2>2, <2>3, <2>4 DEF Sheet, NullOr
    <2>6. lines' \in [Session -> Sheet]
      <3>1. lines' = [m \in Session |-> lines'[m]]
        <4>1. DOMAIN lines = Session
          BY <1>1 DEF TypeOK
        <4>. HIDE DEF n, p, line, new, r
        <4>. QED BY <2>1, <4>1
      <3>2. \A m \in Session : lines'[m] \in Sheet
        BY <2>2, <2>4, <2>5
      <3>. QED BY <3>1, <3>2
    <2>. QED BY <2>3, <2>4, <2>6 DEF OnlyLine
  <1>6. revisions' = [revisions EXCEPT ![n][p] = Append(revisions[n][p], r)]
    BY <1>1, <1>2 DEF Correct, Recount, TypeOK
  <1>7. OnlyStep(t) /\ step'[t] = None
    BY <1>1, DoneStep DEF Correct
  <1>. HIDE DEF new, r
  <1>8. /\ revisions' \in [Session -> [Pair -> Seq(Revision)]]
        /\ revisions'[n][p] = Append(revisions[n][p], r)
        /\ \A m \in Session, q \in Pair : m # n \/ q # p =>
             revisions'[m][q] = revisions[m][q]
    <2>1. Append(revisions[n][p], r) \in Seq(Revision)
      BY <1>1, <1>2, <1>4 DEF TypeOK
    <2>. QED BY <1>1, <1>2, <1>6, <2>1 DEF TypeOK
  <1>9. TypeOK'
    BY <1>1, <1>5, <1>7, <1>8 DEF TypeOK, OnlyLine, OnlyStep
  <1>10. /\ \A u \in Txn : u # t => \A op : Serving(u, op)' = Serving(u, op)
         /\ \A op : ~ Serving(t, op)'
    BY <1>7 DEF OnlyStep, Serving
  <1>11. OneHolder'
    BY <1>7, <1>10 DEF IInv, OneHolder, Holds, OnlyStep
  <1>12. \A u \in Txn : Holds(u) => step[u].session \in Session \ {n}
    BY <1>1, CaptureServed, ApprovalServed DEF SessionFree, Holds
  <1>13. CapturesInsert'
    BY <1>1, <1>5, <1>7, <1>10, <1>12, CaptureServed
       DEF IInv, CapturesInsert, Holds, OnlyLine, OnlyStep
  <1>14. ApprovalsReadLines'
    BY <1>1, <1>5, <1>7, <1>10, <1>12 DEF IInv, ApprovalsReadLines, Holds, OnlyLine, OnlyStep
  <1>15. LockedAsExpected'
    <2>1. \A u \in Txn, q \in Pair :
            /\ Locks(u, q)' => u # t /\ step'[u] = step[u]
            /\ u # t => (Locks(u, q)' <=> Locks(u, q))
            /\ Balance(q)' = Balance(q)
      BY <1>1, <1>7, <1>10 DEF Locks, OnlyStep, Balance
    <2>. QED BY <2>1 DEF IInv, LockedAsExpected
  <1>16. CorrectionsLag'
    <2>. SUFFICES ASSUME NEW u \in Txn, Serving(u, "correct")'
                  PROVE  LET now == lines'[step'[u].session][step'[u].pair]
                         IN  /\ now # None
                             /\ step'[u].saw.version <= now.version
                             /\ step'[u].saw.version = now.version =>
                                  step'[u].saw.counted = now.counted
      BY DEF CorrectionsLag
    <2>1. u # t /\ Serving(u, "correct") /\ step'[u] = step[u]
      BY <1>7, <1>10 DEF OnlyStep
    <2>2. /\ step[u].session \in Session /\ step[u].pair \in Pair
          /\ step[u].saw.version \in Nat
      BY <1>1, <2>1, CorrectionServed DEF LineRow
    <2>3. CASE step[u].session = n /\ step[u].pair = p
      <3>1. step[u].saw.version <= line.version /\ line.version \in Nat
        BY <1>2, <2>1, <2>3 DEF IInv, CorrectionsLag, LineRow
      <3>. QED BY <1>3, <1>5, <2>1, <2>2, <2>3, <3>1
    <2>4. CASE step[u].session # n \/ step[u].pair # p
      BY <1>5, <2>1, <2>2, <2>4 DEF IInv, CorrectionsLag, OnlyLine
    <2>. QED BY <2>3, <2>4
  <1>17. NoLineNoRevision'
    <2>. SUFFICES ASSUME NEW m \in Session, NEW q \in Pair, lines'[m][q] = None
                  PROVE  revisions'[m][q] = <<>>
      BY DEF NoLineNoRevision
    <2>1. m # n \/ q # p
      BY <1>3, <1>5
    <2>. QED BY <1>5, <1>8, <2>1 DEF IInv, NoLineNoRevision, OnlyLine
  <1>18. LinesMatch'
    <2>1. ASSUME NEW m \in Session, NEW q \in Pair, lines'[m][q] # None
          PROVE  Matches(status[m], lines'[m][q], movements[q])
      <3>1. CASE m = n /\ q = p
        <4>1. Matches(status[n], line, movements[p])
          BY <1>2 DEF IInv, LinesMatch
        <4>. QED BY <1>1, <1>3, <1>5, <3>1, <4>1 DEF Matches
      <3>2. CASE m # n \/ q # p
        BY <1>5, <2>1, <3>2 DEF IInv, LinesMatch, OnlyLine
      <3>. QED BY <3>1, <3>2
    <2>2. ASSUME NEW m \in Session, status[m] = "APPROVED"
          PROVE  \E q \in Pair : lines'[m][q] # None
      BY <1>1, <1>5, <2>2 DEF IInv, LinesMatch, OnlyLine
    <2>. QED BY <1>1, <2>1, <2>2 DEF LinesMatch
  <1>19. LinesFollow'
    <2>1. ASSUME NEW m \in Session, NEW q \in Pair, lines'[m][q] # None
          PROVE  Follows(lines'[m][q], revisions'[m][q])
      <3>1. CASE m = n /\ q = p
        <4>1. Follows(line, revisions[n][p])
          BY <1>2 DEF IInv, LinesFollow
        <4>2. revisions[n][p] \in Seq(Revision)
          BY <1>1, <1>2 DEF TypeOK
        <4>3. Follows(new, Append(revisions[n][p], r))
          BY <1>2, <1>3, <1>4, <4>1, <4>2, FollowsOn
        <4>. QED BY <1>5, <1>8, <3>1, <4>3
      <3>2. CASE m # n \/ q # p
        BY <1>5, <1>8, <2>1, <3>2 DEF IInv, LinesFollow, OnlyLine
      <3>. QED BY <3>1, <3>2
    <2>. QED BY <2>1 DEF LinesFollow
  <1>. QED BY <1>9, <1>11, <1>13, <1>14, <1>15, <1>16, <1>17, <1>18, <1>19 DEF IInv

-----------------------------------------------------------------------------
(* The commit of an approval.                                              *)

Linked(line, i) == [line EXCEPT !.movement = i]

LEMMA LinkedTyped ==
  ASSUME NEW line \in LineRow, NEW i \in Nat
  PROVE  /\ Linked(line, i) \in LineRow /\ Linked(line, i) # None
         /\ Linked(line, i).movement = i /\ Linked(line, i).version = line.version
         /\ Linked(line, i).counted = line.counted
         /\ Difference(Linked(line, i)) = Difference(line)
  BY InventoryCountAssumption DEF Linked, LineRow, Difference

\* The balances it adjusts become what was counted, because they still are
\* what the lines expected.
LEMMA ApprovalEffect ==
  ASSUME IInv, NEW t \in Txn, CommitApproval(t),
         NEW n, NEW adjusted, n = step[t].session, adjusted = Adjustable(step[t].read)
  PROVE  /\ n \in Session /\ status[n] = "PENDING_APPROVAL"
         /\ status' = [status EXCEPT ![n] = "APPROVED"]
         /\ adjusted = Adjustable(lines[n]) /\ adjusted \in SUBSET Pair
         /\ \E p \in Pair : lines[n][p] # None
         /\ \A p \in adjusted :
              /\ Locks(t, p)
              /\ lines[n][p] \in LineRow /\ lines[n][p] # None
              /\ Difference(lines[n][p]) # 0
              /\ Balance(p)' = lines[n][p].counted
              /\ Balance(p)' - Balance(p) = Difference(lines[n][p])
              /\ movements'[p] =
                   Append(movements[p], [kind |-> "ADJUSTMENT", before |-> Balance(p),
                                         after |-> Balance(p)'])
         /\ OnlyPosts(adjusted)
         /\ \A m \in Session : m # n => lines'[m] = lines[m]
         /\ \A p \in Pair :
              lines'[n][p] = IF p \in adjusted
                             THEN Linked(lines[n][p], Len(movements[p]) + 1)
                             ELSE lines[n][p]
         /\ lines' \in [Session -> Sheet]
         /\ OnlyStep(t) /\ step'[t] = None
         /\ UNCHANGED revisions
  <1>. DEFINE read == step[t].read
              After(p) == Balance(p) + Difference(read[p])
              move(p) == [kind |-> "ADJUSTMENT", before |-> Balance(p), after |-> After(p)]
  <1>1. /\ TypeOK /\ Serving(t, "approve") /\ step[t].locked /\ UNCHANGED revisions
        /\ OnlyStep(t) /\ step'[t] = None
    BY DoneStep DEF CommitApproval, IInv
  <1>2. /\ n \in Session /\ status[n] = "PENDING_APPROVAL"
        /\ lines[n] = read /\ lines[n] \in Sheet /\ Captured(lines[n]) # {}
    BY <1>1, ApprovalServed, SheetTyped DEF IInv, ApprovalsReadLines
  <1>3. adjusted = Adjustable(lines[n]) /\ adjusted \in SUBSET Pair
    BY <1>2, CapturedIn
  <1>4. \E p \in Pair : lines[n][p] # None
    BY <1>2, CapturedIn
  <1>5. ASSUME NEW p \in adjusted
        PROVE  /\ p \in Pair /\ Locks(t, p)
               /\ lines[n][p] \in LineRow /\ lines[n][p] # None
               /\ Difference(lines[n][p]) # 0
               /\ Balance(p) = lines[n][p].expected
               /\ After(p) = lines[n][p].counted
    <2>1. p \in Pair /\ lines[n][p] # None /\ Difference(lines[n][p]) # 0
      BY <1>2, <1>3, CapturedIn
    <2>2. lines[n][p] \in LineRow
      BY <1>1, <1>2, <2>1, SheetTyped
    <2>3. Locks(t, p)
      BY <1>1 DEF Locks
    <2>4. Balance(p) = lines[n][p].expected
      BY <1>2, <2>1, <2>3 DEF IInv, LockedAsExpected
    <2>5. lines[n][p].expected \in Int /\ lines[n][p].counted \in Int
      BY <2>2, QuantitiesWhole DEF LineRow
    <2>6. After(p) = lines[n][p].counted
      BY <1>2, <2>4, <2>5 DEF Difference
    <2>. QED BY <2>1, <2>2, <2>3, <2>4, <2>6
  <1>6. /\ \A p \in adjusted : After(p) \in Quantity
        /\ stock' = [p \in DOMAIN stock \cup adjusted |->
                       IF p \in adjusted THEN After(p) ELSE stock[p]]
        /\ movements' = [p \in Pair |-> IF p \in adjusted
                                        THEN Append(movements[p], move(p))
                                        ELSE movements[p]]
        /\ lines' = [lines EXCEPT ![n] =
                       [p \in Pair |->
                          IF p \in adjusted
                          THEN [lines[n][p] EXCEPT !.movement = Len(movements[p]) + 1]
                          ELSE lines[n][p]]]
        /\ status' = [status EXCEPT ![n] = "APPROVED"]
    BY <1>1, <1>2 DEF CommitApproval, TypeOK
  <1>7. \A p \in Pair : Balance(p)' = IF p \in adjusted THEN After(p) ELSE Balance(p)
    BY <1>6 DEF Balance
  <1>8. OnlyPosts(adjusted)
    <2>1. DOMAIN stock' \subseteq Pair /\ stock' \in [DOMAIN stock' -> Quantity]
      <3>. HIDE DEF After
      <3>. QED BY <1>1, <1>3, <1>6 DEF TypeOK
    <2>2. ASSUME NEW p \in adjusted
          PROVE  /\ move(p) \in MovementRow
                 /\ move(p).before = Balance(p) /\ move(p).after = Balance(p)'
                 /\ Append(movements[p], move(p)) \in Seq(MovementRow)
      <3>1. p \in Pair /\ Balance(p) \in Quantity /\ After(p) \in Quantity
        BY <1>1, <1>5, <1>6, BalanceTyped
      <3>2. move(p) \in MovementRow /\ move(p).before = Balance(p) /\ move(p).after = After(p)
        <4>. HIDE DEF After
        <4>. QED BY <3>1 DEF MovementRow
      <3>. QED BY <1>1, <1>7, <3>1, <3>2 DEF TypeOK
    <2>. HIDE DEF move, After
    <2>3. movements' \in [Pair -> Seq(MovementRow)]
      BY <1>1, <1>6, <2>2 DEF TypeOK
    <2>4. ASSUME NEW p \in Pair
          PROVE  IF p \in adjusted
                 THEN \E m \in MovementRow :
                        /\ m.before = Balance(p) /\ m.after = Balance(p)'
                        /\ movements'[p] = Append(movements[p], m)
                 ELSE Balance(p)' = Balance(p) /\ movements'[p] = movements[p]
      BY <1>6, <1>7, <2>2
    <2>. QED BY <2>1, <2>3, <2>4 DEF OnlyPosts
  <1>9. ASSUME NEW p \in adjusted
        PROVE  /\ Balance(p)' = lines[n][p].counted
               /\ Balance(p)' - Balance(p) = Difference(lines[n][p])
               /\ movements'[p] =
                    Append(movements[p], [kind |-> "ADJUSTMENT", before |-> Balance(p),
                                          after |-> Balance(p)'])
    <2>1. Balance(p)' = After(p) /\ Balance(p)' = lines[n][p].counted
      BY <1>5, <1>7
    <2>2. movements'[p] = Append(movements[p], move(p))
      BY <1>5, <1>6
    <2>3. Balance(p)' - Balance(p) = Difference(lines[n][p])
      BY <1>5, <2>1 DEF Difference
    <2>. QED BY <2>1, <2>2, <2>3
  <1>10. /\ \A m \in Session : m # n => lines'[m] = lines[m]
         /\ \A p \in Pair :
              lines'[n][p] = IF p \in adjusted
                             THEN Linked(lines[n][p], Len(movements[p]) + 1)
                             ELSE lines[n][p]
         /\ DOMAIN lines' = Session /\ DOMAIN lines'[n] = Pair
    BY <1>1, <1>2, <1>6 DEF TypeOK, Linked
  <1>11. lines' \in [Session -> Sheet]
    <2>1. ASSUME NEW p \in Pair
          PROVE  lines'[n][p] \in NullOr(LineRow)
      <3>1. CASE p \in adjusted
        <4>1. Len(movements[p]) + 1 \in Nat
          BY <1>1 DEF TypeOK
        <4>. QED BY <1>5, <1>10, <3>1, <4>1, LinkedTyped DEF NullOr
      <3>2. CASE p \notin adjusted
        BY <1>2, <1>10, <3>2 DEF Sheet
      <3>. QED BY <3>1, <3>2
    <2>2. lines'[n] = [p \in Pair |-> lines'[n][p]]
      BY <1>1, <1>2, <1>6 DEF TypeOK
    <2>3. lines'[n] \in Sheet
      BY <2>1, <2>2 DEF Sheet
    <2>4. \A m \in Session : lines'[m] \in Sheet
      BY <1>1, <1>10, <2>3, SheetTyped
    <2>5. lines' = [m \in Session |-> lines'[m]]
      BY <1>1, <1>6 DEF TypeOK
    <2>. QED BY <2>4, <2>5
  <1>. QED BY <1>1, <1>2, <1>3, <1>4, <1>5, <1>6, <1>8, <1>9, <1>10, <1>11

LEMMA CommitApprovalKeeps ==
  ASSUME IInv, NEW t \in Txn, CommitApproval(t)
  PROVE  IInv'
  <1>1. PICK n, adjusted : n = step[t].session /\ adjusted = Adjustable(step[t].read)
    OBVIOUS
  <1>2. TypeOK
    BY DEF IInv
  <1>3. /\ n \in Session /\ status[n] = "PENDING_APPROVAL"
        /\ status' = [status EXCEPT ![n] = "APPROVED"]
        /\ adjusted = Adjustable(lines[n]) /\ adjusted \in SUBSET Pair
        /\ \E p \in Pair : lines[n][p] # None
    BY <1>1, ApprovalEffect
  <1>4. \A p \in adjusted :
          /\ Locks(t, p)
          /\ lines[n][p] \in LineRow /\ lines[n][p] # None
          /\ Difference(lines[n][p]) # 0
          /\ Balance(p)' - Balance(p) = Difference(lines[n][p])
          /\ movements'[p] =
               Append(movements[p], [kind |-> "ADJUSTMENT", before |-> Balance(p),
                                     after |-> Balance(p)'])
    BY <1>1, ApprovalEffect
  <1>5. /\ OnlyPosts(adjusted)
        /\ \A m \in Session : m # n => lines'[m] = lines[m]
        /\ \A p \in Pair :
             lines'[n][p] = IF p \in adjusted
                            THEN Linked(lines[n][p], Len(movements[p]) + 1)
                            ELSE lines[n][p]
        /\ lines' \in [Session -> Sheet]
        /\ OnlyStep(t) /\ step'[t] = None /\ UNCHANGED revisions
    BY <1>1, ApprovalEffect
  <1>6. \A m \in Session : status'[m] = IF m = n THEN "APPROVED" ELSE status[m]
    BY <1>2, <1>3 DEF TypeOK
  <1>7. TypeOK'
    <2>1. status' \in [Session -> NullOr(Statuses)]
      BY <1>2, <1>3 DEF TypeOK, NullOr, Statuses
    <2>. QED BY <1>2, <1>5, <2>1 DEF TypeOK, OnlyPosts, OnlyStep
  <1>8. /\ \A u \in Txn : u # t => \A op : Serving(u, op)' = Serving(u, op)
        /\ \A op : ~ Serving(t, op)'
        /\ \A u \in Txn : u # t => step'[u] = step[u]
    BY <1>5 DEF OnlyStep, Serving
  <1>9. OneHolder'
    BY <1>8 DEF IInv, OneHolder, Holds
  <1>10. \A u \in Txn : u # t /\ Holds(u) => step[u].session \in Session \ {n}
    <2>1. Holds(t)
      BY DEF CommitApproval, Holds
    <2>. QED BY <1>1, <1>2, <2>1, CaptureServed, ApprovalServed DEF IInv, OneHolder, Holds
  <1>11. CapturesInsert'
    BY <1>5, <1>6, <1>8, <1>10 DEF IInv, CapturesInsert, Holds
  <1>12. ApprovalsReadLines'
    <2>. SUFFICES ASSUME NEW u \in Txn, Serving(u, "approve")'
                  PROVE  /\ status'[step'[u].session] = "PENDING_APPROVAL"
                         /\ lines'[step'[u].session] = step'[u].read
                         /\ Captured(step'[u].read) # {}
      BY DEF ApprovalsReadLines
    <2>1. u # t /\ Serving(u, "approve") /\ step'[u] = step[u]
      BY <1>8
    <2>2. step[u].session \in Session \ {n}
      BY <1>10, <2>1 DEF Holds
    <2>. QED BY <1>5, <1>6, <2>1, <2>2 DEF IInv, ApprovalsReadLines
  <1>13. LockedAsExpected'
    <2>1. ASSUME NEW u \in Txn, NEW p \in Pair, Locks(u, p)'
          PROVE  /\ u # t /\ step'[u] = step[u] /\ Locks(u, p) /\ p \notin adjusted
      <3>1. u # t /\ step'[u] = step[u] /\ Locks(u, p)
        BY <1>8, <2>1 DEF Locks
      <3>2. p \notin adjusted
        BY <1>4, <3>1 DEF IInv, LockedAsExpected
      <3>. QED BY <3>1, <3>2
    <2>2. \A p \in Pair : p \notin adjusted => Balance(p)' = Balance(p)
      BY <1>5 DEF OnlyPosts
    <2>. QED BY <2>1, <2>2 DEF IInv, LockedAsExpected
  <1>. DEFINE linked(p) == Linked(lines[n][p], Len(movements[p]) + 1)
  <1>14. ASSUME NEW p \in adjusted
         PROVE  /\ lines'[n][p] = linked(p) /\ lines'[n][p] # None
                /\ lines'[n][p].movement = Len(movements[p]) + 1
                /\ lines'[n][p].version = lines[n][p].version
                /\ lines'[n][p].counted = lines[n][p].counted
                /\ Difference(lines'[n][p]) = Difference(lines[n][p])
    <2>1. p \in Pair /\ lines[n][p] \in LineRow
      BY <1>3, <1>4
    <2>2. Len(movements[p]) + 1 \in Nat
      BY <1>2, <2>1 DEF TypeOK
    <2>3. /\ linked(p) # None /\ linked(p).movement = Len(movements[p]) + 1
          /\ linked(p).version = lines[n][p].version
          /\ linked(p).counted = lines[n][p].counted
          /\ Difference(linked(p)) = Difference(lines[n][p])
      BY <2>1, <2>2, LinkedTyped
    <2>4. lines'[n][p] = linked(p)
      BY <1>5, <2>1
    <2>. HIDE DEF linked
    <2>. QED BY <2>3, <2>4
  <1>15. \A m \in Session, p \in Pair :
           /\ lines[m][p] = None <=> lines'[m][p] = None
           /\ lines[m][p] # None =>
                /\ lines'[m][p].version = lines[m][p].version
                /\ lines'[m][p].counted = lines[m][p].counted
    <2>1. ASSUME NEW m \in Session, NEW p \in Pair
          PROVE  /\ lines[m][p] = None <=> lines'[m][p] = None
                 /\ lines[m][p] # None =>
                      /\ lines'[m][p].version = lines[m][p].version
                      /\ lines'[m][p].counted = lines[m][p].counted
      <3>1. CASE m = n /\ p \in adjusted
        BY <1>4, <1>14, <3>1
      <3>2. CASE m # n \/ p \notin adjusted
        BY <1>5, <3>2
      <3>. QED BY <3>1, <3>2
    <2>. QED BY <2>1
  <1>16. CorrectionsLag'
    <2>. SUFFICES ASSUME NEW u \in Txn, Serving(u, "correct")'
                  PROVE  LET now == lines'[step'[u].session][step'[u].pair]
                         IN  /\ now # None
                             /\ step'[u].saw.version <= now.version
                             /\ step'[u].saw.version = now.version =>
                                  step'[u].saw.counted = now.counted
      BY DEF CorrectionsLag
    <2>1. Serving(u, "correct") /\ step'[u] = step[u]
      BY <1>8
    <2>2. step[u].session \in Session /\ step[u].pair \in Pair
      BY <1>2, <2>1, CorrectionServed
    <2>3. LET now == lines[step[u].session][step[u].pair]
          IN  /\ now # None
              /\ step[u].saw.version <= now.version
              /\ step[u].saw.version = now.version => step[u].saw.counted = now.counted
      BY <2>1 DEF IInv, CorrectionsLag
    <2>. QED BY <1>15, <2>1, <2>2, <2>3
  <1>17. NoLineNoRevision'
    BY <1>5, <1>15 DEF IInv, NoLineNoRevision
  <1>18. LinesFollow'
    <2>1. ASSUME NEW m \in Session, NEW p \in Pair, lines'[m][p] # None
          PROVE  Follows(lines'[m][p], revisions[m][p])
      <3>1. lines[m][p] # None /\ Follows(lines[m][p], revisions[m][p])
        BY <1>15, <2>1 DEF IInv, LinesFollow
      <3>. QED BY <1>15, <3>1 DEF Follows
    <2>. QED BY <1>5, <2>1 DEF LinesFollow
  <1>19. LinesMatch'
    <2>1. ASSUME NEW m \in Session, NEW p \in Pair, lines'[m][p] # None
          PROVE  Matches(status'[m], lines'[m][p], movements'[p])
      <3>1. /\ lines[m][p] # None /\ lines[m][p] \in LineRow
            /\ Matches(status[m], lines[m][p], movements[p])
        BY <1>2, <1>15, <2>1, SheetTyped DEF IInv, LinesMatch
      <3>2. CASE m = n /\ p \in adjusted
        <4>. DEFINE i == Len(movements[p]) + 1
                    e == [kind |-> "ADJUSTMENT", before |-> Balance(p), after |-> Balance(p)']
        <4>1. movements[p] \in Seq(MovementRow) /\ i \in Nat
          BY <1>2 DEF TypeOK
        <4>2. movements'[p] = Append(movements[p], e)
          BY <1>4, <3>2
        <4>3. Len(movements'[p]) = i /\ movements'[p][i] = e
          <5>. HIDE DEF e
          <5>1. /\ Len(Append(movements[p], e)) = Len(movements[p]) + 1
                /\ Append(movements[p], e)[Len(movements[p]) + 1] = e
            BY <4>1
          <5>. QED BY <4>2, <5>1
        <4>4. /\ lines'[m][p].movement = i
              /\ Difference(lines'[m][p]) = Balance(p)' - Balance(p)
          BY <1>4, <1>14, <3>2
        <4>5. i \in 1 .. Len(movements'[p])
          BY <4>1, <4>3
        <4>6. e.kind = "ADJUSTMENT" /\ e.after - e.before = Balance(p)' - Balance(p)
          OBVIOUS
        <4>. HIDE DEF e, i
        <4>7. status'[m] = "APPROVED" /\ Difference(lines'[m][p]) # 0
          BY <1>4, <1>6, <3>2, <4>4
        <4>. QED BY <4>3, <4>4, <4>5, <4>6, <4>7 DEF Matches
      <3>3. CASE m = n /\ p \notin adjusted
        <4>1. Difference(lines[n][p]) = 0
          BY <1>2, <1>3, <3>1, <3>3, SheetTyped, CapturedIn
        <4>. QED BY <1>3, <1>5, <3>1, <3>3, <4>1 DEF Matches
      <3>4. CASE m # n
        BY <1>2, <1>5, <1>6, <3>1, <3>4, MatchStays
      <3>. QED BY <3>2, <3>3, <3>4
    <2>2. ASSUME NEW m \in Session, status'[m] = "APPROVED"
          PROVE  \E p \in Pair : lines'[m][p] # None
      BY <1>3, <1>6, <1>15, <2>2 DEF IInv, LinesMatch
    <2>. QED BY <2>1, <2>2 DEF LinesMatch
  <1>. QED BY <1>7, <1>9, <1>11, <1>12, <1>13, <1>16, <1>17, <1>18, <1>19 DEF IInv

-----------------------------------------------------------------------------
(* The invariant.                                                          *)

LEMMA InitInv == CountInit => IInv
  <1>. SUFFICES ASSUME CountInit PROVE IInv
    OBVIOUS
  <1>1. TypeOK
    BY InventoryCountAssumption DEF CountInit, TypeOK, Sheet, NullOr
  <1>2. \A t \in Txn : \A op : ~ Serving(t, op)
    BY DEF CountInit, Serving
  <1>3. /\ OneHolder /\ CapturesInsert /\ ApprovalsReadLines /\ CorrectionsLag
        /\ LockedAsExpected
    BY <1>2 DEF OneHolder, Holds, CapturesInsert, ApprovalsReadLines, CorrectionsLag,
                LockedAsExpected, Locks
  <1>4. NoLineNoRevision /\ LinesFollow
    BY DEF CountInit, NoLineNoRevision, LinesFollow
  <1>5. LinesMatch
    BY InventoryCountAssumption DEF CountInit, LinesMatch
  <1>. QED BY <1>1, <1>3, <1>4, <1>5 DEF IInv

LEMMA StutterInv == IInv /\ UNCHANGED counting => IInv'
  <1>. SUFFICES ASSUME IInv, UNCHANGED counting PROVE IInv'
    OBVIOUS
  <1>1. TypeOK /\ OnlyPosts({})
    BY DEF IInv, TypeOK, OnlyPosts, counting, tables, Balance
  <1>. QED BY <1>1, StockKeeps DEF counting, tables

LEMMA NextInv == IInv /\ CountNext => IInv'
  <1>. SUFFICES ASSUME IInv, CountNext PROVE IInv'
    OBVIOUS
  <1>1. \A q \in Quantity : q \in Int /\ -q \in Int
    BY QuantitiesWhole
  <1>2. ASSUME NEW p \in Pair, NEW q \in Quantity, ReceiveStock(p, q)
        PROVE  IInv'
    BY <1>2, ReceiveStockKeeps
  <1>3. ASSUME NEW p \in Pair, NEW q \in Quantity,
               AdjustStock(p, q) \/ AdjustStock(p, -q)
        PROVE  IInv'
    BY <1>1, <1>3, AdjustStockKeeps
  <1>4. ASSUME NEW n \in Session, Open(n) \/ Submit(n) \/ Cancel(n)
        PROVE  IInv'
    BY <1>4, OpenKeeps, SubmitKeeps, CancelKeeps
  <1>5. ASSUME NEW t \in Txn, NEW n \in Session, NEW p \in Pair, NEW q \in Quantity,
               BeginCapture(t, n, p, q)
        PROVE  IInv'
    BY <1>5, BeginCaptureKeeps
  <1>6. ASSUME NEW t \in Txn, NEW n \in Session, NEW p \in Pair, ReadLine(t, n, p)
        PROVE  IInv'
    BY <1>6, ReadLineKeeps
  <1>7. ASSUME NEW t \in Txn, NEW q \in Quantity, Correct(t, q)
        PROVE  IInv'
    BY <1>7, CorrectKeeps
  <1>8. ASSUME NEW t \in Txn, NEW n \in Session, BeginApprove(t, n)
        PROVE  IInv'
    BY <1>8, BeginApproveKeeps
  <1>9. ASSUME NEW t \in Txn,
               \/ CommitCapture(t) \/ LockBalances(t)
               \/ CommitApproval(t) \/ Abandon(t)
        PROVE  IInv'
    BY <1>9, CommitCaptureKeeps, LockBalancesKeeps, CommitApprovalKeeps, AbandonKeeps
  <1>. QED BY <1>2, <1>3, <1>4, <1>5, <1>6, <1>7, <1>8, <1>9 DEF CountNext

LEMMA InvStep == IInv /\ [CountNext]_counting => IInv'
  BY NextInv, StutterInv

\* Types hold; a session is held by one request, an approval finds the lines
\* as it read them, and a locked balance is what its line expected.
THEOREM InventoryCountInv == CountSpec => []IInv
  BY InitInv, InvStep, PTL DEF CountSpec

\* An approved line with a difference is linked to an adjustment of exactly
\* that difference, and no other line is linked.
THEOREM AdjustmentsMatchHolds == CountSpec => []AdjustmentsMatchLines
  <1>1. IInv => AdjustmentsMatchLines
    BY MatchSound DEF IInv
  <1>. QED BY <1>1, InventoryCountInv, PTL

\* Every correction was written by somebody who saw what it replaced.
THEOREM CorrectionsKeptHolds == CountSpec => []CorrectionsNotLost
  <1>1. IInv => CorrectionsNotLost
    BY FollowSound DEF IInv
  <1>. QED BY <1>1, InventoryCountInv, PTL

LEMMA CommitLands ==
  ASSUME IInv, NEW t \in Txn, CommitApproval(t), NEW n \in Session, Approves(n)
  PROVE  \A p \in Adjustable(lines[n]) : Balance(p)' = lines[n][p].counted
  <1>1. PICK m, adjusted : m = step[t].session /\ adjusted = Adjustable(step[t].read)
    OBVIOUS
  <1>2. /\ m \in Session /\ adjusted = Adjustable(lines[m])
        /\ status' = [status EXCEPT ![m] = "APPROVED"]
    BY <1>1, ApprovalEffect
  <1>3. \A p \in adjusted :
          /\ lines[m][p] \in LineRow /\ lines[m][p] # None
          /\ Balance(p)' = lines[m][p].counted
          /\ movements'[p] =
               Append(movements[p], [kind |-> "ADJUSTMENT", before |-> Balance(p),
                                     after |-> Balance(p)'])
    BY <1>1, ApprovalEffect
  <1>4. n = m
    BY <1>2 DEF Approves, IInv, TypeOK
  <1>. QED BY <1>2, <1>3, <1>4

LEMMA LandingStep == IInv /\ CountNext => Landing
  <1>. SUFFICES ASSUME IInv, CountNext, NEW n \in Session, Approves(n)
                PROVE  \A p \in Adjustable(lines[n]) : Balance(p)' = lines[n][p].counted
    BY DEF Landing
  <1>1. ASSUME status' = status PROVE FALSE
    BY <1>1 DEF Approves
  <1>2. ASSUME NEW m \in Session, Open(m) \/ Submit(m) \/ Cancel(m)
        PROVE  FALSE
    BY <1>2 DEF Approves, Open, Submit, Cancel, IInv, TypeOK
  <1>3. ASSUME NEW t \in Txn, CommitApproval(t)
        PROVE  \A p \in Adjustable(lines[n]) : Balance(p)' = lines[n][p].counted
    BY <1>3, CommitLands
  <1>. QED BY <1>1, <1>2, <1>3 DEF CountNext, ReceiveStock, AdjustStock, ReadLine,
              BeginCapture, CommitCapture, Correct, BeginApprove, LockBalances, Abandon,
              tables

\* An approval leaves the stock of each adjusted line at what was counted.
THEOREM ApprovalLandsHolds == CountSpec => ApprovalLandsOnCount
  <1>1. IInv /\ [CountNext]_counting => [Landing]_counting
    BY LandingStep
  <1>. QED BY <1>1, InventoryCountInv, PTL DEF CountSpec, ApprovalLandsOnCount

-----------------------------------------------------------------------------
(* The refinement.                                                         *)

\* A movement more in the table is a movement more in the abstract ledger.
LEMMA StepsOfAppend ==
  ASSUME NEW s \in Seq(MovementRow), NEW m \in MovementRow
  PROVE  Steps(Append(s, m)) =
           Append(Steps(s), [before |-> m.before, after |-> m.after])
  <1>. DEFINE Step == [before : Quantity, after : Quantity]
              e == [before |-> m.before, after |-> m.after]
              one == Steps(Append(s, m))
              other == Append(Steps(s), e)
  <1>1. /\ Len(s) \in Nat /\ DOMAIN s = 1 .. Len(s)
        /\ Append(s, m) \in Seq(MovementRow)
        /\ Len(Append(s, m)) = Len(s) + 1
        /\ DOMAIN Append(s, m) = 1 .. (Len(s) + 1)
        /\ \A i \in DOMAIN s : Append(s, m)[i] = s[i]
        /\ Append(s, m)[Len(s) + 1] = m
    BY AppendTyped
  <1>2. ASSUME NEW t \in Seq(MovementRow)
        PROVE  Steps(t) \in Seq(Step) /\ Len(Steps(t)) = Len(t)
    <2>. DEFINE g == [i \in 1 .. Len(t) |-> [before |-> t[i].before, after |-> t[i].after]]
    <2>1. Len(t) \in Nat /\ DOMAIN t = 1 .. Len(t)
      OBVIOUS
    <2>2. ASSUME NEW i \in 1 .. Len(t)
          PROVE  [before |-> t[i].before, after |-> t[i].after] \in Step
      <3>1. t[i] \in MovementRow
        BY <2>1
      <3>. QED BY <3>1 DEF MovementRow
    <2>3. g \in Seq(Step) /\ Len(g) = Len(t)
      BY <2>1, <2>2
    <2>. QED BY <2>1, <2>3 DEF Steps
  <1>3. one \in Seq(Step) /\ Len(one) = Len(s) + 1
    <2>. HIDE DEF Step
    <2>. QED BY <1>1, <1>2
  <1>4. e \in Step
    BY DEF MovementRow
  <1>5. Steps(s) \in Seq(Step) /\ Len(Steps(s)) = Len(s)
    BY <1>2
  <1>6. /\ other \in Seq(Step) /\ Len(other) = Len(s) + 1
        /\ \A i \in 1 .. Len(s) : other[i] = Steps(s)[i]
        /\ other[Len(s) + 1] = e
    BY <1>4, <1>5
  <1>7. \A i \in 1 .. Len(one) : one[i] = other[i]
    BY <1>1, <1>3, <1>6 DEF Steps
  <1>. QED BY <1>3, <1>6, <1>7, SeqEqual

Held == [p \in Pair |-> Balance(p)]
Moves == [p \in Pair |-> Steps(movements[p])]

LEMMA PostsMove ==
  ASSUME TypeOK, TypeOK', NEW S \in SUBSET Pair, OnlyPosts(S)
  PROVE  CountLedger!Move(S)
  <1>1. ASSUME NEW p \in Pair, p \notin S
        PROVE  Held'[p] = Held[p] /\ Moves'[p] = Moves[p]
    BY <1>1 DEF OnlyPosts, Held, Moves
  <1>2. ASSUME NEW p \in S
        PROVE  Moves'[p] = Append(Moves[p], [before |-> Held[p], after |-> Held'[p]])
    <2>1. p \in Pair
      OBVIOUS
    <2>2. PICK m \in MovementRow :
            /\ m.before = Balance(p) /\ m.after = Balance(p)'
            /\ movements'[p] = Append(movements[p], m)
      BY <2>1 DEF OnlyPosts
    <2>3. movements[p] \in Seq(MovementRow)
      BY <2>1 DEF TypeOK
    <2>4. Steps(Append(movements[p], m)) =
            Append(Steps(movements[p]), [before |-> m.before, after |-> m.after])
      BY <2>3, StepsOfAppend
    <2>5. /\ Moves'[p] = Steps(movements'[p]) /\ Moves[p] = Steps(movements[p])
          /\ Held[p] = m.before /\ Held'[p] = m.after
      BY <2>1, <2>2 DEF Moves, Held
    <2>. QED BY <2>2, <2>4, <2>5
  <1>3. Held' \in [Pair -> Quantity]
    <2>1. \A p \in Pair : Balance(p)' \in Quantity
      BY BalancesAssumption DEF OnlyPosts, Balance, Quantity
    <2>. QED BY <2>1 DEF Held
  <1>4. Moves' = [p \in Pair |->
                    IF p \in S
                    THEN Append(Moves[p], [before |-> Held[p], after |-> Held'[p]])
                    ELSE Moves[p]]
    BY <1>1, <1>2 DEF Moves
  <1>. QED BY <1>1, <1>3, <1>4 DEF CountLedger!Move, Held, Moves

LEMMA PostMoves ==
  ASSUME TypeOK, TypeOK', NEW p \in Pair, OnlyPosts({p}), Balance(p)' # Balance(p)
  PROVE  CountLedger!Next
  <1>1. CountLedger!Move({p})
    BY PostsMove
  <1>2. CountLedger!Change(p)
    BY <1>1 DEF CountLedger!Change
  <1>. QED BY <1>2 DEF CountLedger!Next

LEMMA ApprovalMoves ==
  ASSUME IInv, NEW t \in Txn, CommitApproval(t)
  PROVE  CountLedger!Next
  <1>1. PICK n, adjusted : n = step[t].session /\ adjusted = Adjustable(step[t].read)
    OBVIOUS
  <1>2. adjusted \in SUBSET Pair /\ OnlyPosts(adjusted) /\ TypeOK /\ TypeOK'
    BY <1>1, ApprovalEffect, CommitApprovalKeeps DEF IInv
  <1>3. CountLedger!Move(adjusted)
    BY <1>2, PostsMove
  <1>. QED BY <1>2, <1>3 DEF CountLedger!Next

LEMMA LedgerStays ==
  ASSUME UNCHANGED <<stock, movements>>
  PROVE  UNCHANGED CountLedger!vars
  <1>1. \A p \in Pair : Balance(p)' = Balance(p)
    BY DEF Balance
  <1>. QED BY <1>1 DEF CountLedger!vars

LEMMA LedgerInit == CountInit => CountLedger!Init
  <1>. SUFFICES ASSUME CountInit PROVE CountLedger!Init
    OBVIOUS
  <1>1. Steps(<<>>) = <<>>
    BY DEF Steps
  <1>2. ASSUME NEW p \in Pair
        PROVE  /\ Balance(p) = IF p \in DOMAIN Stocked THEN Stocked[p] ELSE 0
               /\ Steps(movements[p]) = <<>>
    BY <1>1 DEF CountInit, Balance
  <1>. QED BY <1>2 DEF CountLedger!Init

LEMMA LedgerStep == IInv /\ [CountNext]_counting => [CountLedger!Next]_(CountLedger!vars)
  <1>. SUFFICES ASSUME IInv, [CountNext]_counting
                PROVE  CountLedger!Next \/ UNCHANGED CountLedger!vars
    OBVIOUS
  <1>0. \A q \in Quantity : q \in Int /\ -q \in Int
    BY QuantitiesWhole
  <1>1. ASSUME NEW p \in Pair, NEW q \in Quantity, ReceiveStock(p, q)
        PROVE  CountLedger!Next
    BY <1>1, ReceiveStockKeeps, PostMoves DEF IInv
  <1>2. ASSUME NEW p \in Pair, NEW q \in Quantity,
               AdjustStock(p, q) \/ AdjustStock(p, -q)
        PROVE  CountLedger!Next
    BY <1>0, <1>2, AdjustStockKeeps, PostMoves DEF IInv
  <1>3. ASSUME NEW t \in Txn, CommitApproval(t)
        PROVE  CountLedger!Next
    BY <1>3, ApprovalMoves
  <1>4. ASSUME UNCHANGED <<stock, movements>>
        PROVE  UNCHANGED CountLedger!vars
    BY <1>4, LedgerStays
  <1>5. CASE UNCHANGED counting
    BY <1>4, <1>5 DEF counting, tables
  <1>. QED BY <1>1, <1>2, <1>3, <1>4, <1>5
           DEF CountNext, Open, Submit, Cancel, ReadLine, BeginCapture, CommitCapture,
               Correct, BeginApprove, LockBalances, Abandon, tables

\* Counts and commands together implement the abstract ledger: the lines of an
\* approval move at once, each from its balance to what was counted.
THEOREM CountsFollowLedgerHolds == CountSpec => CountsFollowLedger
  BY LedgerInit, LedgerStep, InventoryCountInv, PTL
     DEF CountSpec, CountsFollowLedger, CountLedger!Spec
=============================================================================
