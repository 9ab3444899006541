-------------------------- MODULE ClockReadingsProofs --------------------------
(***************************************************************************)
(* What requests that act late on a reading of the clock cannot do, to the *)
(* link with Alexa, to a session, to the allowance of a key and to the     *)
(* throttle of logins, for any number of them and whatever the lifetimes.  *)
(*                                                                         *)
(* The link: what was granted once buys no second grant, and what was      *)
(* revoked or has expired is so for good.  While a request holds a code    *)
(* nothing else consumes it, and while one holds a refresh token nothing   *)
(* makes it unusable; and a credential that is revoked was so after the    *)
(* link was authorized.                                                    *)
(*                                                                         *)
(* The session: it ends in time, and its cookie with it.  Of every instant *)
(* between the first and the last reading it was accepted for another one  *)
(* less than the idle limit before is known, and that is kept by readings  *)
(* that arrive in any order, which gaps between neighbours are not.        *)
(*                                                                         *)
(* The allowance and the throttle: each counted request has a place in the *)
(* window it was counted in, no place is given twice, and windows do not   *)
(* overlap, so a stretch as long as one meets two.  The fourth failure of  *)
(* a window also keeps the next from opening until its block is over, and  *)
(* a block is overshot by attempts that were stale when it began.          *)
(***************************************************************************)
EXTENDS AlexaLinks, SessionLifetimes, LoginThrottle, QueryAllowance, FiniteSetTheorems, TLAPS

Exchange == [step : {"exchange"}, now : Nat, code : Code]
Refresh == [step : {"refresh"}, now : Nat, pair : Pair]
Revoking == [step : {"revoke"}, now : Nat, seen : SUBSET Pair]

TypeOK ==
  /\ clock \in Nat
  /\ account \in [disabled : BOOLEAN, held : BOOLEAN, at : Nat]
  /\ link \in NullOr(LinkRow)
  /\ codes \in [Code -> NullOr(CodeRow)]
  /\ pairs \in [Pair -> NullOr(PairRow)]
  /\ work \in [Request -> NullOr(Exchange \cup Refresh \cup Revoking)]

\* The link is authorized in the past, and before its credential was revoked.
AuthorizedBefore ==
  link # None =>
    /\ link.authorized <= clock
    /\ ~ account.held => link.authorized <= account.at

\* Nobody works for a link that does not exist.
WorkHasLink == \A r \in Request : work[r] # None => link # None

Open(c) == codes[c] # None /\ codes[c].consumed = None

\* A code is held by one request, and open as long as it is held.
ExchangesHold ==
  \A r \in Request : Doing(r, "exchange") =>
    /\ Open(work[r].code)
    /\ \A q \in Request :
         Doing(q, "exchange") /\ work[q].code = work[r].code => q = r

\* A refresh token is held by one request, and can be rotated as long as it is.
RefreshesHold ==
  \A r \in Request : Doing(r, "refresh") =>
    /\ pairs[work[r].pair] # None
    /\ CanRotate(pairs[work[r].pair].refresh, work[r].now)
    /\ \A q \in Request :
         Doing(q, "refresh") /\ work[q].pair = work[r].pair => q = r

\* What a code, or a token, has bought.
CodesBuyOnce ==
  \A p \in Pair : pairs[p] # None /\ pairs[p].from \in Code =>
    /\ codes[pairs[p].from] # None /\ codes[pairs[p].from].consumed # None
    /\ \A q \in Pair : pairs[q] # None /\ pairs[q].from = pairs[p].from => q = p

Bought(issued, used) ==
  /\ used # None /\ used.refresh # None
  /\ used.refresh.reason = "ROTATED"
  /\ issued <= used.refresh.at + Grace

TokensBuyInTime ==
  \A p \in Pair : pairs[p] # None /\ pairs[p].from \in Pair =>
    Bought(pairs[p].issued, pairs[pairs[p].from])

OneOpen == \A c, d \in Code : Open(c) /\ Open(d) => c = d

IInv ==
  /\ TypeOK /\ AuthorizedBefore /\ WorkHasLink /\ ExchangesHold /\ RefreshesHold
  /\ CodesBuyOnce /\ TokensBuyInTime /\ OneOpen

-----------------------------------------------------------------------------
(* Rows.                                                                   *)

LEMMA NoneIsNoRow ==
  /\ \A n \in Nat : n # None
  /\ \A x \in Revocation : x # None
  /\ \A x \in LinkRow : x # None
  /\ \A x \in CodeRow : x # None
  /\ \A x \in PairRow : x # None
  BY AlexaLinksAssumption

LEMMA FreshUnused ==
  ASSUME NEW rows, Unused(rows) # {}
  PROVE  Fresh(rows) \in DOMAIN rows /\ rows[Fresh(rows)] = None
  <1>1. \E x : x \in Unused(rows)
    OBVIOUS
  <1>2. Fresh(rows) \in Unused(rows)
    BY <1>1 DEF Fresh
  <1>. QED BY <1>2 DEF Unused

LEMMA RevokedTyped ==
  ASSUME NEW row \in NullOr(Revocation), NEW now \in Nat,
         NEW reason \in {"ROTATED", "ACCOUNT_REAUTHORIZED", "USER_REVOKED"}
  PROVE  /\ Revoked(row, now, reason) \in Revocation
         /\ Revoked(row, now, reason) # None
         /\ row # None => Revoked(row, now, reason) = row
         /\ row = None => /\ Revoked(row, now, reason).reason = reason
                          /\ Revoked(row, now, reason).at = now
  <1>1. Revoked(row, now, reason) \in Revocation
    BY DEF Revoked, Revocation, NullOr
  <1>. QED BY <1>1, NoneIsNoRow DEF Revoked

LEMMA ExchangeDone ==
  ASSUME TypeOK, NEW r \in Request, Doing(r, "exchange")
  PROVE  work[r].code \in Code /\ work[r].now \in Nat
  BY DEF TypeOK, Doing, NullOr, Exchange, Refresh, Revoking

LEMMA RefreshDone ==
  ASSUME TypeOK, NEW r \in Request, Doing(r, "refresh")
  PROVE  work[r].pair \in Pair /\ work[r].now \in Nat
  BY DEF TypeOK, Doing, NullOr, Exchange, Refresh, Revoking

LEMMA RevokeDone ==
  ASSUME TypeOK, NEW r \in Request, Doing(r, "revoke")
  PROVE  work[r].seen \subseteq Pair /\ work[r].now \in Nat
  BY DEF TypeOK, Doing, NullOr, Exchange, Refresh, Revoking

-----------------------------------------------------------------------------
(* What a step does to the pairs.                                          *)

\* A pair that exists remains, for what it was issued, and what is revoked of
\* it stays as it was revoked.
Carried ==
  /\ pairs' \in [Pair -> NullOr(PairRow)]
  /\ \A p \in Pair : pairs[p] # None =>
       /\ pairs'[p] # None
       /\ pairs'[p].issued = pairs[p].issued
       /\ pairs'[p].from = pairs[p].from
       /\ pairs[p].access # None => pairs'[p].access = pairs[p].access
       /\ pairs[p].refresh # None => pairs'[p].refresh = pairs[p].refresh

NoNewPair == \A p \in Pair : pairs[p] = None => pairs'[p] = None

LEMMA RevokeRowsEffect ==
  ASSUME TypeOK, NEW ps, NEW now \in Nat,
         NEW reason \in {"ROTATED", "ACCOUNT_REAUTHORIZED", "USER_REVOKED"},
         pairs' = RevokeRows(ps, now, reason)
  PROVE  /\ Carried /\ NoNewPair
         /\ \A p \in Pair : pairs[p] # None /\ p \in ps =>
              pairs'[p].access # None /\ pairs'[p].refresh # None
         /\ \A p \in Pair : p \notin ps => pairs'[p] = pairs[p]
  <1>. DEFINE new(p) == [pairs[p] EXCEPT !.access = Revoked(@, now, reason),
                                         !.refresh = Revoked(@, now, reason)]
  <1>1. pairs' = [p \in Pair |-> IF pairs[p] = None \/ p \notin ps THEN pairs[p] ELSE new(p)]
    BY DEF RevokeRows
  <1>2. ASSUME NEW p \in Pair, pairs[p] # None
        PROVE  /\ new(p) \in PairRow /\ new(p) # None
               /\ new(p).issued = pairs[p].issued /\ new(p).from = pairs[p].from
               /\ new(p).access # None /\ new(p).refresh # None
               /\ pairs[p].access # None => new(p).access = pairs[p].access
               /\ pairs[p].refresh # None => new(p).refresh = pairs[p].refresh
    <2>1. pairs[p] \in PairRow
      BY <1>2 DEF TypeOK, NullOr
    <2>2. pairs[p].access \in NullOr(Revocation) /\ pairs[p].refresh \in NullOr(Revocation)
      BY <2>1 DEF PairRow
    <2>. DEFINE a == Revoked(pairs[p].access, now, reason)
                b == Revoked(pairs[p].refresh, now, reason)
    <2>3. /\ a \in Revocation /\ a # None /\ b \in Revocation /\ b # None
          /\ pairs[p].access # None => a = pairs[p].access
          /\ pairs[p].refresh # None => b = pairs[p].refresh
      BY <2>2, RevokedTyped
    <2>4. new(p) = [pairs[p] EXCEPT !.access = a, !.refresh = b]
      BY <2>1 DEF PairRow
    <2>. HIDE DEF a, b, new
    <2>5. /\ new(p) \in PairRow /\ new(p).access = a /\ new(p).refresh = b
          /\ new(p).issued = pairs[p].issued /\ new(p).from = pairs[p].from
      BY <2>1, <2>3, <2>4 DEF PairRow, NullOr
    <2>. QED BY <2>3, <2>5, NoneIsNoRow
  <1>. HIDE DEF new
  <1>3. pairs' \in [Pair -> NullOr(PairRow)]
    BY <1>1, <1>2 DEF TypeOK, NullOr
  <1>. QED BY <1>1, <1>2, <1>3 DEF Carried, NoNewPair

LEMMA IssueEffect ==
  ASSUME TypeOK, NEW now \in Nat, NEW from \in Code \cup Pair,
         Unused(pairs) # {}, link # None
  PROVE  LET p == Fresh(pairs)
         IN  /\ p \in Pair /\ pairs[p] = None
             /\ Issue(now, from) \in [Pair -> NullOr(PairRow)]
             /\ Issue(now, from)[p] \in PairRow
             /\ Issue(now, from)[p].issued = now /\ Issue(now, from)[p].from = from
             /\ \A q \in Pair : q # p => Issue(now, from)[q] = pairs[q]
  <1>. DEFINE p == Fresh(pairs)
              new == [issued |-> now, shown |-> clock, access |-> None,
                      refresh |-> None, nth |-> link.nth, from |-> from]
  <1>1. p \in Pair /\ pairs[p] = None
    BY FreshUnused DEF TypeOK
  <1>2. new \in PairRow /\ new.issued = now /\ new.from = from
    BY DEF PairRow, LinkRow, TypeOK, NullOr
  <1>3. Issue(now, from) = [pairs EXCEPT ![p] = new]
    BY DEF Issue
  <1>. HIDE DEF new, p
  <1>. QED BY <1>1, <1>2, <1>3 DEF TypeOK, NullOr, p

-----------------------------------------------------------------------------
(* What remains true when requests only end and rows go on.                *)

CodesGoOn ==
  /\ codes' \in [Code -> NullOr(CodeRow)]
  /\ \A c \in Code : codes[c] # None =>
       /\ codes'[c] # None
       /\ codes[c].consumed # None => codes'[c].consumed # None

\* Requests end or go on as they were.
WorkGoesOn ==
  /\ work' \in [Request -> NullOr(Exchange \cup Refresh \cup Revoking)]
  /\ \A r \in Request : work'[r] = work[r] \/ work'[r] = None

LEMMA EndsOne ==
  ASSUME TypeOK, NEW r \in Request, Ends(r)
  PROVE  /\ WorkGoesOn /\ work'[r] = None
         /\ \A q \in Request : q # r => work'[q] = work[q]
  BY DEF TypeOK, Ends, WorkGoesOn, NullOr

LEMMA DoingStill ==
  ASSUME WorkGoesOn, NEW r \in Request, NEW step, Doing(r, step)'
  PROVE  Doing(r, step) /\ work'[r] = work[r]
  BY DEF WorkGoesOn, Doing

LEMMA BuyOnceStays ==
  ASSUME TypeOK, CodesBuyOnce, Carried, NoNewPair, CodesGoOn
  PROVE  CodesBuyOnce'
  <1>. SUFFICES ASSUME NEW p \in Pair, pairs'[p] # None, pairs'[p].from \in Code
                PROVE  /\ codes'[pairs'[p].from] # None
                       /\ codes'[pairs'[p].from].consumed # None
                       /\ \A q \in Pair :
                            pairs'[q] # None /\ pairs'[q].from = pairs'[p].from => q = p
    BY DEF CodesBuyOnce
  <1>1. \A q \in Pair : pairs'[q] # None => pairs[q] # None /\ pairs'[q].from = pairs[q].from
    BY DEF Carried, NoNewPair
  <1>. QED BY <1>1 DEF CodesBuyOnce, CodesGoOn

LEMMA InTimeStays ==
  ASSUME TypeOK, TokensBuyInTime, Carried, NoNewPair
  PROVE  TokensBuyInTime'
  <1>. SUFFICES ASSUME NEW p \in Pair, pairs'[p] # None, pairs'[p].from \in Pair
                PROVE  Bought(pairs'[p].issued, pairs'[pairs'[p].from])
    BY DEF TokensBuyInTime
  <1>1. /\ pairs[p] # None /\ pairs'[p].from = pairs[p].from
        /\ pairs'[p].issued = pairs[p].issued
    BY DEF Carried, NoNewPair
  <1>2. Bought(pairs[p].issued, pairs[pairs[p].from])
    BY <1>1 DEF TokensBuyInTime
  <1>. QED BY <1>1, <1>2 DEF Bought, Carried

LEMMA RefreshesStay ==
  ASSUME TypeOK, RefreshesHold, Carried, WorkGoesOn,
         \A r \in Request : Doing(r, "refresh") /\ Doing(r, "refresh")' =>
           pairs'[work[r].pair].refresh = pairs[work[r].pair].refresh
  PROVE  RefreshesHold'
  <1>. SUFFICES ASSUME NEW r \in Request, Doing(r, "refresh")'
                PROVE  /\ pairs'[work'[r].pair] # None
                       /\ CanRotate(pairs'[work'[r].pair].refresh, work'[r].now)
                       /\ \A q \in Request :
                            Doing(q, "refresh")' /\ work'[q].pair = work'[r].pair => q = r
    BY DEF RefreshesHold, CanRotate
  <1>1. \A q \in Request : Doing(q, "refresh")' => Doing(q, "refresh") /\ work'[q] = work[q]
    BY DoingStill
  <1>2. work[r].pair \in Pair
    BY <1>1, RefreshDone
  <1>. QED BY <1>1, <1>2 DEF RefreshesHold, Carried

LEMMA ExchangesStay ==
  ASSUME TypeOK, ExchangesHold, WorkGoesOn,
         \A r \in Request : Doing(r, "exchange") /\ Doing(r, "exchange")' =>
           codes'[work[r].code] = codes[work[r].code]
  PROVE  ExchangesHold'
  <1>1. \A q \in Request : Doing(q, "exchange")' => Doing(q, "exchange") /\ work'[q] = work[q]
    BY DoingStill
  <1>. QED BY <1>1 DEF ExchangesHold, Open

LEMMA LinkStays ==
  ASSUME WorkHasLink, WorkGoesOn, link # None => link' # None
  PROVE  WorkHasLink'
  BY DEF WorkHasLink, WorkGoesOn

\* Steps that write neither codes nor pairs.
LEMMA QuietKeeps ==
  ASSUME IInv, TypeOK', UNCHANGED <<codes, pairs>>, WorkGoesOn, AuthorizedBefore',
         link # None => link' # None
  PROVE  IInv' /\ Carried
  <1>1. Carried /\ NoNewPair /\ CodesGoOn
    BY DEF IInv, TypeOK, Carried, NoNewPair, CodesGoOn
  <1>2. CodesBuyOnce' /\ TokensBuyInTime'
    BY <1>1, BuyOnceStays, InTimeStays DEF IInv
  <1>3. RefreshesHold' /\ ExchangesHold'
    BY <1>1, RefreshesStay, ExchangesStay DEF IInv
  <1>4. OneOpen'
    BY DEF IInv, OneOpen, Open
  <1>. QED BY <1>1, <1>2, <1>3, <1>4, LinkStays DEF IInv

LEMMA NoWork == TypeOK /\ UNCHANGED work => WorkGoesOn
  BY DEF TypeOK, WorkGoesOn

LEMMA AbortKeeps ==
  ASSUME IInv, NEW r \in Request, Abort(r)
  PROVE  IInv' /\ Carried
  <1>1. WorkGoesOn
    BY EndsOne DEF IInv, Abort
  <1>2. TypeOK' /\ AuthorizedBefore'
    BY <1>1 DEF IInv, TypeOK, AuthorizedBefore, WorkGoesOn, Abort
  <1>. QED BY <1>1, <1>2, QuietKeeps DEF Abort

LEMMA TickKeeps ==
  ASSUME IInv, Tick
  PROVE  IInv' /\ Carried
  <1>1. WorkGoesOn
    BY NoWork DEF IInv, Tick
  <1>2. TypeOK'
    <2>1. clock \in Nat /\ clock' = clock + 1
      BY DEF IInv, TypeOK, Tick, Advances
    <2>2. clock' \in Nat
      BY <2>1
    <2>. QED BY <2>2 DEF IInv, TypeOK, Tick
  <1>3. link # None => link.authorized \in Nat
    BY DEF IInv, TypeOK, NullOr, LinkRow
  <1>4. AuthorizedBefore'
    BY <1>3 DEF IInv, TypeOK, AuthorizedBefore, Tick, Advances
  <1>. QED BY <1>1, <1>2, <1>4, QuietKeeps DEF Tick

LEMMA AccountTyped ==
  ASSUME TypeOK, AccountChanges
  PROVE  /\ account' \in [disabled : BOOLEAN, held : BOOLEAN, at : Nat]
         /\ UNCHANGED <<clock, link, codes, pairs, work>>
         /\ account'.at = account.at \/ account'.at \in Nat
         /\ ~ account'.held => \/ ~ account.held /\ account'.at = account.at
                               \/ account'.at = clock
  <1>1. /\ account \in [disabled : BOOLEAN, held : BOOLEAN, at : Nat] /\ clock \in Nat
        /\ \A now \in account.at .. clock : now \in Nat
        /\ \A now \in account.at + 1 .. clock : now \in Nat
    BY DEF TypeOK
  <1>2. CASE ChangePassword
    BY <1>1, <1>2 DEF ChangePassword
  <1>3. CASE RevokeCredential
    BY <1>1, <1>3 DEF RevokeCredential
  <1>4. CASE ActivateCredential
    BY <1>1, <1>4 DEF ActivateCredential
  <1>5. CASE Deactivate
    BY <1>1, <1>5 DEF Deactivate
  <1>6. CASE Reactivate
    BY <1>1, <1>6 DEF Reactivate
  <1>. QED BY <1>2, <1>3, <1>4, <1>5, <1>6 DEF AccountChanges

LEMMA AccountKeeps ==
  ASSUME IInv, AccountChanges
  PROVE  IInv' /\ Carried
  <1>1. /\ account' \in [disabled : BOOLEAN, held : BOOLEAN, at : Nat]
        /\ UNCHANGED <<clock, link, codes, pairs, work>>
        /\ ~ account'.held => \/ ~ account.held /\ account'.at = account.at
                              \/ account'.at = clock
    BY AccountTyped DEF IInv
  <1>2. WorkGoesOn
    BY <1>1, NoWork DEF IInv
  <1>3. TypeOK' /\ AuthorizedBefore'
    BY <1>1 DEF IInv, TypeOK, AuthorizedBefore
  <1>. QED BY <1>1, <1>2, <1>3, QuietKeeps

-----------------------------------------------------------------------------
(* Requests start.                                                         *)

StartsOne(r) ==
  /\ work' \in [Request -> NullOr(Exchange \cup Refresh \cup Revoking)]
  /\ \A q \in Request : q # r => work'[q] = work[q]

LEMMA StartKeeps ==
  ASSUME IInv, NEW r \in Request, StartsOne(r), link # None,
         UNCHANGED <<clock, account, link, codes, pairs>>,
         Doing(r, "exchange")' =>
           /\ Open(work'[r].code)
           /\ \A q \in Request : Doing(q, "exchange") /\ work[q].code = work'[r].code => q = r,
         Doing(r, "refresh")' =>
           /\ pairs[work'[r].pair] # None
           /\ CanRotate(pairs[work'[r].pair].refresh, work'[r].now)
           /\ \A q \in Request : Doing(q, "refresh") /\ work[q].pair = work'[r].pair => q = r
  PROVE  IInv' /\ Carried
  <1>1. TypeOK' /\ AuthorizedBefore' /\ WorkHasLink'
    BY DEF IInv, TypeOK, AuthorizedBefore, WorkHasLink, StartsOne
  <1>2. CodesBuyOnce' /\ TokensBuyInTime' /\ OneOpen'
    BY DEF IInv, CodesBuyOnce, TokensBuyInTime, OneOpen, Open
  <1>3. \A q \in Request : q # r => \A step : Doing(q, step)' <=> Doing(q, step)
    BY DEF StartsOne, Doing
  <1>4. ExchangesHold'
    BY <1>3 DEF IInv, ExchangesHold, Open, StartsOne
  <1>5. RefreshesHold'
    BY <1>3 DEF IInv, RefreshesHold, StartsOne
  <1>6. Carried
    BY DEF IInv, TypeOK, Carried
  <1>. QED BY <1>1, <1>2, <1>4, <1>5, <1>6 DEF IInv

LEMMA StartTyped ==
  ASSUME TypeOK, NEW r \in Request, NEW request \in Exchange \cup Refresh \cup Revoking,
         Starts(r, request)
  PROVE  StartsOne(r) /\ work'[r] = request
  BY DEF TypeOK, Starts, StartsOne, NullOr

LEMMA LockCodeKeeps ==
  ASSUME IInv, NEW r \in Request, NEW c \in Code, NEW now \in Nat, LockCode(r, c, now)
  PROVE  IInv' /\ Carried
  <1>. DEFINE request == [step |-> "exchange", now |-> now, code |-> c]
  <1>1. request \in Exchange /\ Starts(r, request)
    BY DEF Exchange, LockCode, LockCodeShared
  <1>2. StartsOne(r) /\ work'[r] = request
    BY <1>1, StartTyped DEF IInv
  <1>3. Open(c) /\ \A q \in Request : Doing(q, "exchange") => work[q].code # c
    BY DEF LockCode, LockCodeShared, CodesLocked, Open
  <1>4. work'[r].code = c /\ ~ Doing(r, "refresh")'
    BY <1>2 DEF Doing
  <1>5. link # None /\ UNCHANGED <<clock, account, link, codes, pairs>>
    BY DEF LockCode, LockCodeShared, LinkUsable, LinkStanding
  <1>. QED BY <1>2, <1>3, <1>4, <1>5, StartKeeps

LEMMA LockRefreshKeeps ==
  ASSUME IInv, NEW r \in Request, NEW p \in Pair, NEW now \in Nat, LockRefresh(r, p, now)
  PROVE  IInv' /\ Carried
  <1>. DEFINE request == [step |-> "refresh", now |-> now, pair |-> p]
  <1>1. request \in Refresh /\ Starts(r, request)
    BY DEF Refresh, LockRefresh
  <1>2. StartsOne(r) /\ work'[r] = request
    BY <1>1, StartTyped DEF IInv
  <1>3. /\ pairs[p] # None /\ CanRotate(pairs[p].refresh, now)
        /\ \A q \in Request : Doing(q, "refresh") => work[q].pair # p
    BY DEF LockRefresh, PairsLocked
  <1>4. work'[r].pair = p /\ work'[r].now = now /\ ~ Doing(r, "exchange")'
    BY <1>2 DEF Doing
  <1>5. link # None /\ UNCHANGED <<clock, account, link, codes, pairs>>
    BY DEF LockRefresh, LinkUsable, LinkStanding
  <1>. QED BY <1>2, <1>3, <1>4, <1>5, StartKeeps

LEMMA StartRevokeKeeps ==
  ASSUME IInv, NEW r \in Request, NEW now \in Nat, StartRevoke(r, now)
  PROVE  IInv' /\ Carried
  <1>. DEFINE request == [step |-> "revoke", now |-> now, seen |-> Issued]
  <1>1. request \in Revoking /\ Starts(r, request)
    BY DEF Revoking, StartRevoke, Issued
  <1>2. StartsOne(r) /\ work'[r] = request
    BY <1>1, StartTyped DEF IInv
  <1>3. ~ Doing(r, "exchange")' /\ ~ Doing(r, "refresh")'
    BY <1>2 DEF Doing
  <1>4. link # None /\ UNCHANGED <<clock, account, link, codes, pairs>>
    BY DEF StartRevoke
  <1>. QED BY <1>2, <1>3, <1>4, StartKeeps

-----------------------------------------------------------------------------
(* Requests end.                                                           *)

LEMMA FinishRevokeKeeps ==
  ASSUME IInv, NEW r \in Request, FinishRevoke(r)
  PROVE  IInv' /\ Carried
  <1>. DEFINE found == work[r].seen
              now == work[r].now
  <1>1. /\ TypeOK /\ Doing(r, "revoke") /\ UNCHANGED <<clock, account, codes>>
        /\ WorkGoesOn /\ now \in Nat
    BY EndsOne, RevokeDone DEF IInv, FinishRevoke
  <1>2. link # None /\ link \in LinkRow
    BY <1>1 DEF IInv, WorkHasLink, Doing, TypeOK, NullOr
  <1>3. /\ link' \in LinkRow /\ link' # None
        /\ link'.authorized = link.authorized
    <2>1. link' = [link EXCEPT !.revoked = TRUE]
      BY DEF FinishRevoke
    <2>2. link' \in LinkRow /\ link'.authorized = link.authorized
      BY <1>2, <2>1 DEF LinkRow
    <2>. QED BY <2>2, NoneIsNoRow
  <1>4. /\ Carried /\ NoNewPair
        /\ \A p \in Pair : p \notin found => pairs'[p] = pairs[p]
    <2>1. pairs' = RevokeRows(found, now, "USER_REVOKED")
      BY Zenon DEF FinishRevoke
    <2>. QED BY <1>1, <2>1, RevokeRowsEffect
  <1>5. TypeOK'
    BY <1>1, <1>3, <1>4 DEF TypeOK, WorkGoesOn, Carried, NullOr
  <1>6. AuthorizedBefore' /\ WorkHasLink'
    BY <1>1, <1>2, <1>3, LinkStays DEF IInv, AuthorizedBefore
  <1>7. CodesGoOn
    BY <1>1 DEF TypeOK, CodesGoOn
  <1>8. CodesBuyOnce' /\ TokensBuyInTime'
    BY <1>1, <1>4, <1>7, BuyOnceStays, InTimeStays DEF IInv
  <1>9. ExchangesHold' /\ OneOpen'
    BY <1>1, ExchangesStay DEF IInv, OneOpen, Open
  <1>10. RefreshesHold'
    <2>1. ASSUME NEW q \in Request, Doing(q, "refresh")
          PROVE  pairs'[work[q].pair].refresh = pairs[work[q].pair].refresh
      <3>1. work[q].pair \in Pair /\ work[q].pair \in PairsLocked
        BY <1>1, <2>1, RefreshDone DEF PairsLocked
      <3>2. pairs[work[q].pair] # None
        BY <2>1 DEF IInv, RefreshesHold
      <3>3. CASE work[q].pair \in found
        <4>1. pairs[work[q].pair].refresh # None
          BY <3>1, <3>3 DEF FinishRevoke
        <4>. QED BY <1>4, <3>1, <3>2, <4>1 DEF Carried
      <3>4. CASE work[q].pair \notin found
        BY <1>4, <3>1, <3>4
      <3>. QED BY <3>3, <3>4
    <2>. QED BY <1>1, <1>4, <2>1, RefreshesStay DEF IInv
  <1>. QED BY <1>4, <1>5, <1>6, <1>8, <1>9, <1>10 DEF IInv

LEMMA FinishExchangeKeeps ==
  ASSUME IInv, NEW r \in Request, FinishExchange(r)
  PROVE  IInv' /\ Carried
  <1>. DEFINE c == work[r].code
              now == work[r].now
              p == Fresh(pairs)
  <1>1. /\ TypeOK /\ Doing(r, "exchange") /\ Unused(pairs) # {}
        /\ UNCHANGED <<clock, account, link>>
        /\ WorkGoesOn /\ work'[r] = None
        /\ c \in Code /\ now \in Nat /\ now # None
    BY EndsOne, ExchangeDone, NoneIsNoRow DEF IInv, FinishExchange
  <1>2. Open(c) /\ codes[c] \in CodeRow /\ link # None
    BY <1>1 DEF IInv, ExchangesHold, WorkHasLink, Open, TypeOK, NullOr, Doing
  <1>3. codes' = [codes EXCEPT ![c].consumed = now] /\ pairs' = Issue(now, c)
    BY DEF FinishExchange
  <1>4. /\ codes' \in [Code -> NullOr(CodeRow)]
        /\ codes'[c] # None /\ codes'[c].consumed = now
        /\ \A d \in Code : d # c => codes'[d] = codes[d]
    <2>. DEFINE row == [codes[c] EXCEPT !.consumed = now]
    <2>1. row \in CodeRow /\ row # None /\ row.consumed = now
      <3>1. row \in CodeRow /\ row.consumed = now
        BY <1>1, <1>2 DEF CodeRow, NullOr
      <3>. QED BY <3>1, NoneIsNoRow
    <2>2. codes' = [codes EXCEPT ![c] = row]
      BY <1>3
    <2>. HIDE DEF row
    <2>. QED BY <1>1, <2>1, <2>2 DEF TypeOK, NullOr
  <1>5. /\ p \in Pair /\ pairs[p] = None
        /\ pairs' \in [Pair -> NullOr(PairRow)]
        /\ pairs'[p] # None /\ pairs'[p].issued = now /\ pairs'[p].from = c
        /\ \A q \in Pair : q # p => pairs'[q] = pairs[q]
    BY <1>1, <1>2, <1>3, IssueEffect, NoneIsNoRow
  <1>. HIDE DEF p
  <1>6. Carried
    BY <1>5 DEF Carried
  <1>7. TypeOK'
    BY <1>1, <1>4, <1>5 DEF TypeOK, WorkGoesOn
  <1>8. AuthorizedBefore' /\ WorkHasLink'
    BY <1>1, LinkStays DEF IInv, AuthorizedBefore
  <1>9. ExchangesHold'
    <2>1. \A q \in Request : Doing(q, "exchange") /\ q # r => work[q].code \in Code \ {c}
      BY <1>1, ExchangeDone DEF IInv, ExchangesHold
    <2>2. ~ Doing(r, "exchange")'
      BY <1>1 DEF Doing
    <2>. QED BY <1>1, <1>4, <2>1, <2>2, ExchangesStay DEF IInv
  <1>10. RefreshesHold'
    <2>1. \A q \in Request : Doing(q, "refresh") =>
            work[q].pair \in Pair /\ work[q].pair # p
      BY <1>1, <1>5, RefreshDone DEF IInv, RefreshesHold
    <2>. QED BY <1>1, <1>5, <1>6, <2>1, RefreshesStay DEF IInv
  <1>11. CodesBuyOnce'
    <2>. SUFFICES ASSUME NEW q \in Pair, pairs'[q] # None, pairs'[q].from \in Code
                  PROVE  /\ codes'[pairs'[q].from] # None
                         /\ codes'[pairs'[q].from].consumed # None
                         /\ \A x \in Pair :
                              pairs'[x] # None /\ pairs'[x].from = pairs'[q].from => x = q
      BY DEF CodesBuyOnce
    <2>1. \A x \in Pair : pairs[x] # None => pairs[x].from # c
      BY <1>1, <1>2 DEF IInv, CodesBuyOnce, Open
    <2>2. CASE q = p
      BY <1>1, <1>4, <1>5, <2>1, <2>2
    <2>3. CASE q # p
      BY <1>4, <1>5, <2>1, <2>3 DEF IInv, CodesBuyOnce
    <2>. QED BY <2>2, <2>3
  <1>12. TokensBuyInTime'
    <2>. SUFFICES ASSUME NEW q \in Pair, pairs'[q] # None, pairs'[q].from \in Pair
                  PROVE  Bought(pairs'[q].issued, pairs'[pairs'[q].from])
      BY DEF TokensBuyInTime
    <2>1. q # p
      BY <1>1, <1>5, AlexaLinksAssumption
    <2>2. Bought(pairs[q].issued, pairs[pairs[q].from])
      BY <1>5, <2>1 DEF IInv, TokensBuyInTime
    <2>3. pairs[q].from \in Pair \ {p}
      BY <1>5, <2>1, <2>2 DEF Bought
    <2>. QED BY <1>5, <2>1, <2>2, <2>3
  <1>13. OneOpen'
    BY <1>1, <1>4 DEF IInv, OneOpen, Open
  <1>. QED BY <1>6, <1>7, <1>8, <1>9, <1>10, <1>11, <1>12, <1>13 DEF IInv

LEMMA FinishRefreshKeeps ==
  ASSUME IInv, NEW r \in Request, FinishRefresh(r)
  PROVE  IInv' /\ Carried
  <1>. DEFINE u == work[r].pair
              now == work[r].now
              p == Fresh(pairs)
              rotated == Rotate(u, now)
  <1>1. /\ TypeOK /\ Doing(r, "refresh") /\ Unused(pairs) # {}
        /\ UNCHANGED <<clock, account, link, codes>>
        /\ WorkGoesOn /\ work'[r] = None
        /\ u \in Pair /\ now \in Nat
    BY EndsOne, RefreshDone DEF IInv, FinishRefresh
  <1>2. pairs[u] # None /\ pairs[u] \in PairRow /\ link # None
    BY <1>1 DEF IInv, RefreshesHold, WorkHasLink, TypeOK, NullOr, Doing
  <1>3. pairs' = [Issue(now, u) EXCEPT ![u].refresh = rotated]
    BY DEF FinishRefresh
  <1>4. /\ p \in Pair /\ pairs[p] = None
        /\ Issue(now, u) \in [Pair -> NullOr(PairRow)]
        /\ Issue(now, u)[p] \in PairRow
        /\ Issue(now, u)[p].issued = now /\ Issue(now, u)[p].from = u
        /\ \A q \in Pair : q # p => Issue(now, u)[q] = pairs[q]
    BY <1>1, <1>2, IssueEffect
  <1>5. /\ rotated \in Revocation /\ rotated # None
        /\ pairs[u].refresh # None => rotated = pairs[u].refresh
        /\ rotated.reason = "ROTATED" /\ now <= rotated.at + Grace
    <2>1. pairs[u].refresh \in NullOr(Revocation)
      BY <1>2 DEF PairRow
    <2>2. /\ rotated \in Revocation /\ rotated # None
          /\ pairs[u].refresh # None => rotated = pairs[u].refresh
          /\ pairs[u].refresh = None => rotated.reason = "ROTATED" /\ rotated.at = now
      BY <1>1, <2>1, RevokedTyped DEF Rotate
    <2>3. CanRotate(pairs[u].refresh, now)
      BY <1>1 DEF IInv, RefreshesHold
    <2>4. rotated.reason = "ROTATED" /\ now <= rotated.at + Grace
      BY <1>1, <2>2, <2>3, AlexaLinksAssumption DEF CanRotate, Revocation
    <2>. QED BY <2>2, <2>4
  <1>. HIDE DEF p, rotated
  <1>6. u # p
    BY <1>2, <1>4
  <1>7. /\ pairs' \in [Pair -> NullOr(PairRow)]
        /\ pairs'[u] # None /\ pairs'[u].refresh = rotated
        /\ pairs'[u].issued = pairs[u].issued /\ pairs'[u].from = pairs[u].from
        /\ pairs'[u].access = pairs[u].access
        /\ \A q \in Pair : q # u => pairs'[q] = Issue(now, u)[q]
    <2>. DEFINE row == [pairs[u] EXCEPT !.refresh = rotated]
    <2>1. row \in PairRow /\ row.refresh = rotated
          /\ row.issued = pairs[u].issued /\ row.from = pairs[u].from
          /\ row.access = pairs[u].access
      BY <1>2, <1>5 DEF PairRow, NullOr
    <2>2. pairs' = [Issue(now, u) EXCEPT ![u] = row]
      BY <1>1, <1>3, <1>4, <1>6
    <2>3. row # None
      BY <2>1, NoneIsNoRow
    <2>. HIDE DEF row
    <2>. QED BY <1>1, <1>4, <2>1, <2>2, <2>3 DEF NullOr
  <1>8. /\ pairs'[p] # None /\ pairs'[p].issued = now /\ pairs'[p].from = u
        /\ \A q \in Pair : q # p /\ q # u => pairs'[q] = pairs[q]
    BY <1>4, <1>6, <1>7, NoneIsNoRow
  <1>9. Carried
    BY <1>2, <1>4, <1>5, <1>7, <1>8 DEF Carried
  <1>10. TypeOK'
    BY <1>1, <1>7 DEF TypeOK, WorkGoesOn
  <1>11. AuthorizedBefore' /\ WorkHasLink' /\ ExchangesHold' /\ OneOpen'
    BY <1>1, LinkStays, ExchangesStay DEF IInv, AuthorizedBefore, OneOpen, Open
  <1>12. RefreshesHold'
    <2>1. \A q \in Request : Doing(q, "refresh") /\ q # r =>
            work[q].pair \in Pair \ {p, u}
      BY <1>1, <1>4, RefreshDone DEF IInv, RefreshesHold
    <2>2. ~ Doing(r, "refresh")'
      BY <1>1 DEF Doing
    <2>. QED BY <1>1, <1>8, <1>9, <2>1, <2>2, RefreshesStay DEF IInv
  <1>13. CodesBuyOnce'
    <2>. SUFFICES ASSUME NEW q \in Pair, pairs'[q] # None, pairs'[q].from \in Code
                  PROVE  /\ codes'[pairs'[q].from] # None
                         /\ codes'[pairs'[q].from].consumed # None
                         /\ \A x \in Pair :
                              pairs'[x] # None /\ pairs'[x].from = pairs'[q].from => x = q
      BY DEF CodesBuyOnce
    <2>1. \A x \in Pair : pairs'[x] # None /\ pairs'[x].from \in Code =>
            pairs[x] # None /\ pairs'[x].from = pairs[x].from
      BY <1>1, <1>2, <1>7, <1>8, AlexaLinksAssumption
    <2>. QED BY <1>1, <2>1 DEF IInv, CodesBuyOnce
  <1>14. TokensBuyInTime'
    <2>. SUFFICES ASSUME NEW q \in Pair, pairs'[q] # None, pairs'[q].from \in Pair
                  PROVE  Bought(pairs'[q].issued, pairs'[pairs'[q].from])
      BY DEF TokensBuyInTime
    <2>1. CASE q = p
      BY <1>5, <1>7, <1>8, <2>1 DEF Bought
    <2>2. CASE q # p
      <3>1. /\ pairs[q] # None /\ pairs'[q].issued = pairs[q].issued
            /\ pairs'[q].from = pairs[q].from
        BY <1>2, <1>7, <1>8, <2>2
      <3>2. Bought(pairs[q].issued, pairs[pairs[q].from])
        BY <3>1 DEF IInv, TokensBuyInTime
      <3>. QED BY <1>9, <3>1, <3>2 DEF Bought, Carried
    <2>. QED BY <2>1, <2>2
  <1>. QED BY <1>9, <1>10, <1>11, <1>12, <1>13, <1>14 DEF IInv

-----------------------------------------------------------------------------
(* The account is linked.                                                  *)

\* One code is open, and what was valid is revoked.
LEMMA AuthorizeEffect ==
  ASSUME IInv, NEW now \in Nat, Authorize(now)
  PROVE  /\ account.held /\ UNCHANGED <<clock, account, work>>
         /\ link' \in LinkRow /\ link'.authorized = now /\ link' # None
         /\ codes' \in [Code -> NullOr(CodeRow)]
         /\ \E d \in Code :
              /\ codes[d] = None /\ codes'[d] # None
              /\ \A c \in Code : c # d =>
                   /\ codes'[c] = None <=> codes[c] = None
                   /\ codes[c] # None => codes'[c].consumed # None
         /\ Carried /\ NoNewPair
         /\ \A p \in Pair : pairs[p] # None =>
              pairs'[p].access # None /\ pairs'[p].refresh # None
  <1>. DEFINE d == Fresh(codes)
              closed == OpenCodesConsumed(now)
              opened == [issued |-> now, shown |-> clock, consumed |-> None]
  <1>1. /\ TypeOK /\ account.held /\ Unused(codes) # {}
        /\ UNCHANGED <<clock, account, work>> /\ now # None
    BY NoneIsNoRow DEF IInv, Authorize
  <1>2. link' \in LinkRow /\ link'.authorized = now /\ link' # None
    <2>1. Linked \in Nat
      BY <1>1 DEF Linked, TypeOK, NullOr, LinkRow
    <2>2. Linked + 1 \in Nat
      BY <2>1
    <2>3. link' = [authorized |-> now, revoked |-> FALSE, nth |-> Linked + 1]
      BY DEF Authorize
    <2>4. link' \in LinkRow /\ link'.authorized = now
      BY <2>2, <2>3 DEF LinkRow
    <2>. QED BY <2>4, NoneIsNoRow
  <1>3. d \in Code /\ codes[d] = None
    BY <1>1, FreshUnused DEF TypeOK
  <1>4. ASSUME NEW c \in Code
        PROVE  /\ closed[c] \in NullOr(CodeRow)
               /\ closed[c] = None <=> codes[c] = None
               /\ codes[c] # None => closed[c].consumed # None
    <2>. DEFINE row == [codes[c] EXCEPT !.consumed = now]
    <2>1. CASE codes[c] # None /\ codes[c].consumed = None
      <3>1. codes[c] \in CodeRow
        BY <1>1, <2>1 DEF TypeOK, NullOr
      <3>2. row \in CodeRow /\ row.consumed = now
        BY <3>1 DEF CodeRow, NullOr
      <3>3. closed[c] = row
        BY <2>1 DEF OpenCodesConsumed
      <3>. HIDE DEF row
      <3>. QED BY <1>1, <2>1, <3>2, <3>3, NoneIsNoRow DEF NullOr
    <2>2. CASE ~ (codes[c] # None /\ codes[c].consumed = None)
      <3>1. closed[c] = codes[c]
        BY <2>2 DEF OpenCodesConsumed
      <3>. HIDE DEF closed
      <3>. QED BY <1>1, <2>2, <3>1 DEF TypeOK
    <2>. QED BY <2>1, <2>2
  <1>5. opened \in CodeRow /\ opened # None
    <2>1. opened \in CodeRow
      BY <1>1 DEF CodeRow, NullOr, TypeOK
    <2>. QED BY <2>1, NoneIsNoRow
  <1>6. /\ codes' = [closed EXCEPT ![d] = opened]
        /\ DOMAIN closed = Code /\ closed = [c \in Code |-> closed[c]]
    BY DEF Authorize, OpenCodesConsumed
  <1>. HIDE DEF d, closed, opened
  <1>7. /\ codes' \in [Code -> NullOr(CodeRow)] /\ codes'[d] # None
        /\ \A c \in Code : c # d => codes'[c] = closed[c]
    <2>1. closed \in [Code -> NullOr(CodeRow)]
      BY <1>4, <1>6
    <2>. QED BY <1>3, <1>5, <1>6, <2>1 DEF NullOr
  <1>8. \A c \in Code : c # d =>
          /\ codes'[c] = None <=> codes[c] = None
          /\ codes[c] # None => codes'[c].consumed # None
    BY <1>4, <1>7
  <1>9. /\ Carried /\ NoNewPair
        /\ \A p \in Pair : pairs[p] # None =>
             pairs'[p].access # None /\ pairs'[p].refresh # None
    <2>1. pairs' = RevokeRows(Pair, now, "ACCOUNT_REAUTHORIZED")
      BY Zenon DEF Authorize
    <2>. QED BY <1>1, <2>1, RevokeRowsEffect
  <1>. QED BY <1>1, <1>2, <1>3, <1>7, <1>8, <1>9

LEMMA AuthorizeKeeps ==
  ASSUME IInv, NEW now \in 0 .. clock, Authorize(now)
  PROVE  IInv' /\ Carried
  <1>0. TypeOK /\ now \in Nat /\ now <= clock
    <2>1. TypeOK /\ clock \in Nat
      BY DEF IInv, TypeOK
    <2>. QED BY <2>1
  <1>1. /\ account.held /\ UNCHANGED <<clock, account, work>>
        /\ link' \in LinkRow /\ link'.authorized = now /\ link' # None
        /\ codes' \in [Code -> NullOr(CodeRow)]
        /\ Carried /\ NoNewPair
    BY <1>0, AuthorizeEffect
  <1>2. PICK d \in Code :
          /\ codes[d] = None /\ codes'[d] # None
          /\ \A c \in Code : c # d =>
               /\ codes'[c] = None <=> codes[c] = None
               /\ codes[c] # None => codes'[c].consumed # None
    BY <1>0, AuthorizeEffect
  <1>3. WorkGoesOn
    BY <1>0, <1>1, NoWork
  <1>4. TypeOK'
    <2>1. link' \in NullOr(LinkRow)
      BY <1>1 DEF NullOr
    <2>. QED BY <1>0, <1>1, <2>1 DEF TypeOK, Carried
  <1>5. AuthorizedBefore' /\ WorkHasLink'
    BY <1>0, <1>1 DEF AuthorizedBefore, WorkHasLink
  <1>6. CodesGoOn
    BY <1>1, <1>2 DEF CodesGoOn
  <1>7. CodesBuyOnce' /\ TokensBuyInTime'
    BY <1>0, <1>1, <1>6, BuyOnceStays, InTimeStays DEF IInv
  <1>8. OneOpen'
    BY <1>2 DEF OneOpen, Open
  <1>9. ExchangesHold'
    <2>1. \A r \in Request : ~ Doing(r, "exchange")
      BY DEF Authorize, CodesLocked
    <2>. QED BY <1>0, <1>3, <2>1, ExchangesStay DEF IInv
  <1>10. RefreshesHold'
    <2>1. ASSUME NEW r \in Request, Doing(r, "refresh")
          PROVE  pairs'[work[r].pair].refresh = pairs[work[r].pair].refresh
      <3>1. work[r].pair \in Pair /\ work[r].pair \in PairsLocked
        BY <1>0, <2>1, RefreshDone DEF PairsLocked
      <3>2. pairs[work[r].pair] # None
        BY <2>1 DEF IInv, RefreshesHold
      <3>3. pairs[work[r].pair].refresh # None
        BY <3>1 DEF Authorize
      <3>. QED BY <1>1, <3>1, <3>2, <3>3 DEF Carried
    <2>. QED BY <1>0, <1>1, <1>3, <2>1, RefreshesStay DEF IInv
  <1>. QED BY <1>1, <1>4, <1>5, <1>7, <1>8, <1>9, <1>10 DEF IInv

-----------------------------------------------------------------------------
(* The invariant.                                                          *)

LEMMA InitInv == Init => IInv
  <1>. SUFFICES ASSUME Init PROVE IInv
    OBVIOUS
  <1>1. TypeOK
    BY DEF Init, TypeOK, NullOr
  <1>2. \A r \in Request : \A step : ~ Doing(r, step)
    BY DEF Init, Doing
  <1>. QED BY <1>1, <1>2
           DEF Init, IInv, AuthorizedBefore, WorkHasLink, ExchangesHold, RefreshesHold,
               CodesBuyOnce, TokensBuyInTime, OneOpen, Open

LEMMA NextInv == IInv /\ Next => IInv' /\ Carried
  <1>. SUFFICES ASSUME IInv, Next PROVE IInv' /\ Carried
    OBVIOUS
  <1>1. ASSUME NEW now \in 0 .. clock, Authorize(now)
        PROVE  IInv' /\ Carried
    BY <1>1, AuthorizeKeeps
  <1>2. \A now \in 0 .. clock : now \in Nat
    BY DEF IInv, TypeOK
  <1>3. ASSUME NEW now \in 0 .. clock, NEW r \in Request, NEW c \in Code,
               LockCode(r, c, now)
        PROVE  IInv' /\ Carried
    BY <1>2, <1>3, LockCodeKeeps
  <1>4. ASSUME NEW now \in 0 .. clock, NEW r \in Request, NEW p \in Pair,
               LockRefresh(r, p, now)
        PROVE  IInv' /\ Carried
    BY <1>2, <1>4, LockRefreshKeeps
  <1>5. ASSUME NEW now \in 0 .. clock, NEW r \in Request, StartRevoke(r, now)
        PROVE  IInv' /\ Carried
    BY <1>2, <1>5, StartRevokeKeeps
  <1>6. ASSUME NEW r \in Request,
               FinishExchange(r) \/ FinishRefresh(r) \/ FinishRevoke(r) \/ Abort(r)
        PROVE  IInv' /\ Carried
    BY <1>6, FinishExchangeKeeps, FinishRefreshKeeps, FinishRevokeKeeps, AbortKeeps
  <1>. QED BY <1>1, <1>3, <1>4, <1>5, <1>6, TickKeeps, AccountKeeps DEF Next

LEMMA StutterInv == IInv /\ UNCHANGED vars => IInv' /\ Carried
  <1>. SUFFICES ASSUME IInv, UNCHANGED vars PROVE IInv' /\ Carried
    OBVIOUS
  <1>1. TypeOK' /\ AuthorizedBefore' /\ WorkGoesOn
    BY NoWork DEF vars, IInv, TypeOK, AuthorizedBefore
  <1>. QED BY <1>1, QuietKeeps DEF vars

LEMMA InvStep == IInv /\ [Next]_vars => IInv' /\ Carried
  BY NextInv, StutterInv

\* Types hold; a code that is held is open and a token that is held can be
\* rotated; what codes and tokens have bought was bought once, and in time.
THEOREM AlexaLinksInv == Spec => []IInv
  BY InitInv, InvStep, PTL DEF Spec

LEMMA SpentOnce == IInv => GrantsSpentOnce
  <1>. SUFFICES ASSUME IInv PROVE GrantsSpentOnce
    OBVIOUS
  <1>1. CodeSpentOnce
    <2>. SUFFICES ASSUME NEW c \in Code, {p \in Issued : pairs[p].from = c} # {}
                  PROVE  /\ Cardinality({p \in Issued : pairs[p].from = c}) = 1
                         /\ codes[c].consumed # None
      BY DEF CodeSpentOnce
    <2>1. PICK p \in Issued : pairs[p].from = c
      OBVIOUS
    <2>2. /\ codes[c].consumed # None
          /\ \A q \in Issued : pairs[q].from = c => q = p
      BY <2>1 DEF IInv, CodesBuyOnce, Issued
    <2>3. {q \in Issued : pairs[q].from = c} = {p}
      BY <2>1, <2>2
    <2>4. Cardinality({p}) = 1
      BY FS_Singleton
    <2>. QED BY <2>2, <2>3, <2>4
  <1>2. OneOpenCode
    <2>. DEFINE open == {c \in Code : codes[c] # None /\ codes[c].consumed = None}
    <2>1. \A c, d \in open : c = d
      BY DEF IInv, OneOpen, Open
    <2>2. CASE open = {}
      <3>1. Cardinality({}) = 0
        BY FS_EmptySet
      <3>2. Cardinality(open) <= 1
        <4>. HIDE DEF open
        <4>. QED BY <2>2, <3>1
      <3>. QED BY <3>2 DEF OneOpenCode
    <2>3. CASE open # {}
      <3>1. PICK c : c \in open
        BY <2>3
      <3>2. open = {c}
        BY <2>1, <3>1
      <3>3. Cardinality({c}) = 1
        BY FS_Singleton
      <3>4. Cardinality(open) <= 1
        <4>. HIDE DEF open
        <4>. QED BY <3>2, <3>3
      <3>. QED BY <3>4 DEF OneOpenCode
    <2>. QED BY <2>2, <2>3
  <1>3. RotatedWithinGrace
    BY DEF IInv, TokensBuyInTime, Bought, RotatedWithinGrace, Issued
  <1>. QED BY <1>1, <1>2, <1>3 DEF GrantsSpentOnce

\* A code and a refresh token buy what they are for, and once: whichever
\* requests bring them at the same time, and however late.
THEOREM GrantsSpentOnceHolds == Spec => []GrantsSpentOnce
  BY SpentOnce, AlexaLinksInv, PTL

-----------------------------------------------------------------------------
(* What has died.                                                          *)

LEMMA RevocationStep ==
  Carried => \A p \in Issued :
    /\ pairs[p].access # None => pairs'[p].access = pairs[p].access
    /\ pairs[p].refresh # None => pairs'[p].refresh = pairs[p].refresh
  BY DEF Carried, Issued

\* Only linking anew makes a link stand: a credential set after one was revoked
\* is set after the link was authorized.
LEMMA StoodBefore ==
  ASSUME IInv, [Next]_vars, LinkStanding', ~ LinkStanding
  PROVE  \E now \in 0 .. clock : Authorize(now)
  <1>1. /\ account \in [disabled : BOOLEAN, held : BOOLEAN, at : Nat] /\ clock \in Nat
        /\ link # None => link \in LinkRow
    BY DEF IInv, TypeOK, NullOr
  <1>2. ASSUME UNCHANGED link, account'.held => account.held, account.at <= account'.at
        PROVE  FALSE
    <2>1. link # None /\ link.authorized \in Nat /\ account.at \in Nat
      BY <1>1, <1>2 DEF LinkStanding, LinkRow
    <2>2. account'.at \in Nat
      <3>1. TypeOK'
        BY InvStep DEF IInv
      <3>. QED BY <3>1 DEF TypeOK
    <2>. QED BY <1>2, <2>1, <2>2 DEF LinkStanding
  <1>3. ASSUME UNCHANGED <<account, link>> PROVE FALSE
    BY <1>1, <1>2, <1>3
  <1>4. ASSUME NEW r \in Request, FinishRevoke(r) PROVE FALSE
    <2>1. link # None
      BY <1>4 DEF IInv, WorkHasLink, FinishRevoke, Doing
    <2>2. link'.revoked = TRUE
      BY <1>1, <1>4, <2>1 DEF FinishRevoke, LinkRow
    <2>. QED BY <2>2 DEF LinkStanding
  <1>5. ASSUME ChangePassword PROVE FALSE
    <2>1. PICK now \in account.at .. clock : account' = [account EXCEPT !.at = now]
      BY <1>5 DEF ChangePassword
    <2>2. account'.held = account.held /\ account'.at = now /\ account.at <= now
      BY <1>1, <2>1
    <2>. QED BY <1>2, <1>5, <2>2 DEF ChangePassword
  <1>6. ASSUME RevokeCredential PROVE FALSE
    <2>1. account'.held = FALSE
      BY <1>1, <1>6 DEF RevokeCredential
    <2>. QED BY <2>1 DEF LinkStanding
  <1>7. ASSUME ActivateCredential PROVE FALSE
    <2>1. PICK now \in account.at + 1 .. clock :
            account' = [account EXCEPT !.held = TRUE, !.at = now]
      BY <1>7 DEF ActivateCredential
    <2>2. UNCHANGED link /\ ~ account.held
      BY <1>7 DEF ActivateCredential
    <2>3. link # None /\ link.authorized \in Nat /\ link.authorized <= account.at
      BY <1>1, <2>2 DEF LinkStanding, LinkRow, IInv, AuthorizedBefore
    <2>4. account'.at = now /\ now \in Nat /\ account.at \in Nat /\ account.at < now
      BY <1>1, <2>1
    <2>. QED BY <2>2, <2>3, <2>4 DEF LinkStanding
  <1>8. ASSUME Deactivate \/ Reactivate PROVE FALSE
    <2>1. account'.held = account.held /\ account'.at = account.at /\ UNCHANGED link
      BY <1>1, <1>8 DEF Deactivate, Reactivate
    <2>. QED BY <1>1, <1>2, <2>1
  <1>9. CASE UNCHANGED vars
    BY <1>3, <1>9 DEF vars
  <1>. QED BY <1>3, <1>4, <1>5, <1>6, <1>7, <1>8, <1>9
           DEF Next, AccountChanges, Tick, LockCode, LockCodeShared, LockRefresh,
               StartRevoke, FinishExchange, FinishRefresh, Abort

LEMMA ClockAdvances ==
  ASSUME IInv, [Next]_vars
  PROVE  clock \in Nat /\ clock' \in Nat /\ clock <= clock'
  <1>1. clock \in Nat
    BY DEF IInv, TypeOK
  <1>2. clock' = clock \/ clock' = clock + 1
    BY DEF Next, vars, Tick, Advances, AccountChanges, ChangePassword, RevokeCredential,
           ActivateCredential, Deactivate, Reactivate, Authorize, LockCode, LockCodeShared,
           LockRefresh, StartRevoke, FinishExchange, FinishRefresh,
           FinishRevoke, Abort
  <1>. QED BY <1>1, <1>2

LEMMA DeadStep ==
  IInv /\ [Next]_vars => \A p \in Issued : ~Standing(p, clock) => ~Standing(p, clock)'
  <1>. SUFFICES ASSUME IInv, [Next]_vars, NEW p \in Issued, Standing(p, clock)'
                PROVE  Standing(p, clock)
    OBVIOUS
  <1>1. p \in Pair /\ pairs[p] # None /\ pairs[p] \in PairRow
    BY DEF Issued, IInv, TypeOK, NullOr
  <1>2. /\ pairs'[p].access = None /\ clock' < pairs'[p].issued + AccessLife /\ LinkStanding'
    BY DEF Standing
  <1>3. pairs'[p].issued = pairs[p].issued /\ pairs[p].access = None
    BY <1>1, <1>2, InvStep DEF Carried
  <1>4. clock < pairs[p].issued + AccessLife
    <2>1. pairs[p].issued \in Nat /\ AccessLife \in Nat
      BY <1>1, AlexaLinksAssumption DEF PairRow
    <2>. QED BY <1>2, <1>3, <2>1, ClockAdvances
  <1>5. LinkStanding
    <2>1. ASSUME NEW now \in 0 .. clock, Authorize(now)
          PROVE  FALSE
      <3>1. now \in Nat
        BY ClockAdvances
      <3>2. pairs'[p].access # None
        BY <1>1, <2>1, <3>1, AuthorizeEffect
      <3>. QED BY <1>2, <3>2
    <2>. QED BY <1>2, <2>1, StoodBefore
  <1>. QED BY <1>1, <1>3, <1>4, <1>5 DEF Standing

\* What has been revoked stays as it was revoked, and an access token that has
\* ended, for its link, its credential or its life, never works again: all that
\* enabling an account gives back is what disabling it suspended.
THEOREM NothingRevivesHolds == Spec => NothingRevives
  <1>1. IInv /\ [Next]_vars =>
          [\A p \in Issued :
             /\ pairs[p].access # None => pairs'[p].access = pairs[p].access
             /\ pairs[p].refresh # None => pairs'[p].refresh = pairs[p].refresh]_vars
    BY InvStep, RevocationStep
  <1>2. IInv /\ [Next]_vars =>
          [\A p \in Issued : ~Standing(p, clock) => ~Standing(p, clock)']_vars
    BY DeadStep
  <1>3. Spec => RevocationStands
    BY <1>1, AlexaLinksInv, PTL DEF Spec, RevocationStands
  <1>4. Spec => DeadStaysDead
    BY <1>2, AlexaLinksInv, PTL DEF Spec, DeadStaysDead
  <1>. QED BY <1>3, <1>4 DEF NothingRevives
-----------------------------------------------------------------------------
(* The session.                                                            *)

VisitState ==
  [at : {"idle"}]
    \cup [at : {"read"}, now : Nat]
    \cup [at : {"sent"}, now : Nat, started : Nat]
    \cup [at : {"answered"}, expires : NullOr(Nat)]

SessionTypeOK ==
  /\ clock \in Nat
  /\ session \in NullOr(SessionRow)
  /\ cookie \in NullOr(Nat)
  /\ seen \subseteq Nat
  /\ visit \in [Visit -> VisitState]

NothingBefore ==
  session = None => /\ cookie = None /\ seen = {}
                    /\ \A r \in Visit : visit[r].at = "idle"

\* Nobody visits before the login, and answers promise no more than the row.
VisitsFollow ==
  session # None =>
    /\ session.created <= clock
    /\ \A r \in Visit :
         /\ visit[r].at \in {"read", "sent"} => session.created <= visit[r].now
         /\ visit[r].at = "answered" /\ visit[r].expires # None =>
              visit[r].expires <= session.idle /\ visit[r].expires <= session.absolute

NoSilence ==
  session # None =>
    /\ session.last \in seen
    /\ \A t \in seen : session.created <= t /\ t <= session.last
    /\ \A x \in Nat : session.created < x /\ x <= session.last =>
         \E s \in seen : s < x /\ x - s < Idle

SessionInv ==
  /\ SessionTypeOK /\ NothingBefore /\ VisitsFollow /\ NoSilence
  /\ RenewalsCoherent /\ CookieWithinSession

LEMMA SessionRows ==
  /\ None \notin Nat /\ None \notin SessionRow
  /\ Idle \in Nat /\ Idle > 0 /\ Absolute \in Nat /\ Absolute > 0
  BY NoSessionAssumption, LifetimesAssumption

LEMMA SessionInitInv == SessionInit => SessionInv
<1> SUFFICES ASSUME SessionInit PROVE SessionInv
  OBVIOUS
<1>1. SessionTypeOK
  BY DEF SessionInit, SessionTypeOK, NullOr, VisitState
<1>2. NothingBefore
  BY DEF SessionInit, NothingBefore
<1>3. session = None /\ cookie = None
  BY DEF SessionInit
<1> QED
  BY <1>1, <1>2, <1>3
  DEF SessionInv, VisitsFollow, NoSilence, RenewalsCoherent, CookieWithinSession

\* What a step of a request alone has to keep.
LEMMA GoesKeeps ==
  ASSUME SessionInv, NEW r \in Visit, NEW state \in VisitState, Goes(r, state),
         UNCHANGED <<clock, session, seen>>,
         cookie' \in NullOr(Nat), CookieWithinSession',
         session = None => state.at = "idle" /\ cookie' = None,
         session # None =>
           /\ state.at \in {"read", "sent"} => session.created <= state.now
           /\ state.at = "answered" /\ state.expires # None =>
                state.expires <= session.idle /\ state.expires <= session.absolute
  PROVE  SessionInv'
<1>1. \A q \in Visit : visit'[q] = IF q = r THEN state ELSE visit[q]
  BY DEF Goes, SessionInv, SessionTypeOK
<1>2. SessionTypeOK'
  BY DEF Goes, SessionInv, SessionTypeOK
<1>3. NothingBefore'
  BY <1>1 DEF SessionInv, NothingBefore
<1>4. VisitsFollow'
  BY <1>1 DEF SessionInv, VisitsFollow
<1>5. NoSilence' /\ RenewalsCoherent'
  BY DEF SessionInv, NoSilence, RenewalsCoherent, RowCoherent
<1> QED
  BY <1>2, <1>3, <1>4, <1>5 DEF SessionInv

LEMMA ClockOnlyKeeps ==
  ASSUME SessionInv, Elapse \/ Disable \/ UNCHANGED <<clock, visits>>
  PROVE  SessionInv' /\ clock <= clock'
<1>1. /\ UNCHANGED <<session, visit, cookie, seen>>
      /\ clock' \in Nat /\ clock <= clock'
  BY DEF Elapse, Advances, Disable, visits, SessionInv, SessionTypeOK
<1>2. SessionTypeOK' /\ NothingBefore'
  BY <1>1 DEF SessionInv, SessionTypeOK, NothingBefore
<1>3. session # None => session.created \in Nat
  BY DEF SessionInv, SessionTypeOK, NullOr, SessionRow
<1>4. VisitsFollow'
  BY <1>1, <1>3 DEF SessionInv, SessionTypeOK, VisitsFollow
<1>5. NoSilence' /\ RenewalsCoherent' /\ CookieWithinSession'
  BY <1>1 DEF SessionInv, NoSilence, RenewalsCoherent, RowCoherent, CookieWithinSession
<1> QED
  BY <1>1, <1>2, <1>4, <1>5 DEF SessionInv

LEMMA OpenSessionKeeps ==
  ASSUME SessionInv, NEW r \in Visit, OpenSession(r)
  PROVE  SessionInv'
<1>1. PICK now \in 0 .. clock :
        /\ session' = Opened(now) /\ seen' = {now}
        /\ Goes(r, [at |-> "answered", expires |-> Opened(now).idle])
  BY DEF OpenSession
<1>2. clock \in Nat /\ now \in Nat /\ now <= clock
  BY DEF SessionInv, SessionTypeOK
<1>3. session = None /\ cookie = None /\ UNCHANGED <<clock, cookie>>
  BY DEF OpenSession, SessionInv, NothingBefore
<1>4. /\ session'.created = now /\ session'.last = now
      /\ session'.absolute = now + Absolute /\ session'.revoked = None
      /\ session'.idle = Smaller(now + Idle, now + Absolute)
  BY <1>1 DEF Opened
<1>5. session'.idle \in Nat /\ session'.idle <= session'.absolute
  BY <1>2, <1>4, SessionRows DEF Smaller
<1>6. session' \in SessionRow
  BY <1>1, <1>2, <1>4, <1>5, SessionRows DEF Opened, SessionRow
<1>7. \A q \in Visit : visit'[q] =
        IF q = r THEN [at |-> "answered", expires |-> session'.idle] ELSE visit[q]
  BY <1>1 DEF Goes, SessionInv, SessionTypeOK
<1>8. SessionTypeOK'
  <2>1. [at |-> "answered", expires |-> session'.idle] \in VisitState
    BY <1>5 DEF VisitState, NullOr
  <2>2. visit' \in [Visit -> VisitState]
    BY <1>1, <2>1 DEF Goes, SessionInv, SessionTypeOK
  <2> QED
    BY <1>1, <1>2, <1>3, <1>6, <2>2 DEF SessionInv, SessionTypeOK, NullOr
<1>9. session' # None
  BY <1>6, SessionRows
<1>10. NothingBefore'
  BY <1>9 DEF NothingBefore
<1>11. VisitsFollow'
  BY <1>2, <1>3, <1>4, <1>5, <1>7 DEF SessionInv, NothingBefore, VisitsFollow
<1>12. NoSilence'
  BY <1>1, <1>2, <1>4 DEF NoSilence
<1>13. RenewalsCoherent'
  BY <1>2, <1>4, SessionRows DEF RenewalsCoherent, RowCoherent
<1>14. CookieWithinSession'
  BY <1>3 DEF CookieWithinSession
<1> QED
  BY <1>8, <1>10, <1>11, <1>12, <1>13, <1>14 DEF SessionInv

LEMMA ArriveKeeps ==
  ASSUME SessionInv, NEW r \in Visit, Arrive(r)
  PROVE  SessionInv'
<1>1. /\ Goes(r, [at |-> "read", now |-> clock]) /\ cookie # None
      /\ UNCHANGED <<clock, session, cookie, seen>>
  BY DEF Arrive
<1>2. [at |-> "read", now |-> clock] \in VisitState
  BY DEF SessionInv, SessionTypeOK, VisitState
<1>3. CookieWithinSession' /\ cookie' \in NullOr(Nat)
  BY <1>1 DEF SessionInv, SessionTypeOK, CookieWithinSession
<1> QED
  BY <1>1, <1>2, <1>3, GoesKeeps DEF SessionInv, NothingBefore, VisitsFollow

LEMMA SendRenewalKeeps ==
  ASSUME SessionInv, NEW r \in Visit, SendRenewal(r)
  PROVE  SessionInv'
<1>1. /\ visit[r].at = "read"
      /\ Goes(r, [at |-> "sent", now |-> visit[r].now, started |-> clock])
      /\ UNCHANGED <<clock, session, cookie, seen>>
  BY DEF SendRenewal, At
<1>2. visit[r] \in VisitState /\ clock \in Nat
  BY DEF SessionInv, SessionTypeOK
<1>3. visit[r].now \in Nat
  BY <1>1, <1>2 DEF VisitState
<1>4. [at |-> "sent", now |-> visit[r].now, started |-> clock] \in VisitState
  BY <1>2, <1>3 DEF VisitState
<1>5. CookieWithinSession' /\ cookie' \in NullOr(Nat)
  BY <1>1 DEF SessionInv, SessionTypeOK, CookieWithinSession
<1>6. session # None /\ session.created <= visit[r].now
  BY <1>1 DEF SessionInv, NothingBefore, VisitsFollow
<1> QED
  BY <1>1, <1>4, <1>5, <1>6, GoesKeeps

\* The row after a renewal.
LEMMA Renewal ==
  ASSUME SessionInv, NEW r \in Visit, Renew(r)
  PROVE  LET now == visit[r].now
         IN /\ session \in SessionRow /\ session' \in SessionRow
            /\ now \in Nat /\ session.created <= now
            /\ now < session.idle /\ now < session.absolute
            /\ session'.created = session.created
            /\ session'.absolute = session.absolute
            /\ session'.revoked = session.revoked
            /\ session'.last = Larger(session.last, now)
            /\ session'.idle
                 = Smaller(Larger(session.idle, now + Idle), session.absolute)
            /\ seen' = seen \cup {now}
<1> DEFINE now == visit[r].now
<1>1. /\ visit[r].at = "sent" /\ Live(now)
      /\ session' = Renewed(now) /\ seen' = seen \cup {now}
  BY DEF Renew, At
<1>2. visit[r] \in VisitState /\ session \in NullOr(SessionRow)
  BY DEF SessionInv, SessionTypeOK
<1>3. now \in Nat
  BY <1>1, <1>2 DEF VisitState
<1>4. session # None /\ session.created <= now
  BY <1>1 DEF SessionInv, NothingBefore, VisitsFollow
<1>5. session \in SessionRow
  BY <1>2, <1>4 DEF NullOr
<1>6. /\ session.created \in Nat /\ session.last \in Nat /\ session.idle \in Nat
      /\ session.absolute \in Nat
  BY <1>5 DEF SessionRow
<1> HIDE DEF now
<1>7. /\ session'.created = session.created
      /\ session'.absolute = session.absolute
      /\ session'.revoked = session.revoked
      /\ session'.last = Larger(session.last, now)
      /\ session'.idle = Smaller(Larger(session.idle, now + Idle), session.absolute)
  BY <1>1, <1>5 DEF Renewed, SessionRow
<1>8. Larger(session.last, now) \in Nat
  BY <1>3, <1>6 DEF Larger
<1>9. Smaller(Larger(session.idle, now + Idle), session.absolute) \in Nat
  BY <1>3, <1>6, SessionRows DEF Larger, Smaller
<1>10. session' \in SessionRow
  BY <1>1, <1>5, <1>8, <1>9 DEF Renewed, SessionRow
<1> QED
  BY <1>1, <1>3, <1>4, <1>5, <1>7, <1>10 DEF Live, now

LEMMA RenewKeeps ==
  ASSUME SessionInv, NEW r \in Visit, Renew(r)
  PROVE  /\ SessionInv'
         /\ session'.idle >= session.idle /\ session'.absolute = session.absolute
<1> DEFINE now == visit[r].now
<1>1. /\ session \in SessionRow /\ session' \in SessionRow
      /\ now \in Nat /\ session.created <= now
      /\ now < session.idle /\ now < session.absolute
      /\ session'.created = session.created
      /\ session'.absolute = session.absolute
      /\ session'.revoked = session.revoked
      /\ session'.last = Larger(session.last, now)
      /\ session'.idle = Smaller(Larger(session.idle, now + Idle), session.absolute)
      /\ seen' = seen \cup {now}
  BY Renewal
<1>2. /\ session.created \in Nat /\ session.last \in Nat /\ session.idle \in Nat
      /\ session.absolute \in Nat /\ session'.idle \in Nat /\ session'.last \in Nat
  BY <1>1 DEF SessionRow
<1>3. session # None /\ session' # None
  BY <1>1, SessionRows
<1>4. RowCoherent(session)
  BY <1>3 DEF SessionInv, RenewalsCoherent
<1>5. UNCHANGED <<clock, cookie>>
  BY DEF Renew
<1>6. Goes(r, [at |-> "answered", expires |-> session'.idle])
  <2>1. /\ session' = Renewed(now)
        /\ Goes(r, [at |-> "answered",
                    expires |-> Smaller(Renewed(now).idle, session.absolute)])
    BY DEF Renew
  <2>2. session'.idle <= session.absolute
    BY <1>1, <1>2, SessionRows DEF Smaller, Larger
  <2>3. Smaller(session'.idle, session.absolute) = session'.idle
    BY <1>2, <2>2 DEF Smaller
  <2> QED
    BY <2>1, <2>3
<1> HIDE DEF now
<1>7. session.last + Idle \in Nat /\ now + Idle \in Nat /\ Idle \in Nat
  BY <1>1, <1>2, SessionRows
<1>8. /\ session'.idle = Smaller(session'.last + Idle, session.absolute)
      /\ session'.idle >= session.idle
      /\ session.last <= session'.last /\ now <= session'.last
      /\ session'.last <= session.absolute
  BY <1>1, <1>2, <1>4, <1>7 DEF RowCoherent, Smaller, Larger
<1>9. RenewalsCoherent'
  BY <1>1, <1>2, <1>4, <1>8 DEF RowCoherent, RenewalsCoherent
<1>10. NoSilence'
  <2>1. session'.last \in seen'
    BY <1>1, <1>3 DEF Larger, SessionInv, NoSilence
  <2>2. \A t \in seen' : session.created <= t /\ t <= session'.last
    <3>1. SUFFICES ASSUME NEW t \in seen'
                   PROVE  session.created <= t /\ t <= session'.last
      OBVIOUS
    <3>2. CASE t = now
      BY <1>1, <1>8, <3>2
    <3>3. CASE t \in seen
      <4>1. t \in Nat /\ session.created <= t /\ t <= session.last
        BY <1>3, <3>3 DEF SessionInv, SessionTypeOK, NoSilence
      <4> QED
        BY <1>2, <1>8, <4>1
    <3> QED
      BY <1>1, <3>1, <3>2, <3>3
  <2>3. ASSUME NEW x \in Nat, session.created < x, x <= session'.last
        PROVE  \E s \in seen' : s < x /\ x - s < Idle
    <3>1. CASE x <= session.last
      BY <1>1, <1>3, <2>3, <3>1 DEF SessionInv, NoSilence
    <3>2. CASE session.last < x
      <4>1. x <= now
        BY <1>1, <1>2, <2>3, <3>2 DEF Larger
      <4>2. now < session.last + Idle
        BY <1>1, <1>2, <1>4, <1>7 DEF RowCoherent, Smaller
      <4>3. x - session.last < Idle
        BY <1>1, <1>2, <1>7, <4>1, <4>2
      <4>4. session.last \in seen'
        BY <1>1, <1>3 DEF SessionInv, NoSilence
      <4> QED
        BY <3>2, <4>3, <4>4
    <3> QED
      BY <1>2, <3>1, <3>2
  <2> QED
    BY <1>1, <2>1, <2>2, <2>3 DEF NoSilence
<1>11. \A q \in Visit : visit'[q] =
         IF q = r THEN [at |-> "answered", expires |-> session'.idle] ELSE visit[q]
  BY <1>6 DEF Goes, SessionInv, SessionTypeOK
<1>12. SessionTypeOK'
  <2>1. [at |-> "answered", expires |-> session'.idle] \in VisitState
    BY <1>2 DEF VisitState, NullOr
  <2>2. visit' \in [Visit -> VisitState]
    BY <1>6, <2>1 DEF Goes, SessionInv, SessionTypeOK
  <2> QED
    BY <1>1, <1>5, <2>2 DEF SessionInv, SessionTypeOK, NullOr
<1>13. VisitsFollow'
  <2>1. ASSUME NEW q \in Visit, visit[q].at = "answered", visit[q].expires # None
        PROVE  visit[q].expires <= session'.idle /\ visit[q].expires <= session.absolute
    <3>1. visit[q] \in VisitState
      BY DEF SessionInv, SessionTypeOK
    <3>2. visit[q].expires \in Nat
      BY <2>1, <3>1 DEF VisitState, NullOr
    <3>3. visit[q].expires <= session.idle /\ visit[q].expires <= session.absolute
      BY <1>3, <2>1 DEF SessionInv, VisitsFollow
    <3> QED
      BY <1>2, <1>8, <3>2, <3>3
  <2>2. session'.idle <= session'.idle /\ session'.idle <= session.absolute
    BY <1>2, <1>8 DEF Smaller
  <2> QED
    BY <1>1, <1>3, <1>5, <1>11, <2>1, <2>2 DEF SessionInv, VisitsFollow
<1>14. CookieWithinSession'
  <2>1. cookie # None => cookie \in Nat /\ cookie <= session.idle
                         /\ cookie <= session.absolute
    BY DEF SessionInv, SessionTypeOK, NullOr, CookieWithinSession
  <2> QED
    BY <1>1, <1>2, <1>5, <1>8, <2>1 DEF CookieWithinSession
<1>15. NothingBefore'
  BY <1>3 DEF NothingBefore
<1> QED
  BY <1>1, <1>8, <1>9, <1>10, <1>12, <1>13, <1>14, <1>15 DEF SessionInv

LEMMA RefuseKeeps ==
  ASSUME SessionInv, NEW r \in Visit, Refuse(r)
  PROVE  SessionInv'
<1>1. /\ visit[r].at = "sent" /\ Goes(r, [at |-> "answered", expires |-> None])
      /\ UNCHANGED <<clock, session, cookie, seen>>
  BY DEF Refuse, At
<1>2. [at |-> "answered", expires |-> None] \in VisitState
  BY DEF VisitState, NullOr
<1>3. CookieWithinSession' /\ cookie' \in NullOr(Nat) /\ session # None
  BY <1>1 DEF SessionInv, SessionTypeOK, CookieWithinSession, NothingBefore
<1> QED
  BY <1>1, <1>2, <1>3, GoesKeeps

LEMMA FailKeeps ==
  ASSUME SessionInv, NEW r \in Visit, Fail(r)
  PROVE  SessionInv'
<1>1. Goes(r, [at |-> "idle"]) /\ UNCHANGED <<clock, session, cookie, seen>>
  BY DEF Fail
<1>2. [at |-> "idle"] \in VisitState
  BY DEF VisitState
<1>3. /\ CookieWithinSession' /\ cookie' \in NullOr(Nat)
      /\ session = None => cookie' = None
  BY <1>1 DEF SessionInv, SessionTypeOK, CookieWithinSession, NothingBefore
<1> QED
  BY <1>1, <1>2, <1>3, GoesKeeps

LEMMA ReceiveKeeps ==
  ASSUME SessionInv, NEW r \in Visit, Receive(r)
  PROVE  SessionInv'
<1>1. /\ visit[r].at = "answered" /\ cookie' = visit[r].expires
      /\ Goes(r, [at |-> "idle"]) /\ UNCHANGED <<clock, session, seen>>
  BY DEF Receive, At
<1>2. [at |-> "idle"] \in VisitState
  BY DEF VisitState
<1>3. session # None
  BY <1>1 DEF SessionInv, NothingBefore
<1>4. visit[r] \in VisitState
  BY DEF SessionInv, SessionTypeOK
<1>5. cookie' \in NullOr(Nat)
  BY <1>1, <1>4 DEF VisitState
<1>6. CookieWithinSession'
  BY <1>1, <1>3 DEF SessionInv, VisitsFollow, CookieWithinSession
<1> QED
  BY <1>1, <1>2, <1>3, <1>5, <1>6, GoesKeeps

LEMMA RevokeKeeps ==
  ASSUME SessionInv, NEW now \in 0 .. clock, Revoke(now)
  PROVE  /\ SessionInv' /\ session # None
         /\ session'.idle = session.idle /\ session'.absolute = session.absolute
<1>1. /\ session # None /\ session' = [session EXCEPT !.revoked = now]
      /\ RowCoherent([session EXCEPT !.revoked = now])
      /\ UNCHANGED <<clock, visit, cookie, seen>>
  BY DEF Revoke
<1>2. clock \in Nat /\ now \in Nat
  BY DEF SessionInv, SessionTypeOK
<1>3. session \in SessionRow
  BY <1>1 DEF SessionInv, SessionTypeOK, NullOr
<1>4. /\ session'.created = session.created /\ session'.last = session.last
      /\ session'.idle = session.idle /\ session'.absolute = session.absolute
      /\ session' \in SessionRow
  BY <1>1, <1>2, <1>3 DEF SessionRow
<1>5. session' # None
  BY <1>4, SessionRows
<1>6. SessionTypeOK' /\ NothingBefore'
  BY <1>1, <1>4, <1>5 DEF SessionInv, SessionTypeOK, NullOr, NothingBefore
<1>7. VisitsFollow'
  BY <1>1, <1>4 DEF SessionInv, VisitsFollow
<1>8. NoSilence'
  BY <1>1, <1>4 DEF SessionInv, NoSilence
<1>9. RenewalsCoherent' /\ CookieWithinSession'
  BY <1>1, <1>4 DEF SessionInv, RenewalsCoherent, CookieWithinSession
<1> QED
  BY <1>1, <1>4, <1>6, <1>7, <1>8, <1>9 DEF SessionInv

\* No step shortens the session, and one that prolongs it is a renewal.
LEMMA SessionStep ==
  ASSUME SessionInv, [SessionNext]_<<clock, visits>>
  PROVE  /\ SessionInv'
         /\ session # None =>
              /\ session'.idle >= session.idle /\ session'.absolute = session.absolute
              /\ session'.idle # session.idle => \E r \in Visit : Renew(r)
<1>1. session # None => session.idle \in Nat
  BY DEF SessionInv, SessionTypeOK, NullOr, SessionRow
<1>2. ASSUME Elapse \/ Disable \/ UNCHANGED <<clock, visits>>
      PROVE  SessionInv' /\ session' = session
  BY <1>2, ClockOnlyKeeps DEF Elapse, Disable, visits
<1>3. ASSUME NEW r \in Visit,
             Arrive(r) \/ SendRenewal(r) \/ Refuse(r) \/ Fail(r) \/ Receive(r)
      PROVE  SessionInv' /\ session' = session
  BY <1>3, ArriveKeeps, SendRenewalKeeps, RefuseKeeps, FailKeeps, ReceiveKeeps
  DEF Arrive, SendRenewal, Refuse, Fail, Receive
<1>4. ASSUME NEW r \in Visit, OpenSession(r)
      PROVE  SessionInv' /\ session = None
  BY <1>4, OpenSessionKeeps DEF OpenSession
<1> QED
  BY <1>1, <1>2, <1>3, <1>4, RenewKeeps, RevokeKeeps DEF SessionNext

LEMMA SessionInvBounds == ASSUME SessionInv PROVE LifeBounded
<1>1. NoSilentGap
  <2>1. SUFFICES ASSUME NEW t \in seen, t # session.created
                 PROVE  \E s \in seen : s < t /\ t - s < Idle
    BY DEF NoSilentGap
  <2>2. session # None /\ t \in Nat
    BY DEF SessionInv, SessionTypeOK, NothingBefore
  <2>3. session.created \in Nat /\ session.created <= t /\ t <= session.last
    BY <2>2 DEF SessionInv, SessionTypeOK, NullOr, SessionRow, NoSilence
  <2>4. session.created < t
    BY <2>1, <2>2, <2>3
  <2> QED
    BY <2>2, <2>3, <2>4 DEF SessionInv, NoSilence
<1> QED
  BY <1>1 DEF SessionInv, LifeBounded

\* The trigger refuses what the database started when the session was over.
LEMMA RenewedInTime ==
  ASSUME SessionInv, NEW r \in Visit, Renew(r),
         \A q \in Visit : At(q, "sent") => visit[q].started >= session.idle
  PROVE  session'.idle = session.idle
<1>1. At(r, "sent") /\ Guarded(visit[r].started, session')
  BY DEF Renew
<1>2. session \in SessionRow /\ visit[r] \in VisitState
  BY Renewal DEF SessionInv, SessionTypeOK
<1>3. visit[r].started \in Nat /\ session.idle \in Nat
  BY <1>1, <1>2 DEF VisitState, SessionRow, At
<1>4. session.idle <= visit[r].started
  BY <1>1, <1>3
<1> QED
  BY <1>1, <1>4 DEF Guarded

\* What LateRenewalsHarmless says of a step.
Extends == session # None => session'.idle >= session.idle /\ session'.absolute = session.absolute

NotRevived ==
  session # None /\ session.idle <= clock
    /\ (\A r \in Visit : At(r, "sent") => visit[r].started >= session.idle)
  => session'.idle = session.idle

\* For any number of requests and any limits: the row keeps its CHECK, two
\* readings a session was accepted for leave no silence as long as the idle
\* limit, the cookie never outlives the row, and late renewals neither shorten,
\* nor prolong beyond the end, nor revive.
THEOREM SessionsAlwaysEnd == SessionSpec => SessionsEnd
<1>1. SessionInit => SessionInv
  BY SessionInitInv
<1>2. SessionInv /\ [SessionNext]_<<clock, visits>> => SessionInv'
  BY SessionStep
<1>3. SessionSpec => []SessionInv
  BY <1>1, <1>2, PTL DEF SessionSpec
<1>4. SessionInv => LifeBounded
  BY SessionInvBounds
<1>5. SessionInv /\ [SessionNext]_<<clock, visits>> => Extends /\ NotRevived
  BY SessionStep, RenewedInTime DEF Extends, NotRevived
<1>6. SessionInv /\ [SessionNext]_<<clock, visits>>
        => [Extends]_<<clock, visits>> /\ [NotRevived]_<<clock, visits>>
  BY <1>5
<1> QED
  BY <1>3, <1>4, <1>6, PTL
  DEF SessionSpec, SessionsEnd, LateRenewalsHarmless, RenewalsOnlyExtend,
      ExpiredNotRevived, Extends, NotRevived
-----------------------------------------------------------------------------
(* Counting what a set of events can hold.                                 *)

\* Events with different places among n are at most n.
LEMMA PlacesBound ==
  ASSUME NEW E, NEW n \in Nat,
         \A e \in E : e.nth \in 1..n,
         \A e, f \in E : e.nth = f.nth => e = f
  PROVE  IsFiniteSet(E) /\ Cardinality(E) <= n
<1> DEFINE place == [e \in E |-> e.nth]
<1>1. place \in [E -> 1..n]
  OBVIOUS
<1>2. \A e, f \in E : place[e] = place[f] => e = f
  OBVIOUS
<1> HIDE DEF place
<1>3. place \in Injection(E, 1..n)
  BY <1>1, <1>2 DEF Injection, IsInjective
<1>4. IsFiniteSet(1..n) /\ Cardinality(1..n) = n
  BY FS_Interval
<1> QED
  BY <1>3, <1>4, FS_Injection

\* Events that fill n places are at least n.
LEMMA PlacesFill ==
  ASSUME NEW E, IsFiniteSet(E), NEW n \in Nat,
         \A i \in 1..n : \E e \in E : e.nth = i
  PROVE  Cardinality(E) >= n
<1> DEFINE event == [i \in 1..n |-> CHOOSE e \in E : e.nth = i]
<1>1. \A i \in 1..n : event[i] \in E /\ event[i].nth = i
  OBVIOUS
<1>2. event \in [1..n -> E]
  BY <1>1
<1> HIDE DEF event
<1>6. event \in Injection(1..n, E)
  BY <1>1, <1>2 DEF Injection, IsInjective
<1>3. Cardinality(1..n) = n
  BY FS_Interval
<1>4. Cardinality(E) \in Nat
  BY FS_CardinalityType
<1>5. Cardinality(1..n) <= Cardinality(E)
  BY <1>6, FS_Injection
<1> QED
  BY <1>3, <1>4, <1>5

-----------------------------------------------------------------------------
(* The allowance of a key.                                                 *)

QueryState ==
  [at : {"idle", "authenticated"}] \cup [at : {"counting"}, now : Nat]
    \cup [at : {"refused"}, prompt : BOOLEAN]

Service == [at : Nat, prompt : BOOLEAN, window : Nat, nth : Nat]

AllowanceTyped ==
  /\ clock \in Nat
  /\ window \in NullOr(WindowRow)
  /\ query \in [Query -> QueryState]
  /\ served \in SUBSET Service /\ IsFiniteSet(served)

ReadingsPast == \A r \in Query : query[r].at = "counting" => query[r].now <= clock

\* Whoever was served has a place within the limit, in the present window or in
\* one that was over when the present one was opened.
ServicesPlaced ==
  \A e \in served :
    /\ window # None
    /\ e.window <= e.at /\ e.at <= clock
    /\ e.prompt => e.at < e.window + Minute
    /\ 1 <= e.nth /\ e.nth <= QueryLimit
    /\ e.window = window.since => e.nth <= window.count
    /\ e.window # window.since => e.window + Minute <= window.since

\* A place is given once, and windows are a minute apart.
PlacesOnce ==
  \A e, f \in served :
    /\ e.window = f.window /\ e.nth = f.nth => e = f
    /\ e.window < f.window => e.window + Minute <= f.window

\* The places of the present window up to its count are given.
WindowFilled ==
  window # None =>
    /\ window.since <= clock
    /\ \A n \in 1..QueryLimit : n <= window.count =>
         \E e \in served : e.window = window.since /\ e.nth = n

RefusalsRecent ==
  \A r \in Query : query[r].at = "refused" /\ query[r].prompt =>
    window # None /\ window.count > QueryLimit /\ clock < window.since + Minute

AllowanceInv ==
  /\ AllowanceTyped /\ ReadingsPast /\ ServicesPlaced /\ PlacesOnce
  /\ WindowFilled /\ RefusalsRecent

LEMMA AllowanceInitInv == AllowanceInit => AllowanceInv
  BY FS_EmptySet
  DEF AllowanceInit, AllowanceInv, AllowanceTyped, NullOr, QueryState, ReadingsPast,
      ServicesPlaced, PlacesOnce, WindowFilled, RefusalsRecent

\* Steps of the clock, the key and its owner.
LEMMA OthersKeepAllowance ==
  ASSUME AllowanceInv, UNCHANGED <<window, query, served>>,
         clock' = clock \/ (clock' = clock + 1 /\ \A r \in Query : query[r].at # "refused")
  PROVE  AllowanceInv'
<1>1. AllowanceTyped' /\ clock <= clock'
  BY DEF AllowanceInv, AllowanceTyped
<1>2. ReadingsPast'
  <2>1. SUFFICES ASSUME NEW r \in Query, query[r].at = "counting"
                 PROVE  query[r].now <= clock'
    BY DEF ReadingsPast
  <2>2. query[r] \in QueryState /\ clock \in Nat
    BY DEF AllowanceInv, AllowanceTyped
  <2>3. query[r].now \in Nat
    BY <2>1, <2>2 DEF QueryState
  <2> QED
    BY <1>1, <2>1, <2>2, <2>3 DEF AllowanceInv, ReadingsPast
<1>3. ServicesPlaced' /\ WindowFilled'
  <2>1. \A e \in served : e.at \in Nat
    BY DEF AllowanceInv, AllowanceTyped, Service
  <2>2. window # None => window.since \in Nat
    BY DEF AllowanceInv, AllowanceTyped, NullOr, WindowRow
  <2>3. clock \in Nat
    BY DEF AllowanceInv, AllowanceTyped
  <2> QED
    BY <2>1, <2>2, <2>3 DEF AllowanceInv, ServicesPlaced, WindowFilled
<1>4. PlacesOnce' /\ RefusalsRecent'
  BY DEF AllowanceInv, PlacesOnce, RefusalsRecent
<1> QED
  BY <1>1, <1>2, <1>3, <1>4 DEF AllowanceInv

\* Steps of a request that is not counted, nor refused.
LEMMA QueryGoesKeeps ==
  ASSUME AllowanceInv, NEW r \in Query, NEW state \in QueryState, QueryGoes(r, state),
         state.at # "refused", state.at = "counting" => state.now <= clock,
         UNCHANGED <<clock, window, served>>
  PROVE  AllowanceInv'
<1>1. query' \in [Query -> QueryState]
  BY DEF QueryGoes, AllowanceInv, AllowanceTyped
<1>2. query'[r] = state /\ \A q \in Query \ {r} : query'[q] = query[q]
  BY DEF QueryGoes, AllowanceInv, AllowanceTyped
<1>3. AllowanceTyped' /\ ReadingsPast' /\ RefusalsRecent'
  BY <1>1, <1>2 DEF AllowanceInv, AllowanceTyped, ReadingsPast, RefusalsRecent
<1>4. ServicesPlaced' /\ PlacesOnce' /\ WindowFilled'
  BY DEF AllowanceInv, ServicesPlaced, PlacesOnce, WindowFilled
<1> QED
  BY <1>3, <1>4 DEF AllowanceInv

\* A request counted after a late reading opens its window in the past, but
\* never within a minute of the one before.
LEMMA CountQueryKeeps ==
  ASSUME AllowanceInv, NEW r \in Query, CountQuery(r)
  PROVE  AllowanceInv'
<1> DEFINE now == query[r].now
           allowed == window'.count <= QueryLimit
           service == [at |-> clock, prompt |-> now = clock,
                       window |-> window'.since, nth |-> window'.count]
<1>1. /\ query[r].at = "counting" /\ window' = CountedQuery(now)
      /\ UNCHANGED clock
  BY DEF CountQuery, QueryAt
<1>2. /\ allowed => /\ served' = served \cup {service}
                    /\ query' = [query EXCEPT ![r] = [at |-> "idle"]]
      /\ ~allowed => /\ served' = served
                     /\ query' = [query EXCEPT ![r] = [at |-> "refused", prompt |-> now = clock]]
  BY DEF CountQuery, QueryGoes
<1>3. clock \in Nat /\ QueryLimit \in Nat /\ Minute \in Nat \ {0} /\ query \in [Query -> QueryState]
  BY AllowanceAssumption DEF AllowanceInv, AllowanceTyped
<1>4. now \in Nat /\ now <= clock
  <2>1. query[r] \in QueryState
    BY <1>3
  <2> QED
    BY <1>1, <2>1 DEF QueryState, AllowanceInv, ReadingsPast
<1>5. served \subseteq Service /\ IsFiniteSet(served)
  BY DEF AllowanceInv, AllowanceTyped
<1> HIDE DEF now, allowed, service
<1>6. /\ window' \in WindowRow /\ window' # None
      /\ window'.since <= clock /\ now < window'.since + Minute
      /\ 1 <= window'.count
      /\ \A e \in served : e.window # window'.since => e.window + Minute <= window'.since
      /\ \A e \in served : e.window = window'.since => e.nth <= window'.count
      /\ \A e \in served : allowed /\ e.window = window'.since => e.nth < window'.count
      /\ \A n \in 1..QueryLimit : n < window'.count =>
           \E e \in served : e.window = window'.since /\ e.nth = n
      /\ ~allowed => \A n \in 1..QueryLimit :
           \E e \in served : e.window = window'.since /\ e.nth = n
  <2>1. CASE window = None \/ MinuteOver(now)
    <3>1. window' = [since |-> now, count |-> 1]
      BY <1>1, <2>1 DEF CountedQuery, FreshWindow
    <3>2. window' \in WindowRow /\ window'.since = now /\ window'.count = 1
      BY <1>4, <3>1 DEF WindowRow
    <3>3. \A e \in served : e.window + Minute <= now
      <4>1. SUFFICES ASSUME NEW e \in served PROVE e.window + Minute <= now
        OBVIOUS
      <4>2. window # None /\ window \in WindowRow /\ MinuteOver(now)
        BY <2>1 DEF AllowanceInv, ServicesPlaced, AllowanceTyped, NullOr
      <4>3. window.since \in Nat /\ e.window \in Nat
        BY <1>5, <4>2 DEF WindowRow, Service
      <4>4. e.window <= window.since
        BY <1>3, <4>3 DEF AllowanceInv, ServicesPlaced
      <4> QED
        BY <1>3, <1>4, <4>2, <4>3, <4>4 DEF MinuteOver
    <3>4. \A e \in served : e.window \in Nat
      BY <1>5 DEF Service
    <3>5. ~allowed => QueryLimit = 0
      BY <1>3, <3>2 DEF allowed
    <3> QED
      BY <1>3, <1>4, <3>2, <3>3, <3>4, <3>5, AllowanceAssumption
  <2>2. CASE window # None /\ ~MinuteOver(now)
    <3>1. window' = [window EXCEPT !.count = OneMoreQuery(@)]
      BY <1>1, <2>2 DEF CountedQuery
    <3>2. window \in WindowRow
      BY <2>2 DEF AllowanceInv, AllowanceTyped, NullOr
    <3>3. window.count \in Nat /\ window.since \in Nat
      BY <3>2 DEF WindowRow
    <3>4. OneMoreQuery(window.count) \in Nat /\ window.count <= OneMoreQuery(window.count)
      BY <1>3, <3>3 DEF OneMoreQuery
    <3>5. /\ window' \in WindowRow /\ window'.since = window.since
          /\ window'.count = OneMoreQuery(window.count)
      BY <3>1, <3>2, <3>4 DEF WindowRow
    <3>6. window'.since <= clock /\ now < window'.since + Minute
      BY <1>3, <1>4, <2>2, <3>3, <3>5 DEF MinuteOver, AllowanceInv, WindowFilled
    <3>7. allowed => window'.count = window.count + 1
      BY <1>3, <3>3, <3>5 DEF allowed, OneMoreQuery
    <3>8. 1 <= window'.count
      BY <1>3, <3>3, <3>5 DEF OneMoreQuery
    <3>9. \A e \in served : e.window # window'.since => e.window + Minute <= window'.since
      BY <3>5 DEF AllowanceInv, ServicesPlaced
    <3>10. \A e \in served : e.nth \in Nat
      BY <1>5 DEF Service
    <3>11. \A e \in served : e.window = window'.since => e.nth <= window.count
      BY <3>5 DEF AllowanceInv, ServicesPlaced
    <3>12. \A n \in 1..QueryLimit : n < window'.count => n <= window.count
      BY <1>3, <3>3, <3>5 DEF OneMoreQuery
    <3>13. \A n \in 1..QueryLimit : n <= window.count =>
             \E e \in served : e.window = window'.since /\ e.nth = n
      BY <2>2, <3>5 DEF AllowanceInv, WindowFilled
    <3>14. ~allowed => \A n \in 1..QueryLimit : n <= window.count
      BY <1>3, <3>3, <3>5 DEF allowed, OneMoreQuery
    <3>15. \A e \in served : e.window = window'.since => e.nth <= window'.count
      BY <3>3, <3>4, <3>5, <3>10, <3>11
    <3>16. \A e \in served : allowed /\ e.window = window'.since => e.nth < window'.count
      BY <3>3, <3>7, <3>10, <3>11
    <3>17. window' # None
      BY <3>5, AllowanceAssumption
    <3> QED
      BY <3>5, <3>6, <3>8, <3>9, <3>12, <3>13, <3>14, <3>15, <3>16, <3>17
  <2> QED
    BY <2>1, <2>2
<1>7. window'.since \in Nat /\ window'.count \in Nat
  BY <1>6 DEF WindowRow
<1>8. service \in Service /\ service.at = clock /\ (service.prompt <=> now = clock)
      /\ service.window = window'.since /\ service.nth = window'.count
  BY <1>3, <1>4, <1>7 DEF service, Service
<1>9. served' \subseteq served \cup {service} /\ IsFiniteSet(served')
      /\ served \subseteq served'
  BY <1>2, <1>5, FS_AddElement
<1>10. service \notin served => allowed \/ service \notin served'
  BY <1>2
<1>11. \A e \in served' : e \in served \/ (e = service /\ allowed)
  BY <1>2
<1>12. AllowanceTyped'
  <2>1. [at |-> "idle"] \in QueryState /\ [at |-> "refused", prompt |-> now = clock] \in QueryState
    BY DEF QueryState
  <2>2. query' \in [Query -> QueryState]
    BY <1>2, <1>3, <2>1
  <2>3. served' \in SUBSET Service
    BY <1>5, <1>8, <1>9
  <2> QED
    BY <1>1, <1>3, <1>6, <1>9, <2>2, <2>3 DEF AllowanceTyped, NullOr
<1>19. /\ allowed => query'[r] = [at |-> "idle"]
       /\ ~allowed => query'[r] = [at |-> "refused", prompt |-> now = clock]
       /\ \A q \in Query \ {r} : query'[q] = query[q]
  BY <1>2, <1>3
<1>13. /\ query'[r].at # "counting"
       /\ query'[r].at = "refused" => ~allowed /\ (query'[r].prompt => now = clock)
       /\ \A q \in Query \ {r} : query'[q] = query[q]
  <2>1. CASE allowed
    BY <1>19, <2>1
  <2>2. CASE ~allowed /\ now # clock
    <3>1. query'[r] = [at |-> "refused", prompt |-> FALSE]
      BY <1>19, <2>2
    <3> QED
      BY <1>19, <2>2, <3>1
  <2>3. CASE ~allowed /\ now = clock
    <3>1. query'[r] = [at |-> "refused", prompt |-> TRUE]
      BY <1>19, <2>3
    <3> QED
      BY <1>19, <2>3, <3>1
  <2> QED
    BY <2>1, <2>2, <2>3
<1>14. ReadingsPast'
  BY <1>1, <1>13 DEF AllowanceInv, ReadingsPast
<1>15. ServicesPlaced'
  <2>1. SUFFICES ASSUME NEW e \in served'
                 PROVE  /\ e.window <= e.at /\ e.at <= clock
                        /\ e.prompt => e.at < e.window + Minute
                        /\ 1 <= e.nth /\ e.nth <= QueryLimit
                        /\ e.window = window'.since => e.nth <= window'.count
                        /\ e.window # window'.since => e.window + Minute <= window'.since
    BY <1>1, <1>6 DEF ServicesPlaced
  <2>2. CASE e \in served
    BY <1>6, <2>2 DEF AllowanceInv, ServicesPlaced
  <2>3. CASE e = service /\ allowed
    BY <1>3, <1>6, <1>7, <1>8, <2>3 DEF allowed
  <2> QED
    BY <1>11, <2>2, <2>3
<1>16. PlacesOnce'
  <2>1. SUFFICES ASSUME NEW e \in served', NEW f \in served'
                 PROVE  /\ e.window = f.window /\ e.nth = f.nth => e = f
                        /\ e.window < f.window => e.window + Minute <= f.window
    BY DEF PlacesOnce
  <2>2. \A x \in served : x.window \in Nat /\ x.nth \in Nat
    BY <1>5 DEF Service
  <2>3. CASE e \in served /\ f \in served
    BY <2>3 DEF AllowanceInv, PlacesOnce
  <2>4. CASE e \in served /\ f = service /\ allowed
    BY <1>6, <1>7, <1>8, <2>2, <2>4
  <2>5. CASE e = service /\ allowed /\ f \in served
    <3>1. f.window = e.window => f.nth < e.nth
      BY <1>6, <1>8, <2>5
    <3>2. f.window # e.window => f.window < e.window
      BY <1>3, <1>6, <1>7, <1>8, <2>2, <2>5
    <3> QED
      BY <1>7, <1>8, <2>2, <2>5, <3>1, <3>2
  <2>6. CASE e = service /\ f = service
    BY <1>7, <1>8, <2>6
  <2> QED
    BY <1>11, <2>3, <2>4, <2>5, <2>6
<1>17. WindowFilled'
  <2>1. SUFFICES ASSUME NEW n \in 1..QueryLimit, n <= window'.count
                 PROVE  \E e \in served' : e.window = window'.since /\ e.nth = n
    BY <1>1, <1>6 DEF WindowFilled
  <2>2. CASE n < window'.count \/ ~allowed
    BY <1>6, <1>9, <2>1, <2>2
  <2>3. CASE n = window'.count /\ allowed
    BY <1>2, <1>8, <2>3
  <2> QED
    BY <1>7, <2>1, <2>2, <2>3
<1>18. RefusalsRecent'
  <2>1. SUFFICES ASSUME NEW q \in Query, query'[q].at = "refused", query'[q].prompt
                 PROVE  window'.count > QueryLimit /\ clock < window'.since + Minute
    BY <1>1, <1>6 DEF RefusalsRecent
  <2>2. CASE q = r
    BY <1>3, <1>6, <1>7, <1>13, <2>1, <2>2 DEF allowed
  <2>3. CASE q # r
    <3>1. window # None /\ window.count > QueryLimit /\ clock < window.since + Minute
      BY <1>13, <2>1, <2>3 DEF AllowanceInv, RefusalsRecent
    <3>2. window.since \in Nat /\ window.count \in Nat /\ window \in WindowRow
      BY <3>1 DEF AllowanceInv, AllowanceTyped, NullOr, WindowRow
    <3>3. ~MinuteOver(now)
      BY <1>3, <1>4, <3>1, <3>2 DEF MinuteOver
    <3>4. window' = [window EXCEPT !.count = OneMoreQuery(@)]
      BY <1>1, <3>1, <3>3 DEF CountedQuery
    <3>5. OneMoreQuery(window.count) = window.count
      BY <1>3, <3>1, <3>2 DEF OneMoreQuery
    <3>6. window'.since = window.since /\ window'.count = window.count
      BY <3>2, <3>4, <3>5 DEF WindowRow
    <3> QED
      BY <3>1, <3>6
  <2> QED
    BY <2>2, <2>3
<1> QED
  BY <1>12, <1>14, <1>15, <1>16, <1>17, <1>18 DEF AllowanceInv

LEMMA AllowanceStep ==
  ASSUME AllowanceInv, [AllowanceNext]_allowanceVars
  PROVE  AllowanceInv'
<1>1. clock \in Nat
  BY DEF AllowanceInv, AllowanceTyped
<1>2. CASE TickMinute /\ \A r \in Query : ~QueryAt(r, "refused")
  BY <1>2, OthersKeepAllowance DEF TickMinute, Advances, QueryAt
<1>3. CASE \/ RevokeKey \/ RevokeOwnerCredential \/ DeactivateOwner \/ ReactivateOwner
           \/ UNCHANGED allowanceVars
  BY <1>3, OthersKeepAllowance
     DEF RevokeKey, RevokeOwnerCredential, DeactivateOwner, ReactivateOwner, allowanceVars
<1>4. ASSUME NEW now \in 0..clock, CreateKey(now) \/ ChangeOwnerCredential(now)
      PROVE  AllowanceInv'
  BY <1>4, OthersKeepAllowance DEF CreateKey, ChangeOwnerCredential
<1>5. ASSUME NEW r \in Query, NEW now \in 0..clock, Authenticate(r, now)
      PROVE  AllowanceInv'
  <2>1. [at |-> "authenticated"] \in QueryState
    BY DEF QueryState
  <2> QED
    BY <1>5, <2>1, QueryGoesKeeps DEF Authenticate
<1>6. ASSUME NEW r \in Query, ReadClock(r) \/ AnswerRefusal(r)
      PROVE  AllowanceInv'
  <2>1. [at |-> "counting", now |-> clock] \in QueryState /\ [at |-> "idle"] \in QueryState
    BY <1>1 DEF QueryState
  <2>2. clock <= clock
    BY <1>1
  <2>3. CASE ReadClock(r)
    BY <2>1, <2>2, <2>3, QueryGoesKeeps DEF ReadClock
  <2>4. CASE AnswerRefusal(r)
    BY <2>1, <2>4, QueryGoesKeeps DEF AnswerRefusal
  <2> QED
    BY <1>6, <2>3, <2>4
<1> QED
  BY <1>2, <1>3, <1>4, <1>5, <1>6, CountQueryKeeps DEF AllowanceNext

\* Three windows do not fit into what two minutes touch.
LEMMA AllowanceInvFair == AllowanceInv => AllowanceFair
<1> SUFFICES ASSUME AllowanceInv PROVE AllowanceFair
  OBVIOUS
<1>1. /\ clock \in Nat /\ QueryLimit \in Nat /\ Minute \in Nat \ {0}
      /\ served \subseteq Service /\ IsFiniteSet(served)
  BY AllowanceAssumption DEF AllowanceInv, AllowanceTyped
<1>2. \A e \in served : /\ e.at \in Nat /\ e.window \in Nat /\ e.nth \in Nat
                        /\ e.nth \in 1..QueryLimit
  BY <1>1 DEF Service, AllowanceInv, ServicesPlaced
<1>3. \A E \in SUBSET served :
        (\A e, f \in E : e.window = f.window) => IsFiniteSet(E) /\ Cardinality(E) <= QueryLimit
  <2>1. SUFFICES ASSUME NEW E \in SUBSET served, \A e, f \in E : e.window = f.window
                 PROVE  IsFiniteSet(E) /\ Cardinality(E) <= QueryLimit
    OBVIOUS
  <2>2. \A e \in E : e.nth \in 1..QueryLimit
    BY <1>2
  <2>3. \A e, f \in E : e.nth = f.nth => e = f
    BY <2>1 DEF AllowanceInv, PlacesOnce
  <2> QED
    BY <1>1, <2>2, <2>3, PlacesBound
<1>4. TwoWindowsAtMost
  <2> SUFFICES ASSUME NEW t \in Time
               PROVE  Cardinality({e \in ServedIn(t, t + Minute - 1) : e.prompt}) <= 2 * QueryLimit
    BY DEF TwoWindowsAtMost
  <2> DEFINE E == {e \in ServedIn(t, t + Minute - 1) : e.prompt}
  <2>1. t \in Nat /\ E \subseteq served
    BY DEF Time, ServedIn
  <2>2. \A e \in E : t <= e.at /\ e.at < t + Minute /\ e.window <= e.at /\ e.at < e.window + Minute
    BY <1>1, <1>2, <2>1 DEF ServedIn, AllowanceInv, ServicesPlaced
  <2>3. \A e, f \in E : e.window < f.window => e.window + Minute <= f.window
    BY <2>1 DEF AllowanceInv, PlacesOnce
  <2> HIDE DEF E
  <2>4. CASE E = {}
    <3>1. Cardinality(E) <= 2 * QueryLimit
      BY <1>1, <2>4, FS_EmptySet
    <3> QED
      BY <3>1 DEF E
  <2>5. CASE E # {}
    <3>1. PICK e \in E : TRUE
      BY <2>5
    <3> DEFINE A == {f \in E : f.window = e.window}
               B == E \ A
    <3>2. \A f, g \in B : f.window = g.window
      <4>1. SUFFICES ASSUME NEW f \in B, NEW g \in B, f.window # g.window
                     PROVE  FALSE
        OBVIOUS
      <4>2. /\ e.window \in Nat /\ f.window \in Nat /\ g.window \in Nat
            /\ e.at \in Nat /\ f.at \in Nat /\ g.at \in Nat
        BY <1>2, <2>1
      <4>3. f.window # e.window /\ g.window # e.window /\ f \in E /\ g \in E
        OBVIOUS
      <4>4. /\ e.window < t + Minute /\ t < e.window + Minute
            /\ f.window < t + Minute /\ t < f.window + Minute
            /\ g.window < t + Minute /\ t < g.window + Minute
        BY <1>1, <2>1, <2>2, <4>2, <4>3
      <4>5. /\ e.window + Minute <= f.window \/ f.window + Minute <= e.window
            /\ e.window + Minute <= g.window \/ g.window + Minute <= e.window
            /\ f.window + Minute <= g.window \/ g.window + Minute <= f.window
        BY <2>3, <4>1, <4>2, <4>3
      <4> QED
        BY <1>1, <2>1, <4>2, <4>4, <4>5
    <3>3. IsFiniteSet(A) /\ Cardinality(A) <= QueryLimit
      BY <1>3, <2>1
    <3>4. IsFiniteSet(B) /\ Cardinality(B) <= QueryLimit
      BY <1>3, <2>1, <3>2
    <3>5. E = A \cup B
      OBVIOUS
    <3> HIDE DEF A, B
    <3>6. /\ Cardinality(E) = Cardinality(A) + Cardinality(B) - Cardinality(A \cap B)
          /\ Cardinality(A) \in Nat /\ Cardinality(B) \in Nat
      BY <3>3, <3>4, <3>5, FS_Union, FS_CardinalityType
    <3>7. A \cap B \subseteq A
      OBVIOUS
    <3>8. Cardinality(A \cap B) \in Nat
      BY <3>3, <3>7, FS_Subset, FS_CardinalityType
    <3>9. Cardinality(E) <= 2 * QueryLimit
      BY <1>1, <3>3, <3>4, <3>6, <3>8
    <3> QED
      BY <3>9 DEF E
  <2> QED
    BY <2>4, <2>5
<1>5. RefusalEarned
  <2> SUFFICES ASSUME NEW r \in Query, QueryAt(r, "refused"), query[r].prompt
               PROVE  Cardinality(ServedIn(clock - Minute + 1, clock)) >= QueryLimit
    BY DEF RefusalEarned
  <2>1. window # None /\ window.count > QueryLimit /\ clock < window.since + Minute
    BY DEF AllowanceInv, RefusalsRecent, QueryAt
  <2>2. window.since \in Nat /\ window.count \in Nat
    BY <2>1 DEF AllowanceInv, AllowanceTyped, NullOr, WindowRow
  <2>3. \A n \in 1..QueryLimit : \E e \in served : e.window = window.since /\ e.nth = n
    <3>1. \A n \in 1..QueryLimit : n <= window.count
      BY <1>1, <2>1, <2>2
    <3> QED
      BY <2>1, <3>1 DEF AllowanceInv, WindowFilled
  <2>4. \A e \in served : e.window = window.since => e \in ServedIn(clock - Minute + 1, clock)
    BY <1>1, <1>2, <2>1, <2>2 DEF ServedIn, AllowanceInv, ServicesPlaced
  <2>5. \A n \in 1..QueryLimit : \E e \in ServedIn(clock - Minute + 1, clock) : e.nth = n
    BY <2>3, <2>4
  <2>6. ServedIn(clock - Minute + 1, clock) \subseteq served
    BY DEF ServedIn
  <2>7. IsFiniteSet(ServedIn(clock - Minute + 1, clock))
    BY <1>1, <2>6, FS_Subset
  <2> QED
    BY <1>1, <2>5, <2>7, PlacesFill
<1> QED
  BY <1>4, <1>5 DEF AllowanceFair

\* For any number of requests, any limit and however late readings are counted:
\* of the requests counted as soon as they read the clock no stretch of a minute
\* serves more than two limits, and a prompt refusal is deserved.
THEOREM AllowanceAlwaysFair == AllowanceSpec => []AllowanceFair
<1>1. AllowanceInit => AllowanceInv
  BY AllowanceInitInv
<1>2. AllowanceInv /\ [AllowanceNext]_allowanceVars => AllowanceInv'
  BY AllowanceStep
<1> QED
  BY <1>1, <1>2, AllowanceInvFair, PTL DEF AllowanceSpec
-----------------------------------------------------------------------------
(* The throttle of logins.                                                 *)

AttemptState ==
  [at : {"idle", "verifying"}] \cup [at : {"looked"}, until : Nat \cup {None}]
    \cup [at : {"failed", "verified"}, now : Nat]

Failure == [at : Nat, window : Nat, nth : Nat]

ThrottleTyped ==
  /\ clock \in Nat /\ clock <= MaxClock
  /\ throttle \in ThrottleRow \cup {None}
  /\ attempt \in [Attempt -> AttemptState]
  /\ counted \in SUBSET Failure /\ IsFiniteSet(counted)
  /\ late \in Nat

AttemptsPast ==
  \A a \in Attempt : attempt[a].at \in {"failed", "verified"} => attempt[a].now <= clock

\* A counted failure has a place among four, in the present window or in one
\* that was over when the present one was opened; the fourth blocks for as long
\* as a window from its reading.
FailuresPlaced ==
  \A e \in counted :
    /\ throttle # None
    /\ e.window <= e.at /\ e.at < e.window + ThrottleWindow
    /\ 1 <= e.nth /\ e.nth <= 4
    /\ e.window = throttle.since =>
         e.nth <= throttle.count /\ (e.nth = 4 => e.at = throttle.last)
    /\ e.window # throttle.since =>
         /\ e.window + ThrottleWindow <= throttle.since
         /\ e.nth = 4 => e.at + ThrottleWindow <= throttle.since

\* A place is given once, and the next window begins when the one before, and
\* its block, are over.
FailuresOnce ==
  \A e, f \in counted :
    /\ e.window = f.window /\ e.nth = f.nth => e = f
    /\ e.window < f.window =>
         /\ e.window + ThrottleWindow <= f.window
         /\ e.nth = 4 => e.at + ThrottleWindow <= f.window

RowMeasured ==
  throttle # None =>
    /\ WindowCoherent(throttle)
    /\ throttle.since <= clock
    /\ throttle.count <= 4
    /\ \A n \in 1..4 : n <= throttle.count =>
         \E e \in counted : e.window = throttle.since /\ e.nth = n

\* Attempts that may still fail by a reading from before the end of the block:
\* they looked before it began.
Overtaken(a) ==
  \/ attempt[a].at = "looked" /\ attempt[a].until # throttle.until
  \/ attempt[a].at \in {"verifying", "verified"} /\ clock < throttle.until
  \/ attempt[a].at = "failed" /\ attempt[a].now < throttle.until

Stale == {a \in Attempt : Overtaken(a)}

LateCounted ==
  IF throttle # None /\ throttle.until # None
  THEN late + Cardinality(Stale) < Cardinality(Attempt)
  ELSE late = 0

ThrottleInv ==
  /\ ThrottleTyped /\ AttemptsPast /\ FailuresPlaced /\ FailuresOnce
  /\ RowMeasured /\ LateCounted

LEMMA ThrottleInitInv == ThrottleInit => ThrottleInv
  BY FS_EmptySet, ClockAssumption
  DEF ThrottleInit, ThrottleInv, ThrottleTyped, AttemptState, AttemptsPast,
      FailuresPlaced, FailuresOnce, RowMeasured, LateCounted

LEMMA StaleFinite ==
  /\ IsFiniteSet(Stale) /\ Cardinality(Stale) \in Nat
  /\ Cardinality(Attempt) \in Nat /\ Cardinality(Attempt) >= 1
<1>1. Stale \subseteq Attempt /\ IsFiniteSet(Attempt) /\ Attempt # {}
  BY ThrottleAssumption DEF Stale
<1>2. IsFiniteSet(Stale)
  BY <1>1, FS_Subset
<1>3. Cardinality(Attempt) # 0 /\ Cardinality(Attempt) \in Nat
  BY <1>1, FS_EmptySet, FS_CardinalityType
<1> QED
  BY <1>2, <1>3, FS_CardinalityType

\* Steps that leave the row alone keep the invariant if they make nobody stale.
LEMMA AttemptsKeepThrottle ==
  ASSUME ThrottleInv, UNCHANGED <<throttle, counted, late>>,
         ThrottleTyped', AttemptsPast', clock <= clock',
         throttle # None /\ throttle.until # None => Stale' \subseteq Stale
  PROVE  ThrottleInv'
<1>1. FailuresPlaced' /\ FailuresOnce'
  BY DEF ThrottleInv, FailuresPlaced, FailuresOnce
<1>2. RowMeasured'
  <2>1. throttle # None => throttle.since \in Nat
    BY DEF ThrottleInv, ThrottleTyped, ThrottleRow
  <2>2. clock \in Nat /\ clock' \in Nat
    BY DEF ThrottleInv, ThrottleTyped
  <2>3. throttle # None => throttle.since <= clock'
    BY <2>1, <2>2 DEF ThrottleInv, RowMeasured
  <2> QED
    BY <2>3 DEF ThrottleInv, RowMeasured, WindowCoherent
<1>3. LateCounted'
  <2>1. CASE throttle # None /\ throttle.until # None
    <3>1. Stale' \subseteq Stale
      BY <2>1
    <3>2. IsFiniteSet(Stale')
      BY <3>1, StaleFinite, FS_Subset
    <3>3. Cardinality(Stale') \in Nat /\ Cardinality(Stale') <= Cardinality(Stale)
      BY <3>1, <3>2, StaleFinite, FS_Subset, FS_CardinalityType
    <3>4. late \in Nat /\ late + Cardinality(Stale) < Cardinality(Attempt)
      BY <2>1 DEF ThrottleInv, ThrottleTyped, LateCounted
    <3>5. late' + Cardinality(Stale') < Cardinality(Attempt)
      BY <3>3, <3>4, StaleFinite
    <3> QED
      BY <2>1, <3>5 DEF LateCounted
  <2>2. CASE ~(throttle # None /\ throttle.until # None)
    BY <2>2 DEF ThrottleInv, LateCounted
  <2> QED
    BY <2>1, <2>2
<1> QED
  BY <1>1, <1>2, <1>3 DEF ThrottleInv

LEMMA TickThrottleKeeps ==
  ASSUME ThrottleInv, TickThrottle
  PROVE  ThrottleInv'
<1>1. clock' = clock + 1 /\ clock < MaxClock /\ clock \in Nat /\ MaxClock \in Nat
      /\ UNCHANGED <<throttle, attempt, counted, late>>
  BY ClockAssumption DEF TickThrottle, Advances, history, ThrottleInv, ThrottleTyped
<1>2. ThrottleTyped' /\ clock <= clock'
  BY <1>1 DEF ThrottleInv, ThrottleTyped
<1>3. \A a \in Attempt : attempt[a] \in AttemptState
  BY DEF ThrottleInv, ThrottleTyped
<1>4. AttemptsPast'
  <2>1. \A a \in Attempt : attempt[a].at \in {"failed", "verified"} => attempt[a].now \in Nat
    BY <1>3 DEF AttemptState
  <2> QED
    BY <1>1, <2>1 DEF ThrottleInv, AttemptsPast
<1>5. throttle # None /\ throttle.until # None => Stale' \subseteq Stale
  <2>1. throttle # None /\ throttle.until # None => throttle.until \in Nat
    BY DEF ThrottleInv, ThrottleTyped, ThrottleRow
  <2> QED
    BY <1>1, <2>1 DEF Stale, Overtaken
<1> QED
  BY <1>1, <1>2, <1>4, <1>5, AttemptsKeepThrottle

\* A step of an attempt that leaves the row alone and makes nobody stale.
LEMMA AttemptGoesKeeps ==
  ASSUME ThrottleInv, NEW a \in Attempt, NEW state \in AttemptState,
         AttemptGoes(a, state), UNCHANGED <<clock, throttle, counted, late>>,
         state.at \in {"failed", "verified"} => state.now <= clock,
         throttle # None /\ throttle.until # None =>
           \/ state.at = "idle"
           \/ state.at = "looked" /\ state.until = throttle.until
           \/ state.at \in {"verifying", "verified"} /\ (clock < throttle.until => Overtaken(a))
           \/ state.at = "failed" /\ (state.now < throttle.until => Overtaken(a))
  PROVE  ThrottleInv'
<1>1. attempt' \in [Attempt -> AttemptState]
  BY DEF AttemptGoes, ThrottleInv, ThrottleTyped
<1>2. attempt'[a] = state /\ \A b \in Attempt \ {a} : attempt'[b] = attempt[b]
  BY DEF AttemptGoes, ThrottleInv, ThrottleTyped
<1>3. ThrottleTyped' /\ AttemptsPast' /\ clock <= clock'
  BY <1>1, <1>2 DEF ThrottleInv, ThrottleTyped, AttemptsPast
<1>4. throttle # None /\ throttle.until # None => Stale' \subseteq Stale
  <2>1. SUFFICES ASSUME throttle # None, throttle.until # None, NEW b \in Attempt, Overtaken(b)'
                 PROVE  Overtaken(b)
    BY DEF Stale
  <2>2. CASE b = a
    BY <1>2, <2>1, <2>2 DEF Overtaken
  <2>3. CASE b # a
    BY <1>2, <2>1, <2>3 DEF Overtaken
  <2> QED
    BY <2>2, <2>3
<1> QED
  BY <1>3, <1>4, AttemptsKeepThrottle

LEMMA AttemptStepKeeps ==
  ASSUME ThrottleInv, NEW a \in Attempt,
         Look(a) \/ Pass(a) \/ Abandon(a) \/ Verify(a) \/ Outdated(a)
  PROVE  ThrottleInv'
<1>1. clock \in Nat /\ attempt[a] \in AttemptState
  BY DEF ThrottleInv, ThrottleTyped
<1>2. throttle # None => throttle.until \in Nat \cup {None}
  BY DEF ThrottleInv, ThrottleTyped, ThrottleRow
<1>3. None \notin Nat
  BY ThrottleAssumption
<1>4. [at |-> "idle"] \in AttemptState /\ [at |-> "verifying"] \in AttemptState
  BY DEF AttemptState
<1>5. CASE Look(a)
  <2> DEFINE state == [at |-> "looked", until |-> IF throttle = None THEN None ELSE throttle.until]
  <2>1. state \in AttemptState
    BY <1>2 DEF AttemptState
  <2>2. AttemptGoes(a, state) /\ UNCHANGED <<clock, throttle, counted, late>>
    BY <1>5 DEF Look, history
  <2>3. throttle # None => state.at = "looked" /\ state.until = throttle.until
    OBVIOUS
  <2>4. state.at \notin {"failed", "verified"}
    OBVIOUS
  <2> HIDE DEF state
  <2> QED
    BY <2>1, <2>2, <2>3, <2>4, AttemptGoesKeeps
<1>6. CASE Pass(a)
  <2>1. /\ AttemptGoes(a, [at |-> "verifying"]) /\ UNCHANGED <<clock, throttle, counted, late>>
        /\ attempt[a].at = "looked"
        /\ ~(attempt[a].until # None /\ attempt[a].until > clock)
    BY <1>6 DEF Pass, history, AttemptAt
  <2>2. throttle # None /\ throttle.until # None => (clock < throttle.until => Overtaken(a))
    BY <1>1, <1>2, <2>1 DEF Overtaken
  <2> QED
    BY <1>4, <2>1, <2>2, AttemptGoesKeeps
<1>7. CASE Abandon(a)
  BY <1>4, <1>7, AttemptGoesKeeps DEF Abandon, history
<1>8. ASSUME NEW outcome \in {"failed", "verified"}, AttemptGoes(a, [at |-> outcome, now |-> clock]),
             UNCHANGED <<clock, throttle, counted, late>>,
             attempt[a].at \in {"verifying", "verified"}
      PROVE  ThrottleInv'
  <2> DEFINE state == [at |-> outcome, now |-> clock]
  <2>1. state \in AttemptState /\ state.at = outcome /\ state.now = clock
    BY <1>1 DEF AttemptState
  <2>2. throttle # None => (clock < throttle.until => Overtaken(a))
    BY <1>8 DEF Overtaken
  <2>3. clock <= clock
    BY <1>1
  <2> HIDE DEF state
  <2>4. AttemptGoes(a, state)
    BY <1>8 DEF state
  <2> QED
    BY <1>8, <2>1, <2>2, <2>3, <2>4, AttemptGoesKeeps
<1>9. CASE Verify(a)
  BY <1>8, <1>9 DEF Verify, AttemptAt, history
<1>10. CASE Outdated(a)
  BY <1>8, <1>10 DEF Outdated, AttemptAt, history
<1> QED
  BY <1>5, <1>6, <1>7, <1>9, <1>10

\* A failure during a block is late: its attempt was stale, and is no more.
LEMMA LateFailureKeeps ==
  ASSUME ThrottleInv, NEW a \in Attempt, RecordFailure(a),
         throttle # None, Blocked(attempt[a].now)
  PROVE  ThrottleInv' /\ throttle' = throttle
<1>1. /\ attempt[a].at = "failed"
      /\ throttle' = throttle /\ counted' = counted /\ late' = late + 1
      /\ attempt' = [attempt EXCEPT ![a] = [at |-> "idle"]]
      /\ clock' = clock
  BY DEF RecordFailure, AttemptAt, AttemptGoes, AfterFailure, KeepBlock
<1>2. attempt[a] \in AttemptState /\ [at |-> "idle"] \in AttemptState
  BY DEF ThrottleInv, ThrottleTyped, AttemptState
<1>3. attempt' \in [Attempt -> AttemptState]
  BY <1>1, <1>2 DEF ThrottleInv, ThrottleTyped
<1>4. attempt'[a].at = "idle" /\ \A b \in Attempt \ {a} : attempt'[b] = attempt[b]
  BY <1>1 DEF ThrottleInv, ThrottleTyped
<1>5. ThrottleTyped' /\ AttemptsPast'
  BY <1>1, <1>3, <1>4 DEF ThrottleInv, ThrottleTyped, AttemptsPast
<1>6. FailuresPlaced' /\ FailuresOnce' /\ RowMeasured'
  BY <1>1 DEF ThrottleInv, FailuresPlaced, FailuresOnce, RowMeasured, WindowCoherent
<1>7. throttle.until # None /\ attempt[a].now < throttle.until
  <2>1. attempt[a].now \in Nat /\ throttle.until \in Nat \cup {None}
    BY <1>1, <1>2 DEF AttemptState, ThrottleInv, ThrottleTyped, ThrottleRow
  <2> QED
    BY <2>1 DEF Blocked
<1>8. a \in Stale /\ Stale' \subseteq Stale \ {a}
  <2>1. a \in Stale
    BY <1>1, <1>7 DEF Stale, Overtaken
  <2>2. \A b \in Attempt : Overtaken(b)' => b # a /\ Overtaken(b)
    BY <1>1, <1>4 DEF Overtaken
  <2> QED
    BY <2>1, <2>2 DEF Stale
<1>9. LateCounted'
  <2>1. IsFiniteSet(Stale \ {a}) /\ Cardinality(Stale \ {a}) = Cardinality(Stale) - 1
    BY <1>8, StaleFinite, FS_RemoveElement
  <2>2. IsFiniteSet(Stale') /\ Cardinality(Stale') <= Cardinality(Stale \ {a})
    BY <1>8, <2>1, FS_Subset
  <2>3. Cardinality(Stale') \in Nat
    BY <2>2, FS_CardinalityType
  <2>4. late \in Nat /\ late + Cardinality(Stale) < Cardinality(Attempt)
    BY <1>7 DEF ThrottleInv, ThrottleTyped, LateCounted
  <2>5. late' + Cardinality(Stale') < Cardinality(Attempt)
    BY <1>1, <2>1, <2>2, <2>3, <2>4, StaleFinite
  <2> QED
    BY <1>1, <1>7, <2>5 DEF LateCounted
<1> QED
  BY <1>1, <1>5, <1>6, <1>9 DEF ThrottleInv

\* A failure that is counted takes the next place of its window, or the first
\* of a new one.
LEMMA FailureCounts ==
  ASSUME ThrottleInv, NEW a \in Attempt, RecordFailure(a),
         ~(throttle # None /\ Blocked(attempt[a].now)),
         NEW now, now = attempt[a].now
  PROVE  /\ throttle' \in ThrottleRow /\ throttle' # None
         /\ now \in Nat /\ now <= clock
         /\ throttle'.since <= now /\ now < throttle'.since + ThrottleWindow
         /\ throttle'.count \in 1..4
         /\ throttle'.last = now
         /\ WindowCoherent(throttle')
         /\ \A e \in counted : e.window = throttle'.since => e.nth < throttle'.count
         /\ \A e \in counted : e.window # throttle'.since =>
              /\ e.window + ThrottleWindow <= throttle'.since
              /\ e.nth = 4 => e.at + ThrottleWindow <= throttle'.since
         /\ \A n \in 1..4 : n < throttle'.count =>
              \E e \in counted : e.window = throttle'.since /\ e.nth = n
<1>1. /\ attempt[a].at = "failed" /\ throttle' = AfterFailure(now)
      /\ Accepts(throttle', now)
  BY DEF RecordFailure, AttemptAt
<1>2. attempt[a] \in AttemptState /\ clock \in Nat /\ ThrottleWindow \in Nat \ {0}
  BY ThrottleAssumption DEF ThrottleInv, ThrottleTyped
<1>3. now \in Nat /\ now <= clock
  BY <1>1, <1>2 DEF AttemptState, ThrottleInv, AttemptsPast
<1>4. \A e \in counted : /\ e.at \in Nat /\ e.window \in Nat /\ e.nth \in Nat
                         /\ throttle # None
  BY DEF ThrottleInv, ThrottleTyped, Failure, FailuresPlaced
<1>5. None \notin Nat
  BY ThrottleAssumption
<1>6. CASE throttle = None
  <2>1. throttle' = [count |-> 1, since |-> now, last |-> now, until |-> None, created |-> now]
    BY <1>1, <1>6 DEF AfterFailure, FirstFailure
  <2>2. throttle' \in ThrottleRow /\ throttle'.since = now /\ throttle'.count = 1
        /\ throttle'.last = now
    BY <1>3, <2>1 DEF ThrottleRow
  <2>3. throttle' # None
    BY <2>2, ThrottleAssumption
  <2>4. WindowCoherent(throttle')
    BY <1>1, <2>3 DEF Accepts
  <2> QED
    BY <1>2, <1>3, <1>4, <1>6, <2>2, <2>3, <2>4
<1>7. CASE throttle # None /\ WindowOver(now)
  <2>1. throttle \in ThrottleRow
    BY <1>7 DEF ThrottleInv, ThrottleTyped
  <2>2. /\ throttle.since \in Nat /\ throttle.count \in Nat
        /\ throttle.until \in Nat \cup {None} /\ throttle.last \in Nat \cup {None}
    BY <2>1 DEF ThrottleRow
  <2>3. PICK one \in Nat : one = 1
    OBVIOUS
  <2>4. throttle' = [throttle EXCEPT !.count = one, !.since = now, !.last = now, !.until = None]
    BY <1>1, <1>7, <2>3 DEF AfterFailure, NewWindow
  <2>5. /\ throttle' \in ThrottleRow /\ throttle'.since = now
        /\ throttle'.last = now /\ throttle'.count = 1
    BY <1>3, <2>1, <2>3, <2>4 DEF ThrottleRow
  <2>6. throttle' # None
    BY <2>5, ThrottleAssumption
  <2>7. WindowCoherent(throttle')
    BY <1>1, <2>6 DEF Accepts
  <2>8. \A e \in counted : /\ e.window + ThrottleWindow <= now
                           /\ e.nth = 4 => e.at + ThrottleWindow <= now
    <3>1. SUFFICES ASSUME NEW e \in counted
                   PROVE  /\ e.window + ThrottleWindow <= now
                          /\ e.nth = 4 => e.at + ThrottleWindow <= now
      OBVIOUS
    <3>2. throttle.since + ThrottleWindow <= now
      BY <1>7 DEF WindowOver
    <3>3. CASE e.window = throttle.since
      <4>1. e.nth <= throttle.count /\ throttle.count <= 4 /\ WindowCoherent(throttle)
            /\ (e.nth = 4 => e.at = throttle.last)
        BY <1>7, <3>3 DEF ThrottleInv, FailuresPlaced, RowMeasured
      <4>2. e.nth = 4 => throttle.until = e.at + ThrottleWindow
        BY <1>4, <2>2, <4>1 DEF WindowCoherent, FailureLimit
      <4>3. e.nth = 4 => throttle.until # None /\ ~(throttle.until > now)
        BY <1>2, <1>4, <1>5, <1>7, <4>2 DEF Blocked
      <4> QED
        BY <1>2, <1>3, <1>4, <3>2, <3>3, <4>2, <4>3
    <3>4. CASE e.window # throttle.since
      <4>1. /\ e.window + ThrottleWindow <= throttle.since
            /\ e.nth = 4 => e.at + ThrottleWindow <= throttle.since
        BY <3>4 DEF ThrottleInv, FailuresPlaced
      <4> QED
        BY <1>2, <1>3, <1>4, <2>2, <3>2, <4>1
    <3> QED
      BY <3>3, <3>4
  <2>9. \A e \in counted : e.window # now
    BY <1>2, <1>3, <1>4, <2>8
  <2> QED
    BY <1>2, <1>3, <2>5, <2>6, <2>7, <2>8, <2>9
<1>8. CASE throttle # None /\ ~WindowOver(now)
  <2>1. throttle \in ThrottleRow
    BY <1>8 DEF ThrottleInv, ThrottleTyped
  <2>2. /\ throttle.since \in Nat /\ throttle.count \in Nat
        /\ throttle.until \in Nat \cup {None} /\ throttle.last \in Nat \cup {None}
    BY <2>1 DEF ThrottleRow
  <2>3. now < throttle.since + ThrottleWindow
    BY <1>2, <1>3, <1>8, <2>2 DEF WindowOver
  <2>4. throttle.count < 4
    <3>1. throttle.count <= 4 /\ WindowCoherent(throttle)
      BY <1>8 DEF ThrottleInv, RowMeasured
    <3>2. SUFFICES ASSUME throttle.count = 4 PROVE FALSE
      BY <2>2, <3>1
    <3>3. throttle.last \in throttle.since .. throttle.since + ThrottleWindow
          /\ throttle.until = throttle.last + ThrottleWindow
      BY <3>1, <3>2 DEF WindowCoherent, FailureLimit
    <3>4. throttle.until \in Nat /\ throttle.since + ThrottleWindow <= throttle.until
      BY <1>2, <2>2, <3>3
    <3>5. ~(throttle.until > now)
      BY <1>5, <1>8, <3>4 DEF Blocked
    <3> QED
      BY <1>2, <1>3, <2>2, <2>3, <3>4, <3>5
  <2>5. PICK c \in Nat : c = throttle.count + 1
    BY <2>2
  <2>15. now + ThrottleWindow \in Nat \cup {None} /\ None \in Nat \cup {None}
    BY <1>2, <1>3
  <2>6. PICK u \in Nat \cup {None} : u = IF c >= 4 THEN now + ThrottleWindow ELSE None
    <3>1. CASE c >= 4
      BY <2>15, <3>1
    <3>2. CASE ~(c >= 4)
      BY <2>15, <3>2
    <3> QED
      BY <3>1, <3>2
  <2>7. throttle' = [throttle EXCEPT !.count = c, !.last = now, !.until = u]
    BY <1>1, <1>8, <2>2, <2>4, <2>5, <2>6 DEF AfterFailure, OneMoreFailure, FailureLimit
  <2>8. /\ throttle' \in ThrottleRow /\ throttle'.since = throttle.since
        /\ throttle'.last = now /\ throttle'.count = c
    BY <1>3, <2>1, <2>5, <2>6, <2>7 DEF ThrottleRow
  <2>9. throttle' # None
    BY <2>8, ThrottleAssumption
  <2>10. WindowCoherent(throttle')
    BY <1>1, <2>9 DEF Accepts
  <2>11. throttle'.since <= now
    BY <1>2, <1>3, <2>2, <2>5, <2>8, <2>10 DEF WindowCoherent
  <2>12. \A e \in counted : e.window = throttle'.since => e.nth < throttle'.count
    <3>1. \A e \in counted : e.window = throttle.since => e.nth <= throttle.count
      BY DEF ThrottleInv, FailuresPlaced
    <3> QED
      BY <1>4, <2>2, <2>5, <2>8, <3>1
  <2>13. \A e \in counted : e.window # throttle'.since =>
              /\ e.window + ThrottleWindow <= throttle'.since
              /\ e.nth = 4 => e.at + ThrottleWindow <= throttle'.since
    BY <2>8 DEF ThrottleInv, FailuresPlaced
  <2>14. \A n \in 1..4 : n < throttle'.count =>
              \E e \in counted : e.window = throttle'.since /\ e.nth = n
    <3>1. \A n \in 1..4 : n < throttle'.count => n <= throttle.count
      BY <2>2, <2>5, <2>8
    <3> QED
      BY <1>8, <2>8, <3>1 DEF ThrottleInv, RowMeasured
  <2> QED
    BY <1>3, <2>2, <2>3, <2>4, <2>5, <2>8, <2>9, <2>10, <2>11, <2>12, <2>13, <2>14
<1> QED
  BY <1>3, <1>6, <1>7, <1>8

LEMMA CountedFailureKeeps ==
  ASSUME ThrottleInv, NEW a \in Attempt, RecordFailure(a),
         ~(throttle # None /\ Blocked(attempt[a].now))
  PROVE  ThrottleInv'
<1>1. PICK now : now = attempt[a].now
  OBVIOUS
<1> DEFINE failure == [at |-> now, window |-> throttle'.since, nth |-> throttle'.count]
<1>2. /\ counted' = counted \cup {failure} /\ late' = 0
      /\ attempt' = [attempt EXCEPT ![a] = [at |-> "idle"]]
      /\ clock' = clock
  BY <1>1 DEF RecordFailure, AttemptGoes
<1>3. /\ throttle' \in ThrottleRow /\ throttle' # None
      /\ now \in Nat /\ now <= clock
      /\ throttle'.since <= now /\ now < throttle'.since + ThrottleWindow
      /\ throttle'.count \in 1..4
      /\ throttle'.last = now
      /\ WindowCoherent(throttle')
  BY <1>1, FailureCounts
<1>4. /\ \A e \in counted : e.window = throttle'.since => e.nth < throttle'.count
      /\ \A e \in counted : e.window # throttle'.since =>
            /\ e.window + ThrottleWindow <= throttle'.since
            /\ e.nth = 4 => e.at + ThrottleWindow <= throttle'.since
      /\ \A n \in 1..4 : n < throttle'.count =>
            \E e \in counted : e.window = throttle'.since /\ e.nth = n
  BY <1>1, FailureCounts
<1>5. throttle'.since \in Nat /\ throttle'.count \in Nat /\ clock \in Nat
      /\ ThrottleWindow \in Nat \ {0}
  BY <1>3, ThrottleAssumption DEF ThrottleRow, ThrottleInv, ThrottleTyped
<1>6. failure \in Failure /\ failure.at = now /\ failure.window = throttle'.since
      /\ failure.nth = throttle'.count
  BY <1>3, <1>5 DEF Failure
<1> HIDE DEF failure
<1>7. counted \subseteq Failure /\ IsFiniteSet(counted)
  BY DEF ThrottleInv, ThrottleTyped
<1>8. \A e \in counted : e.at \in Nat /\ e.window \in Nat /\ e.nth \in Nat
  BY <1>7 DEF Failure
<1>9. \A e \in counted' : e \in counted \/ e = failure
  BY <1>2
<1>10. [at |-> "idle"] \in AttemptState
  BY DEF AttemptState
<1>11. attempt' \in [Attempt -> AttemptState]
  BY <1>2, <1>10 DEF ThrottleInv, ThrottleTyped
<1>12. attempt'[a].at = "idle" /\ \A b \in Attempt \ {a} : attempt'[b] = attempt[b]
  BY <1>2 DEF ThrottleInv, ThrottleTyped
<1>13. ThrottleTyped'
  <2>1. counted' \subseteq Failure /\ IsFiniteSet(counted')
    BY <1>2, <1>6, <1>7, FS_AddElement
  <2> QED
    BY <1>2, <1>3, <1>11, <2>1 DEF ThrottleInv, ThrottleTyped
<1>14. AttemptsPast'
  BY <1>2, <1>12 DEF ThrottleInv, AttemptsPast
<1>15. FailuresPlaced'
  <2>1. SUFFICES ASSUME NEW e \in counted'
                 PROVE  /\ e.window <= e.at /\ e.at < e.window + ThrottleWindow
                        /\ 1 <= e.nth /\ e.nth <= 4
                        /\ e.window = throttle'.since =>
                             e.nth <= throttle'.count /\ (e.nth = 4 => e.at = throttle'.last)
                        /\ e.window # throttle'.since =>
                             /\ e.window + ThrottleWindow <= throttle'.since
                             /\ e.nth = 4 => e.at + ThrottleWindow <= throttle'.since
    BY <1>3 DEF FailuresPlaced
  <2>2. CASE e \in counted
    <3>1. /\ e.window <= e.at /\ e.at < e.window + ThrottleWindow
          /\ 1 <= e.nth /\ e.nth <= 4
      BY <2>2 DEF ThrottleInv, FailuresPlaced
    <3>2. e.window = throttle'.since => e.nth < throttle'.count /\ e.nth # 4
      BY <1>3, <1>4, <1>8, <2>2
    <3> QED
      BY <1>4, <1>5, <1>8, <2>2, <3>1, <3>2
  <2>3. CASE e = failure
    BY <1>3, <1>5, <1>6, <2>3
  <2> QED
    BY <1>9, <2>2, <2>3
<1>16. FailuresOnce'
  <2>1. SUFFICES ASSUME NEW e \in counted', NEW f \in counted'
                 PROVE  /\ e.window = f.window /\ e.nth = f.nth => e = f
                        /\ e.window < f.window =>
                             /\ e.window + ThrottleWindow <= f.window
                             /\ e.nth = 4 => e.at + ThrottleWindow <= f.window
    BY DEF FailuresOnce
  <2>2. CASE e \in counted /\ f \in counted
    BY <2>2 DEF ThrottleInv, FailuresOnce
  <2>3. CASE e \in counted /\ f = failure
    BY <1>4, <1>5, <1>6, <1>8, <2>3
  <2>4. CASE e = failure /\ f \in counted
    <3>1. f.window = e.window => f.nth < e.nth
      BY <1>4, <1>6, <2>4
    <3>2. f.window # e.window => f.window < e.window
      BY <1>4, <1>5, <1>6, <1>8, <2>4
    <3> QED
      BY <1>5, <1>6, <1>8, <2>4, <3>1, <3>2
  <2>5. CASE e = failure /\ f = failure
    BY <1>5, <1>6, <2>5
  <2> QED
    BY <1>9, <2>2, <2>3, <2>4, <2>5
<1>17. RowMeasured'
  <2>1. throttle'.since <= clock
    BY <1>3, <1>5
  <2>2. ASSUME NEW n \in 1..4, n <= throttle'.count
        PROVE  \E e \in counted' : e.window = throttle'.since /\ e.nth = n
    <3>1. CASE n < throttle'.count
      BY <1>2, <1>4, <3>1
    <3>2. CASE n = throttle'.count
      BY <1>2, <1>6, <3>2
    <3> QED
      BY <1>5, <2>2, <3>1, <3>2
  <2> QED
    BY <1>2, <1>3, <2>1, <2>2 DEF RowMeasured, WindowCoherent
<1>18. LateCounted'
  <2>1. Stale' \subseteq Attempt \ {a}
    BY <1>12 DEF Stale, Overtaken
  <2>2. IsFiniteSet(Attempt \ {a}) /\ Cardinality(Attempt \ {a}) = Cardinality(Attempt) - 1
    BY ThrottleAssumption, FS_RemoveElement
  <2>3. IsFiniteSet(Stale') /\ Cardinality(Stale') <= Cardinality(Attempt) - 1
    BY <2>1, <2>2, FS_Subset
  <2>4. Cardinality(Stale') \in Nat
    BY <2>3, FS_CardinalityType
  <2>5. late' + Cardinality(Stale') < Cardinality(Attempt)
    BY <1>2, <2>3, <2>4, StaleFinite
  <2> QED
    BY <1>2, <2>5 DEF LateCounted
<1> QED
  BY <1>13, <1>14, <1>15, <1>16, <1>17, <1>18 DEF ThrottleInv

\* A login starts the count again, from its reading.
LEMMA RecordLoginKeeps ==
  ASSUME ThrottleInv, NEW a \in Attempt, RecordLogin(a)
  PROVE  ThrottleInv' /\ (throttle # None => throttle'.count = 0)
<1>1. PICK now : now = attempt[a].now
  OBVIOUS
<1>2. /\ attempt[a].at = "verified"
      /\ throttle' = AfterLogin(now) /\ Accepts(throttle', now)
      /\ counted' = {} /\ late' = 0 /\ clock' = clock
      /\ attempt' = [attempt EXCEPT ![a] = [at |-> "idle"]]
  BY <1>1 DEF RecordLogin, AttemptAt, AttemptGoes
<1>3. attempt[a] \in AttemptState /\ clock \in Nat
  BY DEF ThrottleInv, ThrottleTyped
<1>4. now \in Nat /\ now <= clock
  BY <1>1, <1>2, <1>3 DEF AttemptState, ThrottleInv, AttemptsPast
<1>5. [at |-> "idle"] \in AttemptState
  BY DEF AttemptState
<1>6. attempt' \in [Attempt -> AttemptState]
  BY <1>2, <1>5 DEF ThrottleInv, ThrottleTyped
<1>7. attempt'[a].at = "idle" /\ \A b \in Attempt \ {a} : attempt'[b] = attempt[b]
  BY <1>2 DEF ThrottleInv, ThrottleTyped
<1>8. AttemptsPast' /\ FailuresPlaced' /\ FailuresOnce'
  BY <1>2, <1>7 DEF ThrottleInv, AttemptsPast, FailuresPlaced, FailuresOnce
<1>9. CASE throttle = None
  <2>1. throttle' = None
    BY <1>2, <1>9 DEF AfterLogin
  <2>2. ThrottleTyped'
    BY <1>2, <1>6, <2>1, FS_EmptySet DEF ThrottleInv, ThrottleTyped
  <2> QED
    BY <1>2, <1>8, <1>9, <2>1, <2>2 DEF ThrottleInv, RowMeasured, LateCounted
<1>10. CASE throttle # None
  <2>1. throttle \in ThrottleRow
    BY <1>10 DEF ThrottleInv, ThrottleTyped
  <2>2. PICK zero \in Nat : zero = 0
    OBVIOUS
  <2>3. throttle' = [throttle EXCEPT !.count = zero, !.since = now, !.last = None, !.until = None]
    BY <1>2, <1>10, <2>2 DEF AfterLogin
  <2>4. /\ throttle' \in ThrottleRow /\ throttle'.count = 0 /\ throttle'.since = now
        /\ throttle'.until = None
    BY <1>4, <2>1, <2>2, <2>3 DEF ThrottleRow
  <2>5. WindowCoherent(throttle')
    BY <1>2, <2>4, ThrottleAssumption DEF Accepts
  <2>6. ThrottleTyped'
    BY <1>2, <1>6, <2>4, FS_EmptySet DEF ThrottleInv, ThrottleTyped
  <2>7. RowMeasured'
    BY <1>2, <1>4, <2>4, <2>5 DEF RowMeasured, WindowCoherent
  <2> QED
    BY <1>2, <1>8, <2>4, <2>6, <2>7 DEF ThrottleInv, LateCounted
<1> QED
  BY <1>9, <1>10

\* What BlockStands says of a step.
Stands ==
  throttle # None /\ Blocked(clock) /\ throttle' # throttle => throttle'.count = 0

LEMMA ThrottleStep ==
  ASSUME ThrottleInv, [ThrottleNext]_throttleVars
  PROVE  ThrottleInv' /\ Stands
<1>1. CASE UNCHANGED throttleVars
  <2>1. ThrottleTyped' /\ AttemptsPast' /\ clock <= clock'
    BY <1>1 DEF throttleVars, history, ThrottleInv, ThrottleTyped, AttemptsPast
  <2>2. Stale' \subseteq Stale
    BY <1>1 DEF throttleVars, history, Stale, Overtaken
  <2> QED
    BY <1>1, <2>1, <2>2, AttemptsKeepThrottle DEF throttleVars, history, Stands
<1>2. CASE TickThrottle
  BY <1>2, TickThrottleKeeps DEF TickThrottle, Stands
<1>3. ASSUME NEW a \in Attempt,
             Look(a) \/ Pass(a) \/ Abandon(a) \/ Verify(a) \/ Outdated(a)
      PROVE  ThrottleInv' /\ Stands
  <2>1. throttle' = throttle
    BY <1>3 DEF Look, Pass, Abandon, Verify, Outdated
  <2> QED
    BY <1>3, <2>1, AttemptStepKeeps DEF Stands
<1>4. ASSUME NEW a \in Attempt, RecordFailure(a)
      PROVE  ThrottleInv' /\ Stands
  <2>1. CASE throttle # None /\ Blocked(attempt[a].now)
    BY <1>4, <2>1, LateFailureKeeps DEF Stands
  <2>2. CASE ~(throttle # None /\ Blocked(attempt[a].now))
    <3>1. ~(throttle # None /\ Blocked(clock))
      <4>1. attempt[a].now <= clock /\ attempt[a].now \in Nat /\ clock \in Nat
        BY <1>4 DEF RecordFailure, AttemptAt, AttemptState, ThrottleInv, ThrottleTyped, AttemptsPast
      <4>2. throttle # None => throttle.until \in Nat \cup {None}
        BY DEF ThrottleInv, ThrottleTyped, ThrottleRow
      <4> QED
        BY <2>2, <4>1, <4>2 DEF Blocked
    <3> QED
      BY <1>4, <2>2, <3>1, CountedFailureKeeps DEF Stands
  <2> QED
    BY <2>1, <2>2
<1>5. ASSUME NEW a \in Attempt, RecordLogin(a)
      PROVE  ThrottleInv' /\ Stands
  BY <1>5, RecordLoginKeeps DEF Stands
<1> QED
  BY <1>1, <1>2, <1>3, <1>4, <1>5 DEF ThrottleNext

LEMMA ThrottleInvMeasured == ThrottleInv => BlocksMeasured
<1> SUFFICES ASSUME ThrottleInv PROVE BlocksMeasured
  OBVIOUS
<1>1. /\ clock \in Nat /\ clock <= MaxClock /\ MaxClock \in Nat
      /\ ThrottleWindow \in Nat \ {0}
      /\ counted \subseteq Failure /\ IsFiniteSet(counted)
  BY ThrottleAssumption, ClockAssumption DEF ThrottleInv, ThrottleTyped
<1>2. \A e \in counted : /\ e.at \in Nat /\ e.window \in Nat /\ e.nth \in Nat
                         /\ e.nth \in 1..4 /\ e.window <= e.at
                         /\ e.at < e.window + ThrottleWindow
  BY <1>1 DEF Failure, ThrottleInv, FailuresPlaced
<1>3. BlockEarned
  <2> SUFFICES ASSUME throttle # None, throttle.until # None
               PROVE  \E t \in Time : Cardinality(CountedIn(t, t + ThrottleWindow - 1)) >= FailureLimit
    BY DEF BlockEarned
  <2> DEFINE t == throttle.since
  <2>1. t \in Nat /\ t \in Time /\ throttle.count \in Nat
    BY <1>1 DEF ThrottleInv, ThrottleTyped, ThrottleRow, RowMeasured, Time
  <2>2. throttle.count = 4
    BY DEF ThrottleInv, RowMeasured, WindowCoherent, FailureLimit
  <2>3. \A n \in 1..4 : \E e \in counted : e.window = t /\ e.nth = n
    BY <2>2 DEF ThrottleInv, RowMeasured
  <2> HIDE DEF t
  <2>4. \A e \in counted : e.window = t => e \in CountedIn(t, t + ThrottleWindow - 1)
    BY <1>1, <1>2, <2>1 DEF CountedIn
  <2>5. \A n \in 1..4 : \E e \in CountedIn(t, t + ThrottleWindow - 1) : e.nth = n
    BY <2>3, <2>4
  <2>6. CountedIn(t, t + ThrottleWindow - 1) \subseteq counted
    BY DEF CountedIn
  <2>7. IsFiniteSet(CountedIn(t, t + ThrottleWindow - 1))
    BY <1>1, <2>6, FS_Subset
  <2>8. Cardinality(CountedIn(t, t + ThrottleWindow - 1)) >= 4
    BY <2>5, <2>7, PlacesFill
  <2> QED
    BY <2>1, <2>8 DEF FailureLimit
<1>4. \A E \in SUBSET counted : \A n \in {3, 4} :
        (\A e, f \in E : e.window = f.window) /\ (\A e \in E : e.nth <= n)
        => IsFiniteSet(E) /\ Cardinality(E) <= n
  <2>1. SUFFICES ASSUME NEW E \in SUBSET counted, NEW n \in {3, 4},
                        \A e, f \in E : e.window = f.window,
                        \A e \in E : e.nth <= n
                 PROVE  IsFiniteSet(E) /\ Cardinality(E) <= n
    OBVIOUS
  <2>2. \A e \in E : e.nth \in 1..n
    BY <1>2, <2>1
  <2>3. \A e, f \in E : e.nth = f.nth => e = f
    BY <2>1 DEF ThrottleInv, FailuresOnce
  <2>4. n \in Nat
    OBVIOUS
  <2> QED
    BY <2>2, <2>3, <2>4, PlacesBound
<1>5. SevenAtMost
  <2> SUFFICES ASSUME NEW t \in Time
               PROVE  Cardinality(CountedIn(t, t + ThrottleWindow - 1)) <= 7
    BY DEF SevenAtMost, FailureLimit
  <2> DEFINE E == CountedIn(t, t + ThrottleWindow - 1)
  <2>1. t \in Nat /\ E \subseteq counted
    BY DEF Time, CountedIn
  <2>2. \A e \in E : t <= e.at /\ e.at < t + ThrottleWindow
    BY <1>1, <1>2, <2>1 DEF CountedIn
  <2>3. \A e, f \in E : e.window < f.window =>
          /\ e.window + ThrottleWindow <= f.window
          /\ e.nth = 4 => e.at + ThrottleWindow <= f.window
    BY <2>1 DEF ThrottleInv, FailuresOnce
  <2> HIDE DEF E
  <2>4. CASE \A e, f \in E : e.window = f.window
    <3>1. \A e \in E : e.nth <= 4
      BY <1>2, <2>1
    <3>2. IsFiniteSet(E) /\ Cardinality(E) <= 4
      BY <1>4, <2>1, <2>4, <3>1
    <3>3. Cardinality(E) <= 7
      BY <3>2, FS_CardinalityType
    <3> QED
      BY <3>3 DEF E
  <2>5. ASSUME NEW e \in E, NEW f \in E, e.window < f.window
        PROVE  Cardinality(E) <= 7
    <3> DEFINE A == {g \in E : g.window = e.window}
               B == {g \in E : g.window = f.window}
    <3>1. E \subseteq A \cup B
      <4>1. SUFFICES ASSUME NEW g \in E, g.window # e.window, g.window # f.window
                     PROVE  FALSE
        OBVIOUS
      <4>2. /\ e.window \in Nat /\ f.window \in Nat /\ g.window \in Nat
            /\ e.at \in Nat /\ f.at \in Nat /\ g.at \in Nat
        BY <1>2, <2>1, <2>5
      <4>3. /\ e.window < t + ThrottleWindow /\ t < e.window + ThrottleWindow
            /\ f.window < t + ThrottleWindow /\ t < f.window + ThrottleWindow
            /\ g.window < t + ThrottleWindow /\ t < g.window + ThrottleWindow
        BY <1>1, <1>2, <2>1, <2>2, <2>5, <4>1, <4>2
      <4>4. /\ e.window + ThrottleWindow <= f.window
            /\ e.window + ThrottleWindow <= g.window \/ g.window + ThrottleWindow <= e.window
            /\ f.window + ThrottleWindow <= g.window \/ g.window + ThrottleWindow <= f.window
        BY <2>3, <2>5, <4>1, <4>2
      <4> QED
        BY <1>1, <2>1, <4>2, <4>3, <4>4
    <3>2. \A g \in A : g.nth <= 3
      <4>1. SUFFICES ASSUME NEW g \in E, g.window = e.window, g.nth = 4
                     PROVE  FALSE
        BY <1>2, <2>1
      <4>2. g.at + ThrottleWindow <= f.window /\ f.window <= f.at /\ f.at < t + ThrottleWindow
            /\ t <= g.at
        BY <1>2, <2>1, <2>2, <2>3, <2>5, <4>1
      <4>3. g.at \in Nat /\ f.window \in Nat /\ f.at \in Nat
        BY <1>2, <2>1, <2>5
      <4> QED
        BY <1>1, <2>1, <4>2, <4>3
    <3>3. IsFiniteSet(A) /\ Cardinality(A) <= 3
      <4>1. A \in SUBSET counted /\ \A x, y \in A : x.window = y.window
        BY <2>1
      <4> HIDE DEF A
      <4> QED
        BY <1>4, <3>2, <4>1
    <3>4. IsFiniteSet(B) /\ Cardinality(B) <= 4
      <4>1. B \in SUBSET counted /\ \A x, y \in B : x.window = y.window
        BY <2>1
      <4>2. \A g \in B : g.nth <= 4
        BY <1>2, <2>1
      <4> HIDE DEF B
      <4> QED
        BY <1>4, <4>1, <4>2
    <3>5. E = A \cup B
      BY <3>1
    <3> HIDE DEF A, B
    <3>6. /\ Cardinality(E) = Cardinality(A) + Cardinality(B) - Cardinality(A \cap B)
          /\ Cardinality(A) \in Nat /\ Cardinality(B) \in Nat
      BY <3>3, <3>4, <3>5, FS_Union, FS_CardinalityType
    <3>7. A \cap B \subseteq A
      OBVIOUS
    <3>8. Cardinality(A \cap B) \in Nat
      BY <3>3, <3>7, FS_Subset, FS_CardinalityType
    <3> QED
      BY <3>3, <3>4, <3>6, <3>8
  <2>6. ASSUME NEW e \in E, NEW f \in E, e.window # f.window
        PROVE  Cardinality(E) <= 7
    <3>1. e.window \in Nat /\ f.window \in Nat
      BY <1>2, <2>1, <2>6
    <3>2. e.window < f.window \/ f.window < e.window
      BY <2>6, <3>1
    <3> QED
      BY <2>5, <3>2
  <2> QED
    BY <2>4, <2>6 DEF E
<1>6. LateAreFew
  <2>1. late \in Nat
    BY DEF ThrottleInv, ThrottleTyped
  <2> QED
    BY <2>1, StaleFinite DEF ThrottleInv, LateCounted, LateAreFew
<1> QED
  BY <1>3, <1>5, <1>6 DEF BlocksMeasured

\* For any number of attempts, any window and however late failures are written:
\* a block is earned by four failures of one window, comes with the seventh of
\* any stretch as long as a window, is overshot only by attempts already under
\* way, and is neither lifted nor prolonged but by a login.
THEOREM BlocksAlwaysHold == ThrottleSpec => BlocksHold
<1>1. ThrottleInit => ThrottleInv
  BY ThrottleInitInv
<1>2. ThrottleInv /\ [ThrottleNext]_throttleVars => ThrottleInv' /\ Stands
  BY ThrottleStep
<1>3. ThrottleSpec => []ThrottleInv
  BY <1>1, <1>2, PTL DEF ThrottleSpec
<1>4. ThrottleInv /\ [ThrottleNext]_throttleVars => [Stands]_throttleVars
  BY <1>2
<1> QED
  BY <1>3, <1>4, ThrottleInvMeasured, PTL
  DEF ThrottleSpec, BlocksHold, BlockStands, Stands
===============================================================================
