------------------------------ MODULE AlexaLinks ------------------------------
(***************************************************************************)
(* The link of one user with the Alexa client: its authorization codes and *)
(* the pairs of tokens issued for it, under AlexaOAuthService.             *)
(*                                                                         *)
(* A request reads the clock before its transaction starts, and may be any *)
(* time late.  Exchanges, authorizations and changes of the password are   *)
(* Serializable, renewals and revocations ReadCommitted, so between what a *)
(* request reads under its row lock and what it writes the others move on. *)
(***************************************************************************)
EXTENDS ApiClock, FiniteSets

CONSTANTS
  Code,        \* authorization codes the model may issue
  Pair,        \* pairs of an access and a refresh token it may issue
  Request,     \* transactions that may hold rows at once
  CodeLife, AccessLife, RefreshLife, Grace,   \* lifetimes, in clock ticks
  MaxLinked    \* bounds the number of authorizations

NullOr(S) == S \cup {None}

Revocation ==
  [at : Nat, reason : {"ROTATED", "ACCOUNT_REAUTHORIZED", "USER_REVOKED"}]

LinkRow == [authorized : Nat, revoked : BOOLEAN, nth : Nat]

CodeRow == [issued : Nat, shown : Nat, consumed : NullOr(Nat)]

\* The two tokens of a pair; nth is the authorization they are issued for.
PairRow ==
  [issued : Nat, shown : Nat, access : NullOr(Revocation),
   refresh : NullOr(Revocation), nth : Nat, from : Code \cup Pair]

ASSUME AlexaLinksAssumption ==
  /\ CodeLife \in Nat \ {0} /\ AccessLife \in Nat \ {0} /\ RefreshLife \in Nat \ {0}
  /\ Grace \in Nat /\ MaxLinked \in Nat
  /\ Code \cap Pair = {}
  /\ None \notin Nat \cup Revocation \cup LinkRow \cup CodeRow \cup PairRow

VARIABLES
  account,  \* of the user: disabled or not, whether it holds a credential that
            \* is not revoked, and when that was last changed or revoked
  link,     \* the row of alexa_account_links, or None
  codes,    \* alexa_authorization_codes: codes[c] is a row or None
  pairs,    \* alexa_oauth_tokens: pairs[p] holds two rows, or is None
  work      \* work[r]: what request r holds and will write, or None

vars == <<clock, account, link, codes, pairs, work>>

Init ==
  /\ clock = 0
  /\ account = [disabled |-> FALSE, held |-> TRUE, at |-> 0]
  /\ link = None
  /\ codes = [c \in Code |-> None]
  /\ pairs = [p \in Pair |-> None]
  /\ work = [r \in Request |-> None]

-----------------------------------------------------------------------------
(* What the rows mean.                                                     *)

\* The link stands, for the credential it was authorized with.
LinkStanding ==
  /\ link # None
  /\ ~link.revoked
  /\ account.held
  /\ account.at <= link.authorized

\* linkIsUsable; the client is the configured one.
LinkUsable == LinkStanding /\ ~account.disabled

Issued == {p \in Pair : pairs[p] # None}

\* A token nobody has: 32 random bytes.
Unused(rows) == {x \in DOMAIN rows : rows[x] = None}
Fresh(rows) == CHOOSE x \in Unused(rows) : TRUE

\* refreshTokenCanRotate
CanRotateAnyReason(row, now) == row # None => row.at + Grace >= now

CanRotate(row, now) ==
  row # None => row.reason = "ROTATED" /\ row.at + Grace >= now

\* All that validateAccessToken asks of a token but that its owner is enabled.
Standing(p, now) ==
  /\ pairs[p] # None
  /\ pairs[p].access = None
  /\ now < pairs[p].issued + AccessLife
  /\ LinkStanding

\* validateAccessToken
Valid(p, now) == Standing(p, now) /\ ~account.disabled

Revoked(row, now, reason) == IF row = None THEN [at |-> now, reason |-> reason] ELSE row

RevokeRefreshOnly(ps, now, reason) ==
  [p \in Pair |->
     IF pairs[p] = None \/ p \notin ps THEN pairs[p]
     ELSE [pairs[p] EXCEPT !.refresh = Revoked(@, now, reason)]]

RevokeRows(ps, now, reason) ==
  [p \in Pair |->
     IF pairs[p] = None \/ p \notin ps THEN pairs[p]
     ELSE [pairs[p] EXCEPT !.access = Revoked(@, now, reason),
                           !.refresh = Revoked(@, now, reason)]]

-----------------------------------------------------------------------------
(* Requests under way and the rows they lock.                              *)

Doing(r, step) == work[r] # None /\ work[r].step = step

Starts(r, request) == work[r] = None /\ work' = [work EXCEPT ![r] = request]

Ends(r) == work' = [work EXCEPT ![r] = None]

CodesLocked == {work[r].code : r \in {q \in Request : Doing(q, "exchange")}}
PairsLocked == {work[r].pair : r \in {q \in Request : Doing(q, "refresh")}}
LinkLocked == \E r \in Request : Doing(r, "revoke")

\* The connection is lost, or transactions conflict.
Abort(r) ==
  /\ work[r] # None
  /\ Ends(r)
  /\ UNCHANGED <<clock, account, link, codes, pairs>>

Tick ==
  /\ Advances
  /\ UNCHANGED <<account, link, codes, pairs, work>>

-----------------------------------------------------------------------------
(* authorize                                                               *)

\* Codes of the link still open are closed.
OpenCodesConsumed(now) ==
  [c \in Code |-> IF codes[c] # None /\ codes[c].consumed = None
                  THEN [codes[c] EXCEPT !.consumed = now] ELSE codes[c]]

\* Authorizations so far.
Linked == IF link = None THEN 0 ELSE link.nth

\* Serializable: a row locked by another request that this one would write
\* makes it wait and then fail.  The code is known from shown on.  One step is
\* enough: a renewal that commits after the snapshot has written the row of the
\* token it used, so that this transaction fails, unless the token was already
\* rotated, and then it might as well have committed after this one.
Authorize(now) ==
  /\ ~account.disabled /\ account.held
  /\ Unused(codes) # {}
  /\ CodesLocked = {} /\ ~LinkLocked
  /\ \A p \in PairsLocked : pairs[p].refresh # None
  /\ Linked < MaxLinked
  /\ link' = [authorized |-> now, revoked |-> FALSE, nth |-> Linked + 1]
  /\ codes' = [OpenCodesConsumed(now) EXCEPT
                 ![Fresh(codes)] = [issued |-> now, shown |-> clock, consumed |-> None]]
  /\ pairs' = RevokeRows(Pair, now, "ACCOUNT_REAUTHORIZED")
  /\ UNCHANGED <<clock, account, work>>

-----------------------------------------------------------------------------
(* exchangeAuthorizationCode                                               *)

LockCodeShared(r, c, now) ==
  /\ codes[c] # None
  /\ codes[c].consumed = None
  /\ now \in codes[c].shown .. codes[c].issued + CodeLife - 1
  /\ LinkUsable
  /\ Starts(r, [step |-> "exchange", now |-> now, code |-> c])
  /\ UNCHANGED <<clock, account, link, codes, pairs>>

\* The row is read and checked under its lock; a refusal changes nothing.
LockCode(r, c, now) == c \notin CodesLocked /\ LockCodeShared(r, c, now)

\* persistTokenPair: two rows, which live until they are revoked or expire.
Issue(now, from) ==
  [pairs EXCEPT ![Fresh(pairs)] = [issued |-> now, shown |-> clock, access |-> None,
                                   refresh |-> None, nth |-> link.nth, from |-> from]]

FinishExchange(r) ==
  /\ Doing(r, "exchange")
  /\ Unused(pairs) # {}
  /\ codes' = [codes EXCEPT ![work[r].code].consumed = work[r].now]
  /\ pairs' = Issue(work[r].now, work[r].code)
  /\ Ends(r)
  /\ UNCHANGED <<clock, account, link>>

-----------------------------------------------------------------------------
(* exchangeRefreshToken: a client that lost the answer sends the same token *)
(* again.                                                                  *)

LockRefresh(r, p, now) ==
  /\ p \notin PairsLocked
  /\ pairs[p] # None
  /\ now \in pairs[p].shown .. pairs[p].issued + RefreshLife - 1
  /\ CanRotate(pairs[p].refresh, now)
  /\ LinkUsable
  /\ Starts(r, [step |-> "refresh", now |-> now, pair |-> p])
  /\ UNCHANGED <<clock, account, link, codes, pairs>>

\* Using a token within its grace does not extend it.
Rotate(p, now) == Revoked(pairs[p].refresh, now, "ROTATED")

FinishRefresh(r) ==
  /\ Doing(r, "refresh")
  /\ Unused(pairs) # {}
  /\ LET used == work[r].pair
         now == work[r].now
     IN pairs' = [Issue(now, used) EXCEPT ![used].refresh = Rotate(used, now)]
  /\ Ends(r)
  /\ UNCHANGED <<clock, account, link, codes>>

-----------------------------------------------------------------------------
(* revoke                                                                  *)

\* The link is written first and its row stays locked; tokens issued after the
\* second statement has started are not seen by it.
StartRevoke(r, now) ==
  /\ link # None /\ ~link.revoked /\ ~LinkLocked
  /\ Starts(r, [step |-> "revoke", now |-> now, seen |-> Issued])
  /\ UNCHANGED <<clock, account, link, codes, pairs>>

\* A token being renewed is waited for and then found rotated.
FinishRevoke(r) ==
  /\ Doing(r, "revoke")
  /\ \A p \in PairsLocked \cap work[r].seen : pairs[p].refresh # None
  /\ link' = [link EXCEPT !.revoked = TRUE]
  /\ pairs' = RevokeRows(work[r].seen, work[r].now, "USER_REVOKED")
  /\ Ends(r)
  /\ UNCHANGED <<clock, account, codes>>

-----------------------------------------------------------------------------
(* The account.                                                            *)

\* changePassword reads the clock once the credential is read and the new
\* password hashed, and commits later, unless the credential has changed in
\* between.
ChangePassword ==
  /\ ~account.disabled /\ account.held
  /\ \E now \in account.at .. clock : account' = [account EXCEPT !.at = now]
  /\ UNCHANGED <<clock, link, codes, pairs, work>>

\* revokeCredential, and the recovery of the administrator.
RevokeCredential ==
  /\ ~account.disabled /\ account.held
  /\ account' = [account EXCEPT !.held = FALSE, !.at = clock]
  /\ UNCHANGED <<clock, link, codes, pairs, work>>

\* activate: the invitation is younger than the revocation.
ActivateCredential ==
  /\ ~account.disabled /\ ~account.held
  /\ \E now \in account.at + 1 .. clock :
       account' = [account EXCEPT !.held = TRUE, !.at = now]
  /\ UNCHANGED <<clock, link, codes, pairs, work>>

\* deactivateUser keeps credential, link and tokens.
Deactivate ==
  /\ ~account.disabled
  /\ account' = [account EXCEPT !.disabled = TRUE]
  /\ UNCHANGED <<clock, link, codes, pairs, work>>

\* reactivateUser: ACTIVE with the credential there was, else PENDING_ACTIVATION.
Reactivate ==
  /\ account.disabled
  /\ account' = [account EXCEPT !.disabled = FALSE]
  /\ UNCHANGED <<clock, link, codes, pairs, work>>

AccountChanges ==
  ChangePassword \/ RevokeCredential \/ ActivateCredential \/ Deactivate \/ Reactivate

Next ==
  \/ Tick
  \/ AccountChanges
  \/ \E now \in 0..clock :
       \/ Authorize(now)
       \/ \E r \in Request, c \in Code : LockCode(r, c, now)
       \/ \E r \in Request, p \in Pair : LockRefresh(r, p, now)
       \/ \E r \in Request : StartRevoke(r, now)
  \/ \E r \in Request :
       \/ FinishExchange(r) \/ FinishRefresh(r) \/ FinishRevoke(r)
       \/ Abort(r)

Spec == Init /\ [][Next]_vars

-----------------------------------------------------------------------------
(* Properties.                                                             *)

\* A code is exchanged once, whatever number of requests bring it, and is
\* consumed by it.
CodeSpentOnce ==
  \A c \in Code :
    LET bought == {p \in Issued : pairs[p].from = c}
    IN bought # {} => Cardinality(bought) = 1 /\ codes[c].consumed # None

\* However authorizations overlap with exchanges, at most one code is open.
OneOpenCode ==
  Cardinality({c \in Code : codes[c] # None /\ codes[c].consumed = None}) <= 1

\* A refresh token buys pairs only until the grace after its first use ends,
\* and never after it was revoked for another reason.
RotatedWithinGrace ==
  \A p \in Issued : pairs[p].from \in Pair =>
    LET used == pairs[pairs[p].from].refresh
    IN used # None /\ used.reason = "ROTATED" /\ pairs[p].issued <= used.at + Grace

\* What was granted once buys no second grant, in time or at all.
GrantsSpentOnce == CodeSpentOnce /\ OneOpenCode /\ RotatedWithinGrace

\* Time and reason of a revocation stand: neither a second use nor a later
\* revocation rewrites them.
RevocationStands ==
  [][\A p \in Issued :
       /\ pairs[p].access # None => pairs'[p].access = pairs[p].access
       /\ pairs[p].refresh # None => pairs'[p].refresh = pairs[p].refresh]_vars

\* Disabling an account suspends its access tokens and nothing more: what works
\* again is what was neither revoked nor outlived in between.  A token that has
\* ended for any other reason, its link, its credential or its own life, never
\* works again, even when the account is enabled, linked or given a credential
\* anew: linking revokes what requests under way may have left behind.
DeadStaysDead ==
  [][\A p \in Issued : ~Standing(p, clock) => ~Standing(p, clock)']_vars

\* Revocations are final: of the row as it was written and of what it grants.
NothingRevives == RevocationStands /\ DeadStaysDead

\* ADR-016: linking anew ends earlier tokens without tolerance, so a pair is
\* issued only for tokens of the same authorization.
ReauthorizationEnds ==
  \A p \in Issued : pairs[p].from \in Pair => pairs[p].nth = pairs[pairs[p].from].nth

===============================================================================
