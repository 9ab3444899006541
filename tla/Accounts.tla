------------------------------- MODULE Accounts -------------------------------
(***************************************************************************)
(* Accounts of the API: how invitations, credentials and sessions follow   *)
(* the status of a user while requests overlap.                            *)
(*                                                                         *)
(* A request first reads what it needs, or passes the guards of its route, *)
(* then spends time outside any transaction (hashing a password takes      *)
(* long), and only then runs one Serializable transaction that checks      *)
(* again and writes.  Start... is the first part, the action named after   *)
(* the command the second; anything may happen in between.  A refusal, an  *)
(* error or a lost request writes nothing: Abandon.  Ending one's own      *)
(* sessions is a single UPDATE, atomic without that isolation level.       *)
(*                                                                         *)
(* A session past its lifetimes simply stops being presented.              *)
(***************************************************************************)
CONSTANTS
  User,     \* users created by the bootstrap, none is ever deleted
  Admins,   \* users with the ADMIN role, which the panel cannot edit
  Token,    \* invitations that can be issued
  Session,  \* sessions that can be opened
  Hash,     \* password hashes; the salt makes each hashing unique
  Request,  \* requests the API can have under way
  None,
  Revoked   \* what matters of a session or credential once revoked_at is set

ASSUME AdminsAssumption == Admins \subseteq User /\ Admins # {}

ASSUME RevokedAssumption ==
  Revoked \notin [user : User, hash : Hash] \cup Hash \cup {None}

ASSUME NoneAssumption ==
  None \notin Hash \cup [user : User, state : {"open", "consumed", "invalidated"}]
    \cup [user : User, hash : Hash]
    \cup [op : STRING, user : User, hash : Hash]
    \cup [op : STRING, token : Token] \cup [op : STRING, user : User]

VARIABLES
  status,      \* status[u]: column of users
  activated,   \* users whose activated_at is set
  credential,  \* credential[u]: the password hash of u, or None, or Revoked
  invitation,  \* invitation[i]: the row of user_invitations, or None
  expired,     \* invitations past expires_at, by the clock that the request
               \* reads right before its transaction
  session,     \* session[s]: whose session s is and the hash that was verified
               \* to open it, or None, or Revoked
  work         \* work[r]: what request r still has to do, or None

accounts == <<status, activated, credential>>
tables == <<accounts, invitation, session>>
vars == <<tables, expired, work>>

-----------------------------------------------------------------------------
(* Reading the tables.                                                     *)

Live(u) == credential[u] \notin {None, Revoked}

\* A candidate a password can be verified against.
Usable(u) == status[u] = "ACTIVE" /\ Live(u)

LiveSession(s) == session[s] \notin {None, Revoked}

\* validateAndRenew lets the request through.
Authenticated(s) == LiveSession(s) /\ status[session[s].user] = "ACTIVE"

Open(i) == invitation[i] # None /\ invitation[i].state = "open"

Enabled == {a \in Admins : status[a] # "DISABLED"}

\* A hash made with a new salt is unlike any stored or verified one.
Fresh(h) ==
  /\ \A u \in User : credential[u] # h
  /\ \A r \in Request :
       work[r] # None /\ work[r].op \in {"login", "change"} => work[r].hash # h

-----------------------------------------------------------------------------
(* Writing the tables.                                                     *)

SetPassword(u, h) ==
  credential' = [credential EXCEPT ![u] = h]

KeepCredential(u) == UNCHANGED credential

WithdrawCredential(u) ==
  credential' = [credential EXCEPT ![u] = IF Live(u) THEN Revoked ELSE @]

\* The sessions after those of u are revoked.
SessionsWithout(u) ==
  [s \in Session |->
     IF LiveSession(s) /\ session[s].user = u THEN Revoked ELSE session[s]]

OpenSession(s, u, h) ==
  /\ session[s] = None
  /\ session' = [session EXCEPT ![s] = [user |-> u, hash |-> h]]

\* The invitations after the open ones of u, expired or not, are withdrawn.
InvitationsWithout(u) ==
  [i \in Token |->
     IF Open(i) /\ invitation[i].user = u
     THEN [invitation[i] EXCEPT !.state = "invalidated"] ELSE invitation[i]]

\* A new invitation replaces the open one.
Issue(i, u) ==
  /\ invitation[i] = None
  /\ invitation' = [InvitationsWithout(u) EXCEPT ![i] = [user |-> u, state |-> "open"]]

Begin(r, w) ==
  /\ work[r] = None
  /\ work' = [work EXCEPT ![r] = w]
  /\ UNCHANGED <<tables, expired>>

Under(r, op) == work[r] # None /\ work[r].op = op

Done(r) == work' = [work EXCEPT ![r] = None]

Init ==
  /\ status = [u \in User |-> "PENDING_ACTIVATION"]
  /\ activated = {}
  /\ credential = [u \in User |-> None]
  /\ invitation = [i \in Token |-> None]
  /\ expired = {}
  /\ session = [s \in Session |-> None]
  /\ work = [r \in Request |-> None]

-----------------------------------------------------------------------------
(* Activation, login and password change.                                  *)

StartActivation(r, i) ==
  /\ Open(i) /\ i \notin expired
  /\ status[invitation[i].user] = "PENDING_ACTIVATION"
  /\ Begin(r, [op |-> "activate", token |-> i])

ConsumableAsRead(i) == i \notin expired

\* The conditional UPDATE that consumes the invitation.
Consumable(i) == Open(i) /\ i \notin expired

Activate(r, s, h) ==
  /\ Under(r, "activate")
  /\ LET i == work[r].token
         u == invitation[i].user
     IN /\ Consumable(i)
        /\ status[u] = "PENDING_ACTIVATION"
        /\ ~Live(u)
        /\ Fresh(h)
        /\ invitation' = [invitation EXCEPT ![i].state = "consumed"]
        /\ SetPassword(u, h)
        /\ status' = [status EXCEPT ![u] = "ACTIVE"]
        /\ activated' = activated \cup {u}
        /\ OpenSession(s, u, h)
  /\ Done(r)
  /\ UNCHANGED expired

\* The password was verified against the hash read here.
StartLogin(r, u) ==
  /\ Usable(u)
  /\ Begin(r, [op |-> "login", user |-> u, hash |-> credential[u]])

StillActive(w) == Usable(w.user)

\* The credential verified before the transaction is still the current one.
StillUsable(w) == Usable(w.user) /\ credential[w.user] = w.hash

Login(r, s) ==
  /\ Under(r, "login")
  /\ StillUsable(work[r])
  /\ OpenSession(s, work[r].user, work[r].hash)
  /\ Done(r)
  /\ UNCHANGED <<accounts, invitation, expired>>

StartChange(r, s) ==
  /\ Authenticated(s)
  /\ Live(session[s].user)
  /\ Begin(r, [op |-> "change", user |-> session[s].user,
               hash |-> credential[session[s].user]])

ChangePassword(r, h) ==
  /\ Under(r, "change")
  /\ StillUsable(work[r])
  /\ Fresh(h)
  /\ SetPassword(work[r].user, h)
  /\ session' = SessionsWithout(work[r].user)
  /\ Done(r)
  /\ UNCHANGED <<status, activated, invitation, expired>>

Logout(s) ==
  /\ LiveSession(s)
  /\ session' = [session EXCEPT ![s] = Revoked]
  /\ UNCHANGED <<accounts, invitation, expired, work>>

-----------------------------------------------------------------------------
(* Administration.                                                         *)

Orders == {"invite", "revokeCredential", "revokeSessions", "deactivate", "reactivate"}

\* The guards admit an administrator, who alone may hold the permissions of
\* these routes and may be disabled before the command runs.
StartOrder(r, s, op, u) ==
  /\ Authenticated(s)
  /\ session[s].user \in Admins
  /\ Begin(r, [op |-> op, user |-> u])

\* Any user may end all sessions of their own.
StartRevokeOwn(r, s) ==
  /\ Authenticated(s)
  /\ Begin(r, [op |-> "revokeSessions", user |-> session[s].user])

CreateInvitation(r, i) ==
  /\ Under(r, "invite")
  /\ status[work[r].user] = "PENDING_ACTIVATION"
  /\ Issue(i, work[r].user)
  /\ Done(r)
  /\ UNCHANGED <<accounts, session, expired>>

DispensableAlways(u) == TRUE

\* The last-administrator policy: an enabled administrator who is the only
\* one can be neither disabled nor have the credential withdrawn.
Dispensable(u) == u \in Enabled => Enabled \ {u} # {}

RevokeCredential(r) ==
  /\ Under(r, "revokeCredential")
  /\ LET u == work[r].user
     IN /\ Dispensable(u)
        /\ status[u] # "DISABLED"
        /\ status[u] = "ACTIVE" => Live(u)
        /\ WithdrawCredential(u)
        /\ session' = SessionsWithout(u)
        /\ status' = [status EXCEPT ![u] = "PENDING_ACTIVATION"]
        /\ activated' = activated \ {u}
  /\ Done(r)
  /\ UNCHANGED <<invitation, expired>>

RevokeSessions(r) ==
  /\ Under(r, "revokeSessions")
  /\ session' = SessionsWithout(work[r].user)
  /\ Done(r)
  /\ UNCHANGED <<accounts, invitation, expired>>

DeactivateUser(r) ==
  /\ Under(r, "deactivate")
  /\ LET u == work[r].user
     IN /\ Dispensable(u)
        /\ status[u] # "DISABLED"
        /\ session' = SessionsWithout(u)
        /\ invitation' = InvitationsWithout(u)
        /\ status' = [status EXCEPT ![u] = "DISABLED"]
  /\ Done(r)
  /\ UNCHANGED <<activated, credential, expired>>

\* What reactivation gives back.
CanSignIn(u) == u \in activated /\ Live(u)

ReactivateUser(r) ==
  /\ Under(r, "reactivate")
  /\ LET u == work[r].user
     IN /\ status[u] = "DISABLED"
        /\ status' = [status EXCEPT
                        ![u] = IF CanSignIn(u) THEN "ACTIVE" ELSE "PENDING_ACTIVATION"]
        /\ activated' = IF CanSignIn(u) THEN activated ELSE activated \ {u}
  /\ Done(r)
  /\ UNCHANGED <<credential, invitation, session, expired>>

\* Refused, failed or lost: nothing is written.
Abandon(r) ==
  /\ work[r] # None
  /\ Done(r)
  /\ UNCHANGED <<tables, expired>>

-----------------------------------------------------------------------------
(* The command line, and time.                                             *)

\* requireExactlyOneAssignedAdmin
SoleAdmin(a) == Admins = {a}

InviteInitialAdmin(a, i) ==
  /\ SoleAdmin(a)
  /\ status[a] = "PENDING_ACTIVATION"
  /\ Issue(i, a)
  /\ UNCHANGED <<accounts, session, expired, work>>

RecoverAdmin(a, i) ==
  /\ SoleAdmin(a)
  /\ status[a] # "DISABLED"
  /\ Issue(i, a)
  /\ WithdrawCredential(a)
  /\ session' = SessionsWithout(a)
  /\ status' = [status EXCEPT ![a] = "PENDING_ACTIVATION"]
  /\ activated' = activated \ {a}
  /\ UNCHANGED <<expired, work>>

Expire(i) ==
  /\ Open(i) /\ i \notin expired
  /\ expired' = expired \cup {i}
  /\ UNCHANGED <<tables, work>>

Start(r) ==
  \/ \E i \in Token : StartActivation(r, i)
  \/ \E u \in User : StartLogin(r, u)
  \/ \E s \in Session :
       \/ StartChange(r, s) \/ StartRevokeOwn(r, s)
       \/ \E op \in Orders, u \in User : StartOrder(r, s, op, u)

Finish(r) ==
  \/ \E s \in Session : Login(r, s) \/ \E h \in Hash : Activate(r, s, h)
  \/ \E h \in Hash : ChangePassword(r, h)
  \/ \E i \in Token : CreateInvitation(r, i)
  \/ RevokeCredential(r) \/ RevokeSessions(r)
  \/ DeactivateUser(r) \/ ReactivateUser(r)

CommandLine == \E a \in Admins, i \in Token : InviteInitialAdmin(a, i) \/ RecoverAdmin(a, i)

Next ==
  \/ \E r \in Request : Start(r) \/ Finish(r) \/ Abandon(r)
  \/ \E s \in Session : Logout(s)
  \/ \E i \in Token : Expire(i)
  \/ CommandLine

Spec == Init /\ [][Next]_vars

-----------------------------------------------------------------------------
(* Properties.                                                             *)

NullOr(S) == S \cup {None}

Work ==
  [op : {"login", "change"}, user : User, hash : Hash]
    \cup [op : {"activate"}, token : Token]
    \cup [op : Orders, user : User]

\* Every column stays in its domain and requests under way are well formed.
TypeOK ==
  /\ status \in [User -> {"PENDING_ACTIVATION", "ACTIVE", "DISABLED"}]
  /\ activated \subseteq User
  /\ credential \in [User -> Hash \cup {None, Revoked}]
  /\ invitation \in [Token -> NullOr([user : User, state : {"open", "consumed", "invalidated"}])]
  /\ expired \subseteq Token
  /\ session \in [Session -> [user : User, hash : Hash] \cup {None, Revoked}]
  /\ work \in [Request -> NullOr(Work)]
  /\ \A r \in Request : Under(r, "activate") => invitation[work[r].token] # None

\* A session that is not revoked belongs to an active user and was opened with
\* the password in force: disabling the user, withdrawing the credential or
\* changing the password ends every session, those of logins under way too.
LiveSessionsCurrent ==
  \A s \in Session : LiveSession(s) =>
    /\ Usable(session[s].user)
    /\ session[s].hash = credential[session[s].user]

\* An open invitation belongs to a pending user, who has no other one: nobody
\* active or disabled can be activated again by an older link, and the partial
\* unique index user_invitations_one_pending_per_user never fires.
OpenInvitationsPending ==
  \A i \in Token : Open(i) =>
    /\ status[invitation[i].user] = "PENDING_ACTIVATION"
    /\ \A j \in Token \ {i} : Open(j) => invitation[j].user # invitation[i].user

\* The status agrees with the credential: an active user can sign in, a pending
\* one can be activated (activation refuses a live credential), and a disabled
\* one has both an activation and a credential to give back, or neither.
StatusMatchesCredential ==
  \A u \in User :
    /\ status[u] = "ACTIVE" => u \in activated /\ Live(u)
    /\ status[u] = "PENDING_ACTIVATION" => u \notin activated /\ ~Live(u)
    /\ status[u] = "DISABLED" => (u \in activated <=> Live(u))

\* Whatever administrators do to each other, one of them stays enabled, which
\* is what recovery from the command line needs.
EnabledAdminRemains == Enabled # {}

\* Only the command line takes access from the sole enabled administrator.
SoleAdminKeepsAccess ==
  [][\A a \in Admins :
       Enabled = {a} /\ status[a] = "ACTIVE" /\ ~CommandLine
         => status'[a] = "ACTIVE" /\ Live(a)']_vars

\* A credential comes to life only by consuming an open, unexpired invitation
\* of its user in the same transaction; any other new password replaces a live
\* one.
CredentialsComeFromInvitations ==
  [][\A u \in User : ~Live(u) /\ Live(u)' =>
       \E i \in Token :
         /\ Open(i) /\ i \notin expired /\ invitation[i].user = u
         /\ invitation'[i].state = "consumed"]_vars

=============================================================================
