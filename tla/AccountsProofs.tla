---------------------------- MODULE AccountsProofs ----------------------------
(***************************************************************************)
(* The properties of Accounts hold for any number of users, requests,      *)
(* invitations and sessions.                                               *)
(***************************************************************************)
EXTENDS Accounts, AccessMatrix, TLAPS

AccountsInv ==
  /\ TypeOK
  /\ LiveSessionsCurrent
  /\ OpenInvitationsPending
  /\ StatusMatchesCredential
  /\ EnabledAdminRemains

LEMMA InitInv == Init => AccountsInv
  BY AdminsAssumption, RevokedAssumption
  DEF Init, AccountsInv, TypeOK, LiveSessionsCurrent, OpenInvitationsPending,
      StatusMatchesCredential, EnabledAdminRemains, NullOr, Under, LiveSession,
      Open, Live, Enabled

LEMMA Rows ==
  /\ \A u \in User, h \in Hash : [user |-> u, hash |-> h] \notin {None, Revoked}
  /\ Hash \cap {None, Revoked} = {}
  /\ \A u \in User, t \in {"open", "consumed", "invalidated"} :
       [user |-> u, state |-> t] # None
  BY RevokedAssumption, NoneAssumption

LEMMA WorkType ==
  ASSUME NEW w \in Work
  PROVE  /\ w.op = "activate" => w.token \in Token
         /\ w.op \in {"login", "change"} => w.user \in User /\ w.hash \in Hash
         /\ w.op \in Orders => w.user \in User
  BY DEF Work, Orders

\* A step that only starts or drops a request.
LEMMA BeginKeeps ==
  ASSUME AccountsInv, UNCHANGED tables, expired' \subseteq Token,
         work' \in [Request -> NullOr(Work)],
         \A r \in Request : Under(r, "activate")' => invitation[work'[r].token] # None
  PROVE  AccountsInv'
  BY DEF AccountsInv, tables, accounts, TypeOK, LiveSessionsCurrent,
         OpenInvitationsPending, StatusMatchesCredential, EnabledAdminRemains,
         LiveSession, Usable, Live, Open, Enabled

LEMMA StartKeeps ==
  ASSUME AccountsInv, NEW r \in Request, Start(r)
  PROVE  AccountsInv' /\ UNCHANGED tables
  <1>1. PICK w \in Work : /\ Begin(r, w)
                          /\ w.op = "activate" => Open(w.token)
    <2>1. CASE \E i \in Token : StartActivation(r, i)
      BY <2>1 DEF StartActivation, Work
    <2>2. CASE \E u \in User : StartLogin(r, u)
      BY <2>2 DEF StartLogin, Work, Usable, Live, AccountsInv, TypeOK, NullOr
    <2>3. ASSUME NEW s \in Session, StartChange(r, s) \/ StartRevokeOwn(r, s)
          PROVE  \E w \in Work : Begin(r, w) /\ (w.op = "activate" => Open(w.token))
      <3>1. session[s].user \in User
        BY <2>3 DEF StartChange, StartRevokeOwn, Authenticated, LiveSession,
                    AccountsInv, TypeOK, NullOr
      <3>2. CASE StartChange(r, s)
        BY <3>1, <3>2 DEF StartChange, Live, Work, AccountsInv, TypeOK, NullOr
      <3>3. CASE StartRevokeOwn(r, s)
        BY <3>1, <3>3 DEF StartRevokeOwn, Work, Orders
      <3>. QED BY <2>3, <3>2, <3>3
    <2>4. ASSUME NEW s \in Session, NEW op \in Orders, NEW u \in User,
                 StartOrder(r, s, op, u)
          PROVE  \E w \in Work : Begin(r, w) /\ (w.op = "activate" => Open(w.token))
      BY <2>4 DEF StartOrder, Work, Orders
    <2>. QED BY <2>1, <2>2, <2>3, <2>4 DEF Start
  <1>2. /\ work' \in [Request -> NullOr(Work)] /\ UNCHANGED <<tables, expired>>
        /\ \A q \in Request : Under(q, "activate")' => invitation[work'[q].token] # None
    BY <1>1 DEF Begin, AccountsInv, TypeOK, NullOr, Under, Open
  <1>3. expired' \subseteq Token
    BY <1>2 DEF AccountsInv, TypeOK
  <1>. QED BY <1>2, <1>3, BeginKeeps

\* A step that ends a request leaves the others well formed.
LEMMA DoneKeeps ==
  ASSUME AccountsInv, NEW r \in Request, Done(r),
         \A i \in Token : invitation[i] # None => invitation'[i] # None
  PROVE  /\ work' \in [Request -> NullOr(Work)]
         /\ \A q \in Request : Under(q, "activate")' => invitation'[work'[q].token] # None
  <1>1. work' \in [Request -> NullOr(Work)]
    BY DEF AccountsInv, TypeOK, Done, NullOr
  <1>2. ASSUME NEW q \in Request, Under(q, "activate")'
        PROVE  invitation'[work'[q].token] # None
    <2>1. work'[q] = work[q] /\ Under(q, "activate") /\ work[q] \in Work
      BY <1>2 DEF AccountsInv, TypeOK, Done, NullOr, Under
    <2>2. invitation[work[q].token] # None /\ work[q].token \in Token
      BY <2>1, WorkType DEF AccountsInv, TypeOK, Under
    <2>. QED BY <2>1, <2>2
  <1>. QED BY <1>1, <1>2

\* What the invariant says of a request that runs its command.
LEMMA UnderWork ==
  ASSUME AccountsInv, NEW r \in Request, work[r] # None
  PROVE  work[r] \in Work
  BY DEF AccountsInv, TypeOK, NullOr

LEMMA AbandonKeeps ==
  ASSUME AccountsInv, NEW r \in Request, Abandon(r)
  PROVE  AccountsInv' /\ UNCHANGED tables
  <1>1. UNCHANGED <<tables, expired>> /\ Done(r)
    BY DEF Abandon
  <1>2. UNCHANGED invitation /\ expired' \subseteq Token
    BY <1>1 DEF tables, AccountsInv, TypeOK
  <1>. QED BY <1>1, <1>2, DoneKeeps, BeginKeeps

-----------------------------------------------------------------------------
(* What the writes leave behind.                                           *)

LEMMA SessionsEnd ==
  ASSUME TypeOK, NEW u \in User, session' = SessionsWithout(u)
  PROVE  /\ session' \in [Session -> [user : User, hash : Hash] \cup {None, Revoked}]
         /\ \A s \in Session : LiveSession(s)' =>
              LiveSession(s) /\ session'[s] = session[s] /\ session[s].user # u
  BY DEF TypeOK, SessionsWithout, LiveSession, NullOr

LEMMA SessionOpens ==
  ASSUME TypeOK, NEW t \in Session, NEW u \in User, NEW h \in Hash,
         OpenSession(t, u, h)
  PROVE  /\ session' \in [Session -> [user : User, hash : Hash] \cup {None, Revoked}]
         /\ session'[t].user = u /\ session'[t].hash = h
         /\ \A s \in Session \ {t} : session'[s] = session[s]
  BY DEF TypeOK, OpenSession, NullOr

InvitationRows ==
  [Token -> NullOr([user : User, state : {"open", "consumed", "invalidated"}])]

LEMMA InvitationsClose ==
  ASSUME TypeOK, NEW u \in User, invitation' = InvitationsWithout(u)
  PROVE  /\ invitation' \in InvitationRows
         /\ \A i \in Token : invitation[i] # None => invitation'[i] # None
         /\ \A i \in Token : Open(i)' =>
              Open(i) /\ invitation'[i] = invitation[i] /\ invitation[i].user # u
  <1>1. ASSUME NEW i \in Token
        PROVE  /\ invitation'[i] \in NullOr([user : User, state : {"open", "consumed", "invalidated"}])
               /\ invitation[i] # None => invitation'[i] # None
               /\ Open(i)' => Open(i) /\ invitation'[i] = invitation[i] /\ invitation[i].user # u
    <2>1. CASE Open(i) /\ invitation[i].user = u
      <3>1. invitation'[i] = [user |-> u, state |-> "invalidated"]
        BY <2>1 DEF TypeOK, InvitationsWithout, Open, NullOr
      <3>. QED BY <3>1, Rows DEF NullOr, Open
    <2>2. CASE ~(Open(i) /\ invitation[i].user = u)
      BY <2>2 DEF TypeOK, InvitationsWithout, Open, NullOr
    <2>. QED BY <2>1, <2>2
  <1>. QED BY <1>1 DEF InvitationsWithout, InvitationRows

LEMMA InvitationIssued ==
  ASSUME TypeOK, NEW t \in Token, NEW u \in User, Issue(t, u)
  PROVE  /\ invitation' \in InvitationRows
         /\ \A i \in Token : invitation[i] # None => invitation'[i] # None
         /\ invitation'[t].user = u
         /\ \A i \in Token \ {t} : Open(i)' =>
              Open(i) /\ invitation'[i] = invitation[i] /\ invitation[i].user # u
  <1>1. ASSUME NEW i \in Token \ {t}
        PROVE  /\ invitation'[i] \in NullOr([user : User, state : {"open", "consumed", "invalidated"}])
               /\ invitation[i] # None => invitation'[i] # None
               /\ Open(i)' => Open(i) /\ invitation'[i] = invitation[i] /\ invitation[i].user # u
    <2>1. CASE Open(i) /\ invitation[i].user = u
      <3>1. invitation'[i] = [user |-> u, state |-> "invalidated"]
        BY <2>1 DEF TypeOK, Issue, InvitationsWithout, Open, NullOr
      <3>. QED BY <3>1, Rows DEF NullOr, Open
    <2>2. CASE ~(Open(i) /\ invitation[i].user = u)
      BY <2>2 DEF TypeOK, Issue, InvitationsWithout, Open, NullOr
    <2>. QED BY <2>1, <2>2
  <1>2. invitation'[t] = [user |-> u, state |-> "open"]
    BY DEF Issue, InvitationsWithout
  <1>3. invitation' = [i \in Token |-> invitation'[i]]
    BY DEF Issue, InvitationsWithout
  <1>. QED BY <1>1, <1>2, <1>3, Rows DEF InvitationRows, NullOr

LEMMA PasswordSet ==
  ASSUME TypeOK, NEW u \in User, NEW h \in Hash, SetPassword(u, h)
  PROVE  /\ credential' \in [User -> Hash \cup {None, Revoked}]
         /\ credential'[u] = h /\ Live(u)'
         /\ \A v \in User \ {u} : credential'[v] = credential[v]
  BY Rows DEF TypeOK, SetPassword, Live

LEMMA CredentialWithdrawn ==
  ASSUME TypeOK, NEW u \in User, WithdrawCredential(u)
  PROVE  /\ credential' \in [User -> Hash \cup {None, Revoked}]
         /\ ~Live(u)'
         /\ \A v \in User \ {u} : credential'[v] = credential[v]
  BY DEF TypeOK, WithdrawCredential, Live

\* Reading a well-formed row.
LEMMA RowTypes ==
  ASSUME TypeOK
  PROVE  /\ \A u \in User : Live(u) => credential[u] \in Hash
         /\ \A i \in Token : Open(i) => invitation[i].user \in User
         /\ \A s \in Session : LiveSession(s) => session[s].user \in User
  BY DEF TypeOK, Live, Open, LiveSession, NullOr

-----------------------------------------------------------------------------
(* Every command writes the account of one user u.  The invariant follows  *)
(* from what it leaves of u, the rows of the others being as they were.    *)

LEMMA OneAccount ==
  ASSUME AccountsInv, TypeOK', NEW u \in User,
         \A v \in User \ {u} : /\ status'[v] = status[v]
                               /\ v \in activated' <=> v \in activated
                               /\ credential'[v] = credential[v],
         \A s \in Session : LiveSession(s)' =>
           \/ /\ session'[s].user = u
              /\ status'[u] = "ACTIVE" /\ Live(u)'
              /\ session'[s].hash = credential'[u]
           \/ /\ LiveSession(s) /\ session'[s] = session[s]
              /\ session[s].user # u,
         \A i \in Token : Open(i)' =>
           \/ /\ invitation'[i].user = u
              /\ status'[u] = "PENDING_ACTIVATION"
              /\ \A j \in Token \ {i} : Open(j)' => invitation'[j].user # u
           \/ /\ Open(i) /\ invitation'[i] = invitation[i]
              /\ invitation[i].user # u,
         status'[u] = "ACTIVE" => u \in activated' /\ Live(u)',
         status'[u] = "PENDING_ACTIVATION" => u \notin activated' /\ ~Live(u)',
         status'[u] = "DISABLED" => (u \in activated' <=> Live(u)'),
         status'[u] = "DISABLED" /\ status[u] # "DISABLED" => Dispensable(u)
  PROVE  AccountsInv'
  <1>1. TypeOK
    BY DEF AccountsInv
  <1>2. LiveSessionsCurrent'
    <2>1. ASSUME NEW s \in Session, LiveSession(s)', NEW v \in User,
                 session'[s].user = v
          PROVE  /\ status'[v] = "ACTIVE" /\ Live(v)'
                 /\ session'[s].hash = credential'[v]
      <3>1. CASE v = u
        BY <2>1, <3>1
      <3>2. CASE v # u
        <4>1. LiveSession(s) /\ session'[s] = session[s]
          BY <2>1, <3>2
        <4>2. Usable(v) /\ session[s].hash = credential[v]
          BY <2>1, <4>1 DEF AccountsInv, LiveSessionsCurrent
        <4>. QED BY <3>2, <4>1, <4>2 DEF Usable, Live
      <3>. QED BY <3>1, <3>2
    <2>2. \A s \in Session : LiveSession(s)' => session'[s].user \in User
      BY DEF TypeOK, LiveSession
    <2>. QED BY <2>1, <2>2 DEF LiveSessionsCurrent, Usable, Live
  <1>3. OpenInvitationsPending'
    <2>. SUFFICES ASSUME NEW i \in Token, Open(i)'
                  PROVE  /\ status'[invitation'[i].user] = "PENDING_ACTIVATION"
                         /\ \A j \in Token \ {i} : Open(j)' => invitation'[j].user # invitation'[i].user
      BY DEF OpenInvitationsPending
    <2>1. CASE invitation'[i].user = u
      BY <2>1
    <2>2. CASE invitation'[i].user # u
      <3>1. /\ Open(i) /\ invitation'[i] = invitation[i]
            /\ invitation[i].user \in User \ {u}
        BY <1>1, <2>2, RowTypes
      <3>. QED BY <3>1 DEF AccountsInv, OpenInvitationsPending
    <2>. QED BY <2>1, <2>2
  <1>4. StatusMatchesCredential'
    BY DEF AccountsInv, StatusMatchesCredential, Live
  <1>5. EnabledAdminRemains'
    <2>1. CASE status'[u] = "DISABLED" /\ status[u] # "DISABLED"
      BY <2>1, AdminsAssumption DEF Dispensable, AccountsInv, EnabledAdminRemains, Enabled
    <2>2. CASE ~(status'[u] = "DISABLED" /\ status[u] # "DISABLED")
      BY <2>2, AdminsAssumption DEF AccountsInv, EnabledAdminRemains, Enabled
    <2>. QED BY <2>1, <2>2
  <1>. QED BY <1>2, <1>3, <1>4, <1>5 DEF AccountsInv

-----------------------------------------------------------------------------
(* One lemma per command.                                                  *)

\* The credential of u came to life, if it did, by an invitation of u.
Invited ==
  \A u \in User : ~Live(u) /\ Live(u)' =>
    \E i \in Token :
      /\ Open(i) /\ i \notin expired /\ invitation[i].user = u
      /\ invitation'[i].state = "consumed"

\* Nobody indispensable loses access.
AccessKept ==
  \A u \in User :
    ~Dispensable(u) /\ status[u] = "ACTIVE" => status'[u] = "ACTIVE" /\ Live(u)'

LEMMA ActivateKeeps ==
  ASSUME AccountsInv, NEW r \in Request, NEW t \in Session, NEW h \in Hash,
         Activate(r, t, h)
  PROVE  AccountsInv' /\ Invited /\ AccessKept
  <1>1. TypeOK /\ work[r].token \in Token
    BY UnderWork, WorkType DEF Activate, Under, AccountsInv
  <1>2. PICK i \in Token : i = work[r].token
    BY <1>1
  <1>3. Open(i) /\ i \notin expired
    BY <1>2 DEF Activate, Consumable
  <1>4. PICK u \in User : u = invitation[i].user
    BY <1>1, <1>3, RowTypes
  <1>5. /\ status[u] = "PENDING_ACTIVATION" /\ ~Live(u)
        /\ invitation' = [invitation EXCEPT ![i].state = "consumed"]
        /\ SetPassword(u, h) /\ status' = [status EXCEPT ![u] = "ACTIVE"]
        /\ activated' = activated \cup {u}
        /\ OpenSession(t, u, h) /\ Done(r) /\ expired' = expired
    BY <1>2, <1>4 DEF Activate
  <1>6. invitation' = [invitation EXCEPT ![i] = [user |-> u, state |-> "consumed"]]
    <2>1. invitation[i] \in [user : User, state : {"open", "consumed", "invalidated"}]
      BY <1>1, <1>3 DEF TypeOK, Open, NullOr
    <2>2. [invitation[i] EXCEPT !.state = "consumed"] = [user |-> u, state |-> "consumed"]
      BY <1>4, <2>1
    <2>. QED BY <1>5, <2>2
  <1>7. /\ invitation' \in InvitationRows
        /\ invitation'[i].state = "consumed"
        /\ \A j \in Token : invitation[j] # None => invitation'[j] # None
        /\ \A j \in Token : Open(j)' => j # i /\ Open(j) /\ invitation'[j] = invitation[j]
    BY <1>1, <1>6, Rows DEF TypeOK, InvitationRows, NullOr, Open
  <1>8. \A j \in Token : Open(j)' =>
          Open(j) /\ invitation'[j] = invitation[j] /\ invitation[j].user # u
    BY <1>3, <1>4, <1>7 DEF AccountsInv, OpenInvitationsPending
  <1>9. /\ status'[u] = "ACTIVE" /\ u \in activated' /\ Live(u)'
        /\ credential'[u] = h
        /\ \A v \in User \ {u} : /\ status'[v] = status[v]
                                 /\ v \in activated' <=> v \in activated
                                 /\ credential'[v] = credential[v]
    BY <1>1, <1>5, PasswordSet DEF TypeOK
  <1>10. TypeOK'
    BY <1>1, <1>5, <1>7, DoneKeeps, PasswordSet, SessionOpens
    DEF TypeOK, InvitationRows
  <1>11. ASSUME NEW s \in Session, LiveSession(s)', s # t
         PROVE  LiveSession(s) /\ session'[s] = session[s] /\ session[s].user # u
    <2>1. LiveSession(s) /\ session'[s] = session[s]
      BY <1>1, <1>5, <1>11, SessionOpens DEF LiveSession
    <2>. QED BY <1>5, <2>1 DEF AccountsInv, LiveSessionsCurrent, Usable
  <1>12. session'[t].user = u /\ session'[t].hash = credential'[u]
    BY <1>1, <1>5, <1>9, SessionOpens
  <1>13. AccountsInv'
    BY <1>8, <1>9, <1>10, <1>11, <1>12, OneAccount
  <1>14. Invited
    BY <1>3, <1>4, <1>7, <1>9 DEF Invited, Live
  <1>15. AccessKept
    BY <1>9 DEF AccessKept, AccountsInv, StatusMatchesCredential, Live
  <1>. QED BY <1>13, <1>14, <1>15

LEMMA LoginKeeps ==
  ASSUME AccountsInv, NEW r \in Request, NEW t \in Session, Login(r, t)
  PROVE  AccountsInv' /\ Invited /\ AccessKept
  <1>1. /\ TypeOK /\ work[r] \in Work /\ work[r].op = "login"
        /\ work[r].user \in User /\ work[r].hash \in Hash
    BY UnderWork, WorkType DEF Login, Under, AccountsInv
  <1>2. PICK u \in User, h \in Hash : work[r].user = u /\ work[r].hash = h
    BY <1>1
  <1>3. /\ Usable(u) /\ credential[u] = h /\ OpenSession(t, u, h) /\ Done(r)
        /\ UNCHANGED <<status, activated, credential, invitation, expired>>
    BY <1>2 DEF Login, StillUsable, accounts
  <1>4. TypeOK'
    BY <1>1, <1>3, DoneKeeps, SessionOpens DEF TypeOK
  <1>5. \A s \in Session : LiveSession(s)' =>
          /\ Usable(session'[s].user)
          /\ session'[s].hash = credential[session'[s].user]
    <2>1. session'[t].user = u /\ session'[t].hash = h
      BY <1>1, <1>3, SessionOpens
    <2>2. \A s \in Session \ {t} : LiveSession(s)' => LiveSession(s) /\ session'[s] = session[s]
      BY <1>1, <1>3, SessionOpens DEF LiveSession
    <2>. QED BY <1>3, <2>1, <2>2 DEF AccountsInv, LiveSessionsCurrent
  <1>6. AccountsInv'
    BY <1>3, <1>4, <1>5
    DEF AccountsInv, LiveSessionsCurrent, OpenInvitationsPending, Open, Usable,
        StatusMatchesCredential, EnabledAdminRemains, Enabled, Live
  <1>. QED BY <1>3, <1>6
       DEF Invited, AccessKept, Live, AccountsInv, StatusMatchesCredential

LEMMA ChangePasswordKeeps ==
  ASSUME AccountsInv, NEW r \in Request, NEW h \in Hash, ChangePassword(r, h)
  PROVE  AccountsInv' /\ Invited /\ AccessKept
  <1>1. /\ TypeOK /\ work[r].user \in User
    BY UnderWork, WorkType DEF ChangePassword, Under, AccountsInv
  <1>2. PICK u \in User : work[r].user = u
    BY <1>1
  <1>3. /\ Usable(u) /\ SetPassword(u, h) /\ session' = SessionsWithout(u) /\ Done(r)
        /\ UNCHANGED <<status, activated, invitation, expired>>
    BY <1>2 DEF ChangePassword, StillUsable
  <1>4. TypeOK'
    BY <1>1, <1>3, DoneKeeps, PasswordSet, SessionsEnd DEF TypeOK
  <1>5. \A s \in Session : LiveSession(s)' =>
          LiveSession(s) /\ session'[s] = session[s] /\ session[s].user # u
    BY <1>1, <1>3, SessionsEnd
  <1>6. /\ status'[u] = "ACTIVE" /\ u \in activated' /\ Live(u)' /\ Live(u)
        /\ \A v \in User \ {u} : credential'[v] = credential[v]
    BY <1>1, <1>3, PasswordSet DEF Usable, AccountsInv, StatusMatchesCredential
  <1>7. \A i \in Token : Open(i)' =>
          Open(i) /\ invitation'[i] = invitation[i] /\ invitation[i].user # u
    BY <1>3, <1>6 DEF Open, AccountsInv, OpenInvitationsPending
  <1>8. AccountsInv'
    BY <1>3, <1>4, <1>5, <1>6, <1>7, OneAccount
  <1>. QED BY <1>3, <1>6, <1>8
       DEF Invited, AccessKept, Live, AccountsInv, StatusMatchesCredential

LEMMA LogoutKeeps ==
  ASSUME AccountsInv, NEW t \in Session, Logout(t)
  PROVE  AccountsInv' /\ Invited /\ AccessKept
  <1>1. /\ TypeOK /\ session' = [session EXCEPT ![t] = Revoked]
        /\ UNCHANGED <<status, activated, credential, invitation, expired, work>>
    BY DEF Logout, AccountsInv, accounts
  <1>2. \A s \in Session : LiveSession(s)' => LiveSession(s) /\ session'[s] = session[s]
    BY <1>1 DEF TypeOK, LiveSession
  <1>3. TypeOK'
    BY <1>1 DEF TypeOK, Under
  <1>4. AccountsInv'
    BY <1>1, <1>2, <1>3
    DEF AccountsInv, LiveSessionsCurrent, OpenInvitationsPending, Open, Usable,
        StatusMatchesCredential, EnabledAdminRemains, Enabled, Live
  <1>. QED BY <1>1, <1>4
       DEF Invited, AccessKept, Live, AccountsInv, StatusMatchesCredential

\* A command that leaves the users table and the credentials alone.
LEMMA UsersUntouched ==
  ASSUME AccountsInv, UNCHANGED accounts
  PROVE  Invited /\ AccessKept
  BY DEF accounts, Invited, AccessKept, Live, AccountsInv, StatusMatchesCredential

LEMMA RevokeSessionsKeeps ==
  ASSUME AccountsInv, NEW r \in Request, RevokeSessions(r)
  PROVE  AccountsInv' /\ Invited /\ AccessKept
  <1>1. TypeOK /\ work[r].user \in User
    BY UnderWork, WorkType DEF RevokeSessions, Under, AccountsInv, Orders
  <1>2. PICK u \in User : work[r].user = u
    BY <1>1
  <1>3. /\ session' = SessionsWithout(u) /\ Done(r)
        /\ UNCHANGED <<status, activated, credential, invitation, expired>>
    BY <1>2 DEF RevokeSessions, accounts
  <1>4. TypeOK'
    BY <1>1, <1>3, DoneKeeps, SessionsEnd DEF TypeOK
  <1>5. \A s \in Session : LiveSession(s)' => LiveSession(s) /\ session'[s] = session[s]
    BY <1>1, <1>3, SessionsEnd
  <1>6. AccountsInv'
    BY <1>3, <1>4, <1>5
    DEF AccountsInv, LiveSessionsCurrent, OpenInvitationsPending, Open, Usable,
        StatusMatchesCredential, EnabledAdminRemains, Enabled, Live
  <1>. QED BY <1>3, <1>6, UsersUntouched DEF accounts

\* A new invitation of a pending user.
LEMMA IssueKeeps ==
  ASSUME AccountsInv, NEW t \in Token, NEW u \in User, Issue(t, u),
         status[u] = "PENDING_ACTIVATION",
         UNCHANGED <<status, activated, credential, session, expired>>,
         work' \in [Request -> NullOr(Work)],
         \A q \in Request : Under(q, "activate")' => invitation'[work'[q].token] # None
  PROVE  AccountsInv'
  <1>1. TypeOK
    BY DEF AccountsInv
  <1>2. TypeOK'
    BY <1>1, InvitationIssued DEF TypeOK, InvitationRows
  <1>3. \A i \in Token : Open(i)' =>
           \/ i = t /\ invitation'[i].user = u
           \/ /\ i # t /\ Open(i) /\ invitation'[i] = invitation[i]
              /\ invitation[i].user # u
    BY <1>1, InvitationIssued
  <1>4. OpenInvitationsPending'
    BY <1>3 DEF AccountsInv, OpenInvitationsPending
  <1>. QED
    BY <1>2, <1>4
    DEF AccountsInv, LiveSessionsCurrent, LiveSession, Usable,
        StatusMatchesCredential, EnabledAdminRemains, Enabled, Live

LEMMA CreateInvitationKeeps ==
  ASSUME AccountsInv, NEW r \in Request, NEW t \in Token, CreateInvitation(r, t)
  PROVE  AccountsInv' /\ Invited /\ AccessKept
  <1>1. TypeOK /\ work[r].user \in User
    BY UnderWork, WorkType DEF CreateInvitation, Under, AccountsInv, Orders
  <1>2. PICK u \in User : work[r].user = u
    BY <1>1
  <1>3. /\ status[u] = "PENDING_ACTIVATION" /\ Issue(t, u) /\ Done(r)
        /\ UNCHANGED <<status, activated, credential, session, expired>>
    BY <1>2 DEF CreateInvitation, accounts
  <1>4. /\ work' \in [Request -> NullOr(Work)]
        /\ \A q \in Request : Under(q, "activate")' => invitation'[work'[q].token] # None
    BY <1>1, <1>3, InvitationIssued, DoneKeeps
  <1>. QED BY <1>3, <1>4, IssueKeeps, UsersUntouched DEF accounts

LEMMA InviteInitialAdminKeeps ==
  ASSUME AccountsInv, NEW a \in Admins, NEW t \in Token, InviteInitialAdmin(a, t)
  PROVE  AccountsInv' /\ Invited /\ AccessKept
  <1>1. /\ TypeOK /\ a \in User
        /\ status[a] = "PENDING_ACTIVATION" /\ Issue(t, a) /\ work' = work
        /\ UNCHANGED <<status, activated, credential, session, expired>>
    BY AdminsAssumption DEF InviteInitialAdmin, accounts, AccountsInv
  <1>2. \A q \in Request : Under(q, "activate")' => invitation'[work'[q].token] # None
    <2>. SUFFICES ASSUME NEW q \in Request, Under(q, "activate")
                  PROVE  invitation'[work[q].token] # None
      BY <1>1 DEF Under
    <2>1. invitation[work[q].token] # None /\ work[q].token \in Token
      BY <1>1, UnderWork, WorkType DEF TypeOK, Under
    <2>. QED BY <1>1, <2>1, InvitationIssued
  <1>3. work' \in [Request -> NullOr(Work)]
    BY <1>1 DEF TypeOK
  <1>. QED BY <1>1, <1>2, <1>3, IssueKeeps, UsersUntouched DEF accounts

\* What revocation and recovery leave of an account.
LEMMA ToPending ==
  ASSUME AccountsInv, TypeOK', NEW u \in User,
         status' = [status EXCEPT ![u] = "PENDING_ACTIVATION"],
         activated' = activated \ {u}, WithdrawCredential(u),
         session' = SessionsWithout(u),
         \A i \in Token : Open(i)' =>
           \/ /\ invitation'[i].user = u
              /\ \A j \in Token \ {i} : Open(j)' => invitation'[j].user # u
           \/ /\ Open(i) /\ invitation'[i] = invitation[i]
              /\ invitation[i].user # u
  PROVE  AccountsInv' /\ Invited
  <1>1. TypeOK
    BY DEF AccountsInv
  <1>2. /\ status'[u] = "PENDING_ACTIVATION" /\ u \notin activated' /\ ~Live(u)'
        /\ \A v \in User \ {u} : /\ status'[v] = status[v]
                                 /\ v \in activated' <=> v \in activated
                                 /\ credential'[v] = credential[v]
    BY <1>1, CredentialWithdrawn DEF TypeOK
  <1>3. \A s \in Session : LiveSession(s)' =>
          LiveSession(s) /\ session'[s] = session[s] /\ session[s].user # u
    BY <1>1, SessionsEnd
  <1>4. AccountsInv'
    BY <1>2, <1>3, OneAccount
  <1>. QED BY <1>2, <1>4 DEF Invited, Live

LEMMA RevokeCredentialKeeps ==
  ASSUME AccountsInv, NEW r \in Request, RevokeCredential(r)
  PROVE  AccountsInv' /\ Invited /\ AccessKept
  <1>1. TypeOK /\ work[r].user \in User
    BY UnderWork, WorkType DEF RevokeCredential, Under, AccountsInv, Orders
  <1>2. PICK u \in User : work[r].user = u
    BY <1>1
  <1>3. /\ Dispensable(u) /\ WithdrawCredential(u) /\ session' = SessionsWithout(u)
        /\ status' = [status EXCEPT ![u] = "PENDING_ACTIVATION"]
        /\ activated' = activated \ {u} /\ Done(r)
        /\ UNCHANGED <<invitation, expired>>
    BY <1>2 DEF RevokeCredential
  <1>4. TypeOK'
    BY <1>1, <1>3, DoneKeeps, SessionsEnd, CredentialWithdrawn DEF TypeOK
  <1>5. \A i \in Token : Open(i)' =>
           \/ /\ invitation'[i].user = u
              /\ \A j \in Token \ {i} : Open(j)' => invitation'[j].user # u
           \/ /\ Open(i) /\ invitation'[i] = invitation[i]
              /\ invitation[i].user # u
    BY <1>3 DEF AccountsInv, OpenInvitationsPending, Open
  <1>6. AccountsInv' /\ Invited
    BY <1>3, <1>4, <1>5, ToPending
  <1>7. AccessKept
    <2>. SUFFICES ASSUME NEW v \in User, ~Dispensable(v), status[v] = "ACTIVE"
                  PROVE  status'[v] = "ACTIVE" /\ Live(v)'
      BY DEF AccessKept
    <2>1. v # u /\ Live(v)
      BY <1>3 DEF AccountsInv, StatusMatchesCredential
    <2>. QED BY <1>1, <1>3, <2>1, CredentialWithdrawn DEF TypeOK, Live
  <1>. QED BY <1>6, <1>7

LEMMA RecoverAdminKeeps ==
  ASSUME AccountsInv, NEW a \in Admins, NEW t \in Token, RecoverAdmin(a, t)
  PROVE  AccountsInv' /\ Invited
  <1>1. /\ TypeOK /\ a \in User /\ Issue(t, a) /\ WithdrawCredential(a)
        /\ session' = SessionsWithout(a)
        /\ status' = [status EXCEPT ![a] = "PENDING_ACTIVATION"]
        /\ activated' = activated \ {a} /\ UNCHANGED <<expired, work>>
    BY AdminsAssumption DEF RecoverAdmin, AccountsInv
  <1>2. \A q \in Request : Under(q, "activate")' => invitation'[work'[q].token] # None
    <2>. SUFFICES ASSUME NEW q \in Request, Under(q, "activate")
                  PROVE  invitation'[work[q].token] # None
      BY <1>1 DEF Under
    <2>1. invitation[work[q].token] # None /\ work[q].token \in Token
      BY <1>1, UnderWork, WorkType DEF TypeOK, Under
    <2>. QED BY <1>1, <2>1, InvitationIssued
  <1>3. TypeOK'
    BY <1>1, <1>2, SessionsEnd, CredentialWithdrawn, InvitationIssued
    DEF TypeOK, InvitationRows
  <1>4. \A i \in Token : Open(i)' =>
           \/ /\ invitation'[i].user = a
              /\ \A j \in Token \ {i} : Open(j)' => invitation'[j].user # a
           \/ /\ Open(i) /\ invitation'[i] = invitation[i]
              /\ invitation[i].user # a
    BY <1>1, InvitationIssued
  <1>. QED BY <1>1, <1>3, <1>4, ToPending

LEMMA DeactivateUserKeeps ==
  ASSUME AccountsInv, NEW r \in Request, DeactivateUser(r)
  PROVE  AccountsInv' /\ Invited /\ AccessKept
  <1>1. TypeOK /\ work[r].user \in User
    BY UnderWork, WorkType DEF DeactivateUser, Under, AccountsInv, Orders
  <1>2. PICK u \in User : work[r].user = u
    BY <1>1
  <1>3. /\ Dispensable(u) /\ status[u] # "DISABLED"
        /\ session' = SessionsWithout(u) /\ invitation' = InvitationsWithout(u)
        /\ status' = [status EXCEPT ![u] = "DISABLED"] /\ Done(r)
        /\ UNCHANGED <<activated, credential, expired>>
    BY <1>2 DEF DeactivateUser
  <1>4. TypeOK'
    BY <1>1, <1>3, DoneKeeps, SessionsEnd, InvitationsClose DEF TypeOK, InvitationRows
  <1>5. /\ \A s \in Session : LiveSession(s)' =>
             LiveSession(s) /\ session'[s] = session[s] /\ session[s].user # u
        /\ \A i \in Token : Open(i)' =>
             Open(i) /\ invitation'[i] = invitation[i] /\ invitation[i].user # u
    BY <1>1, <1>3, SessionsEnd, InvitationsClose
  <1>6. /\ status'[u] = "DISABLED" /\ (u \in activated' <=> Live(u)')
        /\ \A v \in User \ {u} : status'[v] = status[v]
        /\ \A v \in User : Live(v)' = Live(v)
    BY <1>1, <1>3 DEF TypeOK, AccountsInv, StatusMatchesCredential, Live
  <1>7. AccountsInv'
    BY <1>3, <1>4, <1>5, <1>6, OneAccount
  <1>8. AccessKept
    BY <1>3, <1>6 DEF AccessKept, AccountsInv, StatusMatchesCredential
  <1>. QED BY <1>6, <1>7, <1>8 DEF Invited

LEMMA ReactivateUserKeeps ==
  ASSUME AccountsInv, NEW r \in Request, ReactivateUser(r)
  PROVE  AccountsInv' /\ Invited /\ AccessKept
  <1>1. TypeOK /\ work[r].user \in User
    BY UnderWork, WorkType DEF ReactivateUser, Under, AccountsInv, Orders
  <1>2. PICK u \in User : work[r].user = u
    BY <1>1
  <1>3. /\ status[u] = "DISABLED" /\ (u \in activated <=> Live(u))
        /\ status' = [status EXCEPT
                         ![u] = IF CanSignIn(u) THEN "ACTIVE" ELSE "PENDING_ACTIVATION"]
        /\ activated' = IF CanSignIn(u) THEN activated ELSE activated \ {u}
        /\ Done(r) /\ UNCHANGED <<credential, invitation, session, expired>>
    BY <1>2 DEF ReactivateUser, AccountsInv, StatusMatchesCredential
  <1>4. TypeOK'
    BY <1>1, <1>3, DoneKeeps DEF TypeOK
  <1>5. /\ \A s \in Session : LiveSession(s)' =>
             LiveSession(s) /\ session'[s] = session[s] /\ session[s].user # u
        /\ \A i \in Token : Open(i)' =>
             Open(i) /\ invitation'[i] = invitation[i] /\ invitation[i].user # u
    BY <1>3 DEF LiveSession, Open, AccountsInv, LiveSessionsCurrent, Usable,
                OpenInvitationsPending
  <1>6. /\ CanSignIn(u) => status'[u] = "ACTIVE" /\ u \in activated' /\ Live(u)'
        /\ ~CanSignIn(u) => /\ status'[u] = "PENDING_ACTIVATION"
                            /\ u \notin activated' /\ ~Live(u)'
        /\ \A v \in User \ {u} : /\ status'[v] = status[v]
                                 /\ v \in activated' <=> v \in activated
        /\ \A v \in User : Live(v)' = Live(v)
    BY <1>1, <1>3 DEF TypeOK, CanSignIn, Live
  <1>7. AccountsInv'
    BY <1>3, <1>4, <1>5, <1>6, OneAccount
  <1>8. AccessKept
    BY <1>3, <1>6 DEF AccessKept, AccountsInv, StatusMatchesCredential
  <1>. QED BY <1>6, <1>7, <1>8 DEF Invited

-----------------------------------------------------------------------------
(* The theorems.                                                           *)

LEMMA Step ==
  ASSUME AccountsInv, [Next]_vars
  PROVE  AccountsInv' /\ Invited /\ (AccessKept \/ CommandLine)
  <1>1. ASSUME NEW r \in Request, Start(r) \/ Abandon(r)
        PROVE  AccountsInv' /\ Invited /\ AccessKept
    BY <1>1, StartKeeps, AbandonKeeps, UsersUntouched DEF tables
  <1>2. ASSUME NEW r \in Request, Finish(r)
        PROVE  AccountsInv' /\ Invited /\ AccessKept
    BY <1>2, LoginKeeps, ActivateKeeps, ChangePasswordKeeps, CreateInvitationKeeps,
       RevokeCredentialKeeps, RevokeSessionsKeeps, DeactivateUserKeeps,
       ReactivateUserKeeps
    DEF Finish
  <1>3. ASSUME NEW i \in Token, Expire(i)
        PROVE  AccountsInv' /\ Invited /\ AccessKept
    <2>1. UNCHANGED tables /\ work' = work /\ expired' \subseteq Token
      BY <1>3 DEF Expire, AccountsInv, TypeOK
    <2>2. /\ work' \in [Request -> NullOr(Work)]
          /\ \A r \in Request : Under(r, "activate")' => invitation[work'[r].token] # None
      BY <2>1 DEF AccountsInv, TypeOK, Under
    <2>. QED BY <2>1, <2>2, BeginKeeps, UsersUntouched DEF tables
  <1>4. CASE CommandLine
    BY <1>4, RecoverAdminKeeps, InviteInitialAdminKeeps DEF CommandLine
  <1>5. CASE UNCHANGED vars
    <2>1. UNCHANGED tables /\ work' = work /\ expired' \subseteq Token
      BY <1>5 DEF vars, AccountsInv, TypeOK
    <2>2. /\ work' \in [Request -> NullOr(Work)]
          /\ \A r \in Request : Under(r, "activate")' => invitation[work'[r].token] # None
      BY <2>1 DEF AccountsInv, TypeOK, Under
    <2>. QED BY <2>1, <2>2, BeginKeeps, UsersUntouched DEF tables
  <1>. QED BY <1>1, <1>2, <1>3, <1>4, <1>5, LogoutKeeps DEF Next

\* No overlap of requests leaves a session of a disabled or pending user, or
\* one opened with a password that is no longer in force.
THEOREM SessionsAlwaysCurrent == Spec => []LiveSessionsCurrent
  <1>1. AccountsInv => LiveSessionsCurrent
    BY DEF AccountsInv
  <1>2. AccountsInv /\ [Next]_vars => AccountsInv'
    BY Step
  <1>. QED BY <1>1, <1>2, InitInv, PTL DEF Spec

\* Invitations are open for pending users only, one each, and the status, the
\* activation and the credential of a user agree.
THEOREM AccountsAlwaysAgree ==
  Spec => [](TypeOK /\ OpenInvitationsPending /\ StatusMatchesCredential)
  <1>1. AccountsInv => TypeOK /\ OpenInvitationsPending /\ StatusMatchesCredential
    BY DEF AccountsInv
  <1>2. AccountsInv /\ [Next]_vars => AccountsInv'
    BY Step
  <1>. QED BY <1>1, <1>2, InitInv, PTL DEF Spec

\* However many administrators there are and whatever they order, one of them
\* stays enabled.
THEOREM AdminAlwaysEnabled == Spec => []EnabledAdminRemains
  <1>1. AccountsInv => EnabledAdminRemains
    BY DEF AccountsInv
  <1>2. AccountsInv /\ [Next]_vars => AccountsInv'
    BY Step
  <1>. QED BY <1>1, <1>2, InitInv, PTL DEF Spec

\* The sole enabled administrator loses access through the command line only.
THEOREM SoleAdminAlwaysKeepsAccess == Spec => SoleAdminKeepsAccess
  <1>1. AccountsInv /\ [Next]_vars => AccountsInv'
    BY Step
  <1>2. AccountsInv /\ [Next]_vars =>
          [\A a \in Admins :
             Enabled = {a} /\ status[a] = "ACTIVE" /\ ~CommandLine
               => status'[a] = "ACTIVE" /\ Live(a)']_vars
    BY Step, AdminsAssumption DEF AccessKept, Dispensable
  <1>. QED BY <1>1, <1>2, InitInv, PTL DEF Spec, SoleAdminKeepsAccess

\* A credential comes to life only by consuming an open, unexpired invitation.
THEOREM CredentialsAlwaysInvited == Spec => CredentialsComeFromInvitations
  <1>1. AccountsInv /\ [Next]_vars => AccountsInv'
    BY Step
  <1>2. AccountsInv /\ [Next]_vars =>
          [\A u \in User : ~Live(u) /\ Live(u)' =>
             \E i \in Token :
               /\ Open(i) /\ i \notin expired /\ invitation[i].user = u
               /\ invitation'[i].state = "consumed"]_vars
    BY Step DEF Invited
  <1>. QED BY <1>1, <1>2, InitInv, PTL DEF Spec, CredentialsComeFromInvitations

-----------------------------------------------------------------------------
(* Who may do what.  Until the first session no panel request exists, so that *)
(* seeding cannot undo one; afterwards bootstrap changes grants of roles only.*)

AccessTypeOK ==
  /\ version \in {0} \cup DOMAIN Grants
  /\ inUse \in BOOLEAN
  /\ roles \in [Person -> SUBSET Role]
  /\ rule \in [Person -> [Permission -> Exception]]
  /\ pending \subseteq RolesRequest \cup RulesRequest

AccessInv ==
  /\ AccessTypeOK
  /\ inUse => version # 0
  /\ ~inUse => pending = {}
  /\ PanelNeverSplitsAdmin

\* What is said of the administrator, for the one who is.
Holds(admin) ==
  /\ Administrators = {admin}
  /\ \A p \in PanelAccess : Allowed(admin, p)
  /\ \A u \in Person \ {admin}, p \in Restricted : ~Allowed(u, p)

LEMMA Versions == 0 \notin DOMAIN Grants /\ \A v \in DOMAIN Grants : v > 0 /\ v \in Nat
  BY ManifestAssumption

LEMMA AccessInitInv == AccessInit => AccessInv
<1> SUFFICES ASSUME AccessInit PROVE AccessInv
  OBVIOUS
<1>1. AccessTypeOK
  BY DEF AccessInit, AccessTypeOK, Exception
<1>2. version = 0 /\ ~inUse /\ pending = {}
  BY DEF AccessInit
<1>3. PanelNeverSplitsAdmin
  BY <1>2 DEF PanelNeverSplitsAdmin
<1> QED
  BY <1>1, <1>2, <1>3 DEF AccessInv

LEMMA Seeding ==
  ASSUME SeedPeople
  PROVE  /\ roles' \in [Person -> SUBSET Role]
         /\ rule' \in [Person -> [Permission -> Exception]]
  BY DEF SeedPeople, Expected, ExpectedRule, Exception

\* Seeded people are as the manifest wants them.
LEMMA SeededHolds ==
  ASSUME NEW v \in DOMAIN Grants, version' = v, SeedPeople
  PROVE  PanelNeverSplitsAdmin'
<1>1. PICK admin \in Person : \A u \in Person :
        /\ <<u, "ADMIN">> \in SeedRoles <=> u = admin
        /\ \A p \in Restricted : <<u, p>> \in SeedGrants => u = admin
  BY ManifestAssumption
<1>2. \A u \in Person : "ADMIN" \in roles'[u] <=> u = admin
  BY <1>1, ManifestAssumption DEF SeedPeople, Expected
<1>3. Administrators' = {admin}
  BY <1>2 DEF Administrators
<1>4. Catalogue' = Grants[v]
  BY Versions DEF Catalogue
<1>5. \A u \in Person, p \in Permission :
        rule'[u][p] = IF <<u, p>> \in SeedGrants THEN "GRANT" ELSE "none"
  BY DEF SeedPeople, ExpectedRule
<1>6. \A p \in PanelAccess : Allowed(admin, p)'
  BY <1>2, <1>4, <1>5, ManifestAssumption, PermissionsAssumption DEF Allowed
<1>7. ASSUME NEW u \in Person \ {admin}, NEW p \in Restricted
      PROVE  ~Allowed(u, p)'
  <2>1. rule'[u][p] # "GRANT"
    BY <1>1, <1>5, PermissionsAssumption
  <2>2. \A r \in roles'[u] : <<r, p>> \notin Catalogue'
    BY <1>2, <1>4, Seeding, ManifestAssumption
  <2> QED
    BY <2>1, <2>2 DEF Allowed
<1> QED
  BY <1>3, <1>6, <1>7 DEF PanelNeverSplitsAdmin

\* Another manifest gives the roles other permissions, but none that matter here.
LEMMA UpgradeHolds ==
  ASSUME AccessTypeOK, NEW v \in DOMAIN Grants, version' = v, version # 0,
         PanelNeverSplitsAdmin, UNCHANGED <<roles, rule>>
  PROVE  PanelNeverSplitsAdmin'
<1>1. version > 0
  BY Versions DEF AccessTypeOK
<1>2. PICK admin \in Person : Holds(admin)
  BY <1>1 DEF PanelNeverSplitsAdmin, Holds
<1>3. Administrators' = {admin}
  BY <1>2 DEF Holds, Administrators
<1>4. Catalogue' = Grants[v] /\ "ADMIN" \in roles[admin]
  BY <1>2, Versions DEF Catalogue, Holds, Administrators
<1>5. \A p \in PanelAccess : Allowed(admin, p)'
  BY <1>2, <1>4, ManifestAssumption DEF Holds, Allowed
<1>6. ASSUME NEW u \in Person \ {admin}, NEW p \in Restricted
      PROVE  ~Allowed(u, p)'
  <2>1. rule[u][p] # "GRANT"
    BY <1>2 DEF Holds, Allowed
  <2>2. "ADMIN" \notin roles[u] /\ roles[u] \subseteq Role
    BY <1>2 DEF Holds, Administrators, AccessTypeOK
  <2>3. \A r \in roles[u] : <<r, p>> \notin Catalogue'
    BY <1>4, <2>2, ManifestAssumption
  <2> QED
    BY <2>1, <2>3 DEF Allowed
<1> QED
  BY <1>3, <1>5, <1>6 DEF PanelNeverSplitsAdmin

LEMMA BootstrapKeeps ==
  ASSUME AccessInv, NEW v \in DOMAIN Grants, Bootstrap(v)
  PROVE  AccessInv'
<1>1. AccessTypeOK' /\ version' # 0
  BY Versions, Seeding DEF AccessInv, AccessTypeOK, Bootstrap
<1>2. PanelNeverSplitsAdmin'
  <2>1. CASE ~inUse
    BY <2>1, SeededHolds DEF Bootstrap, Seeds
  <2>2. CASE inUse
    BY <2>2, UpgradeHolds DEF AccessInv, AccessTypeOK, Bootstrap, Seeds
  <2> QED
    BY <2>1, <2>2
<1> QED
  BY <1>1, <1>2 DEF AccessInv, Bootstrap

LEMMA AccessUntouched ==
  ASSUME AccessInv, UNCHANGED <<version, roles, rule>>
  PROVE  PanelNeverSplitsAdmin'
  BY DEF AccessInv, PanelNeverSplitsAdmin, Administrators, Allowed, Catalogue

LEMMA FirstCredentialKeeps ==
  ASSUME AccessInv, FirstCredential
  PROVE  AccessInv'
  BY AccessUntouched DEF AccessInv, AccessTypeOK, FirstCredential

LEMMA AskKeeps ==
  ASSUME AccessInv, NEW q \in RolesRequest \cup RulesRequest, Ask(q)
  PROVE  AccessInv'
  BY AccessUntouched DEF AccessInv, AccessTypeOK, Ask

LEMMA ReplaceRolesKeeps ==
  ASSUME AccessInv, NEW q \in pending, ReplaceRoles(q)
  PROVE  AccessInv'
<1>1. q.user \in Person /\ q.want \subseteq Role
  BY DEF AccessInv, AccessTypeOK, ReplaceRoles, RolesRequest, RulesRequest
<1>2. AccessTypeOK'
  BY <1>1 DEF AccessInv, AccessTypeOK, ReplaceRoles
<1>3. CASE UNCHANGED roles
  BY <1>2, <1>3, AccessUntouched DEF AccessInv, ReplaceRoles
<1>4. CASE Editable(q.user, q.want) /\ roles' = [roles EXCEPT ![q.user] = q.want]
  <2>1. \A u \in Person : "ADMIN" \in roles'[u] <=> "ADMIN" \in roles[u]
    BY <1>1, <1>4 DEF Editable, AccessInv, AccessTypeOK
  <2>2. Administrators' = Administrators /\ Catalogue' = Catalogue
    BY <2>1 DEF Administrators, Catalogue, ReplaceRoles
  <2>3. version > 0 /\ version \in DOMAIN Grants
    BY Versions DEF AccessInv, AccessTypeOK, ReplaceRoles
  <2>4. PICK admin \in Person : Holds(admin)
    BY <2>3 DEF AccessInv, PanelNeverSplitsAdmin, Holds
  <2>5. Catalogue = Grants[version]
    BY <2>3, Versions DEF Catalogue
  <2>6. "ADMIN" \in roles'[admin]
    BY <2>1, <2>4 DEF Holds, Administrators
  <2>7. \A p \in PanelAccess : Allowed(admin, p)'
    BY <2>2, <2>3, <2>4, <2>5, <2>6, ManifestAssumption
    DEF Holds, Allowed, ReplaceRoles
  <2>8. ASSUME NEW u \in Person \ {admin}, NEW p \in Restricted
        PROVE  ~Allowed(u, p)'
    <3>1. rule[u][p] # "GRANT"
      BY <2>4 DEF Holds, Allowed
    <3>2. "ADMIN" \notin roles'[u] /\ roles'[u] \subseteq Role
      BY <1>2, <2>1, <2>4 DEF Holds, Administrators, AccessTypeOK
    <3>3. \A r \in roles'[u] : <<r, p>> \notin Catalogue'
      BY <2>2, <2>3, <2>5, <3>2, ManifestAssumption
    <3> QED
      BY <3>1, <3>3 DEF Allowed, ReplaceRoles
  <2> QED
    BY <1>2, <2>2, <2>4, <2>7, <2>8
    DEF AccessInv, PanelNeverSplitsAdmin, Holds, ReplaceRoles
<1> QED
  BY <1>3, <1>4 DEF ReplaceRoles

LEMMA ReplaceOverridesKeeps ==
  ASSUME AccessInv, NEW q \in pending, ReplaceOverrides(q)
  PROVE  AccessInv'
<1>1. q.user \in Person /\ q.want \in [Permission -> Exception]
  BY DEF AccessInv, AccessTypeOK, ReplaceOverrides, RolesRequest, RulesRequest
<1>2. AccessTypeOK'
  BY <1>1 DEF AccessInv, AccessTypeOK, ReplaceOverrides
<1>3. CASE rule' = rule
  BY <1>2, <1>3, AccessUntouched DEF AccessInv, ReplaceOverrides
<1>4. CASE Permitted(q.user, q.want) /\ rule' = [rule EXCEPT ![q.user] = q.want]
  <2>1. UNCHANGED <<version, roles>>
    BY DEF ReplaceOverrides
  <2>2. Administrators' = Administrators /\ Catalogue' = Catalogue
    BY <2>1 DEF Administrators, Catalogue
  <2>3. version > 0 /\ version \in DOMAIN Grants
    BY Versions DEF AccessInv, AccessTypeOK, ReplaceOverrides
  <2>4. PICK admin \in Person : Holds(admin)
    BY <2>3 DEF AccessInv, PanelNeverSplitsAdmin, Holds
  <2>5. Catalogue = Grants[version]
    BY <2>3, Versions DEF Catalogue
  <2>6. \A u \in Person, p \in Permission : rule'[u][p] # rule[u][p] =>
          /\ rule'[u][p] = "GRANT" /\ p \in Restricted => u = admin
          /\ rule'[u][p] = "DENY" /\ p \in PanelAccess => u # admin
    <3>1. SUFFICES ASSUME NEW u \in Person, NEW p \in Permission,
                          rule'[u][p] # rule[u][p]
                   PROVE  /\ rule'[u][p] = "GRANT" /\ p \in Restricted => u = admin
                          /\ rule'[u][p] = "DENY" /\ p \in PanelAccess => u # admin
      OBVIOUS
    <3>2. u = q.user /\ rule'[u][p] = q.want[p]
      BY <1>1, <1>4, <3>1 DEF AccessInv, AccessTypeOK
    <3>3. q.want[p] # "none" => p \in Created(q.user, q.want)
      BY <3>1, <3>2 DEF Created
    <3> QED
      BY <1>4, <2>4, <3>2, <3>3 DEF Permitted, Holds
  <2>7. "ADMIN" \in roles[admin]
    BY <2>4 DEF Holds, Administrators
  <2>8. \A p \in PanelAccess : Allowed(admin, p)'
    <3>1. SUFFICES ASSUME NEW p \in PanelAccess PROVE Allowed(admin, p)'
      OBVIOUS
    <3>2. p \in Permission /\ <<"ADMIN", p>> \in Catalogue'
      BY <2>2, <2>3, <2>5, ManifestAssumption, PermissionsAssumption
    <3>3. rule'[admin][p] # "DENY"
      BY <2>4, <2>6, <3>2 DEF Holds, Allowed
    <3> QED
      BY <2>1, <2>7, <3>2, <3>3 DEF Allowed
  <2>9. ASSUME NEW u \in Person \ {admin}, NEW p \in Restricted
        PROVE  ~Allowed(u, p)'
    <3>1. p \in Permission
      BY PermissionsAssumption
    <3>2. rule'[u][p] # "GRANT"
      BY <2>4, <2>6, <3>1 DEF Holds, Allowed
    <3>3. "ADMIN" \notin roles[u] /\ roles[u] \subseteq Role
      BY <2>4 DEF Holds, Administrators, AccessInv, AccessTypeOK
    <3>4. \A r \in roles[u] : <<r, p>> \notin Catalogue'
      BY <2>2, <2>3, <2>5, <3>3, ManifestAssumption
    <3> QED
      BY <2>1, <3>2, <3>4 DEF Allowed
  <2> QED
    BY <1>2, <2>2, <2>4, <2>8, <2>9
    DEF AccessInv, PanelNeverSplitsAdmin, Holds, ReplaceOverrides
<1> QED
  BY <1>3, <1>4 DEF ReplaceOverrides

LEMMA AccessStep ==
  ASSUME AccessInv, [AccessNext]_matrix
  PROVE  AccessInv'
<1>1. CASE UNCHANGED matrix
  BY <1>1, AccessUntouched DEF matrix, AccessInv, AccessTypeOK
<1>2. CASE AccessNext
  BY <1>2, BootstrapKeeps, FirstCredentialKeeps, AskKeeps, ReplaceRolesKeeps,
     ReplaceOverridesKeeps DEF AccessNext
<1> QED
  BY <1>1, <1>2

\* What PanelOwnsPeople says of a step.
Asked ==
  \A u \in Person :
    /\ \A r \in roles'[u] \ roles[u] :
         \E q \in pending : q.kind = "roles" /\ q.user = u /\ r \in q.want
    /\ \A p \in Permission : rule'[u][p] # rule[u][p] =>
         \E q \in pending : q.kind = "rules" /\ q.user = u /\ q.want[p] = rule'[u][p]

LEMMA PeopleAsked ==
  ASSUME AccessInv, AccessNext, inUse
  PROVE  Asked
<1>1. CASE UNCHANGED <<roles, rule>>
  BY <1>1 DEF Asked
<1>2. ASSUME NEW q \in pending, ReplaceRoles(q)
      PROVE  Asked
  <2>1. \A u \in Person : roles'[u] # roles[u] => u = q.user /\ roles'[u] = q.want
    BY <1>2 DEF ReplaceRoles, AccessInv, AccessTypeOK
  <2> QED
    BY <1>2, <2>1 DEF Asked, ReplaceRoles
<1>3. ASSUME NEW q \in pending, ReplaceOverrides(q)
      PROVE  Asked
  <2>1. \A u \in Person : rule'[u] # rule[u] => u = q.user /\ rule'[u] = q.want
    BY <1>3 DEF ReplaceOverrides, AccessInv, AccessTypeOK
  <2> QED
    BY <1>3, <2>1 DEF Asked, ReplaceOverrides
<1> QED
  BY <1>1, <1>2, <1>3 DEF AccessNext, Bootstrap, Seeds, FirstCredential, Ask

\* For any people, roles and manifests that give one of them the role ADMIN, and
\* however panel requests and bootstraps interleave: that person remains the one
\* administrator and can reach the panel, nobody else is allowed what is
\* restricted, and only the panel changes what people have.
THEOREM PanelAlwaysHoldsAccess == AccessSpec => PanelHoldsAccess
<1>1. AccessInit => AccessInv
  BY AccessInitInv
<1>2. AccessInv /\ [AccessNext]_matrix => AccessInv'
  BY AccessStep
<1>3. AccessSpec => []AccessInv
  BY <1>1, <1>2, PTL DEF AccessSpec
<1>4. AccessInv => PanelNeverSplitsAdmin
  BY DEF AccessInv
<1>5. AccessInv /\ [AccessNext]_matrix => [inUse => Asked]_matrix
  BY PeopleAsked
<1> QED
  BY <1>3, <1>4, <1>5, PTL DEF AccessSpec, PanelHoldsAccess, PanelOwnsPeople, Asked
=============================================================================
