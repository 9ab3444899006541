--------------------------- MODULE SessionLifetimes ---------------------------
(***************************************************************************)
(* The life of one session: its row, the requests that renew it, and the   *)
(* cookie of the browser that sends them.                                  *)
(*                                                                         *)
(* A request reads the clock; the database reads its own when the renewing *)
(* UPDATE starts; the UPDATE may wait for the row; and answers, with the   *)
(* cookie they carry, arrive in any order.  Both clocks are taken as one.  *)
(***************************************************************************)
EXTENDS ApiClock

CONSTANTS
  Visit,          \* requests the browser may have under way
  Idle, Absolute  \* 30 minutes and 8 hours, in clock ticks

ASSUME LifetimesAssumption == Idle \in Nat \ {0} /\ Absolute \in Nat \ {0}

SessionRow ==
  [created : Nat, last : Nat, idle : Nat, absolute : Nat, revoked : Nat \cup {None}]

ASSUME NoSessionAssumption == None \notin Nat \cup SessionRow

VARIABLES
  enabled,  \* is the user ACTIVE
  session,  \* the row of sessions, or None
  visit,    \* visit[r]: how far r has come
  cookie,   \* when the browser's cookie expires, or None
  seen      \* readings of the requests the session was accepted for

visits == <<enabled, session, visit, cookie, seen>>

Smaller(x, y) == IF x <= y THEN x ELSE y
Larger(x, y) == IF x >= y THEN x ELSE y

SessionInit ==
  /\ clock = 0
  /\ enabled = TRUE
  /\ session = None
  /\ visit = [r \in Visit |-> [at |-> "idle"]]
  /\ cookie = None
  /\ seen = {}

Elapse ==
  /\ Advances
  /\ UNCHANGED visits

Disable ==
  /\ enabled
  /\ enabled' = FALSE
  /\ UNCHANGED <<clock, session, visit, cookie, seen>>

-----------------------------------------------------------------------------
(* The row.                                                                *)

\* sessions_timestamps_coherent
RowCoherent(s) ==
  /\ s.created <= s.last /\ s.last <= s.absolute
  /\ s.created < s.absolute /\ s.absolute <= s.created + Absolute
  /\ s.idle = Smaller(s.last + Idle, s.absolute)
  /\ s.revoked # None => s.created <= s.revoked

\* createInTransaction
Opened(now) ==
  [created |-> now, last |-> now, idle |-> Smaller(now + Idle, now + Absolute),
   absolute |-> now + Absolute, revoked |-> None]

RenewedFromReading(now) ==
  [session EXCEPT !.last = now, !.idle = Smaller(now + Idle, session.absolute)]

\* The SET of validateAndRenew.
Renewed(now) ==
  [session EXCEPT !.last = Larger(@, now),
              !.idle = Smaller(Larger(@, now + Idle), session.absolute)]

\* The WHERE of validateAndRenew.
Live(now) ==
  /\ enabled
  /\ session.revoked = None
  /\ now < session.idle /\ now < session.absolute

\* enforce_session_lifecycle: a session expired when the statement started may be
\* found live by an earlier reading, but must not be written.
Guarded(started, new) ==
  session.revoked # None \/ session.idle <= started \/ session.absolute <= started
    => new.last = session.last /\ new.idle = session.idle

-----------------------------------------------------------------------------
(* A request.                                                              *)

At(r, place) == visit[r].at = place

Goes(r, state) == visit' = [visit EXCEPT ![r] = state]

\* The login that opens the session, and answers it to the browser.
OpenSession(r) ==
  /\ At(r, "idle")
  /\ session = None
  /\ \E now \in 0..clock :
       session' = Opened(now) /\ seen' = {now}
                /\ Goes(r, [at |-> "answered", expires |-> Opened(now).idle])
  /\ UNCHANGED <<clock, enabled, cookie>>

\* A browser drops an expired cookie.
Arrive(r) ==
  /\ At(r, "idle")
  /\ cookie # None
  /\ clock < cookie
  /\ Goes(r, [at |-> "read", now |-> clock])
  /\ UNCHANGED <<clock, enabled, session, cookie, seen>>

SendRenewal(r) ==
  /\ At(r, "read")
  /\ Goes(r, [at |-> "sent", now |-> visit[r].now, started |-> clock])
  /\ UNCHANGED <<clock, enabled, session, cookie, seen>>

\* The row is found live again once no other request holds it.
Renew(r) ==
  /\ At(r, "sent")
  /\ LET now == visit[r].now
     IN /\ Live(now)
        /\ Guarded(visit[r].started, Renewed(now))
        /\ session' = Renewed(now)
        /\ seen' = seen \cup {now}
        /\ Goes(r, [at |-> "answered", expires |-> Smaller(Renewed(now).idle, session.absolute)])
  /\ UNCHANGED <<clock, enabled, cookie>>

\* No row is renewed: the answer clears the cookie.
Refuse(r) ==
  /\ At(r, "sent")
  /\ ~Live(visit[r].now)
  /\ Goes(r, [at |-> "answered", expires |-> None])
  /\ UNCHANGED <<clock, enabled, session, cookie, seen>>

\* The trigger raises, or the connection is lost: an internal error, which leaves
\* the cookie alone, or no answer at all.
Fail(r) ==
  /\ ~At(r, "idle")
  /\ Goes(r, [at |-> "idle"])
  /\ UNCHANGED <<clock, enabled, session, cookie, seen>>

Receive(r) ==
  /\ At(r, "answered")
  /\ cookie' = visit[r].expires
  /\ Goes(r, [at |-> "idle"])
  /\ UNCHANGED <<clock, enabled, session, seen>>

\* logout, revokeOne and revokeAll, with a reading from before the statement.
Revoke(now) ==
  /\ session # None /\ session.revoked = None
  /\ RowCoherent([session EXCEPT !.revoked = now])
  /\ session' = [session EXCEPT !.revoked = now]
  /\ UNCHANGED <<clock, enabled, visit, cookie, seen>>

SessionNext ==
  \/ Elapse \/ Disable
  \/ \E now \in 0..clock : Revoke(now)
  \/ \E r \in Visit :
       \/ OpenSession(r) \/ Arrive(r) \/ SendRenewal(r) \/ Renew(r) \/ Refuse(r)
       \/ Fail(r) \/ Receive(r)

SessionSpec == SessionInit /\ [][SessionNext]_<<clock, visits>>

-----------------------------------------------------------------------------
(* Properties.                                                             *)

\* Renewals are not checked against the CHECK of the table in this model: with
\* readings in any order they satisfy it by themselves.
RenewalsCoherent == session # None => RowCoherent(session)

\* A session idles out: between two readings it was accepted for, however they
\* overlapped, there is no silence as long as the idle limit.
NoSilentGap ==
  \A t \in seen : t # session.created => \E s \in seen : s < t /\ t - s < Idle

\* The browser never keeps the cookie longer than the session may live, in
\* whatever order the answers arrive.
CookieWithinSession ==
  cookie # None => cookie <= session.idle /\ cookie <= session.absolute

\* Whatever readings and answers arrive in whatever order, the row keeps its
\* CHECK, silence ends the session, and the cookie does not outlive it.
LifeBounded == RenewalsCoherent /\ NoSilentGap /\ CookieWithinSession

\* Late readings neither shorten the session nor move its end.
RenewalsOnlyExtend ==
  [][session # None => session'.idle >= session.idle /\ session'.absolute = session.absolute]_<<clock, visits>>

\* A session that has expired is not renewed, but for requests the database had
\* started to serve before.
ExpiredNotRevived ==
  [][session # None /\ session.idle <= clock
       /\ (\A r \in Visit : At(r, "sent") => visit[r].started >= session.idle)
     => session'.idle = session.idle]_<<clock, visits>>

\* A late renewal neither shortens, nor prolongs beyond its end, nor revives.
LateRenewalsHarmless == RenewalsOnlyExtend /\ ExpiredNotRevived

\* A session and its cookie end in time, and late renewals do no harm.
SessionsEnd == []LifeBounded /\ LateRenewalsHarmless
===============================================================================
