---------------------------- MODULE QueryAllowance ----------------------------
(***************************************************************************)
(* An integration key, the requests that bring it, and the row that counts *)
(* them (integration_rate_limit_windows; a link with Alexa has the same    *)
(* row and the same statement).                                            *)
(*                                                                         *)
(* A request authenticates with one reading of the clock and is counted    *)
(* later with another; the statement that counts it runs later still, and  *)
(* so in another order than that of the readings.                          *)
(***************************************************************************)
EXTENDS ApiClock, FiniteSets

CONSTANTS
  Query,       \* requests the API may have under way with the key
  QueryLimit,  \* queryLimitPerMinute
  Minute,      \* in clock ticks
  KeyLife

WindowRow == [since : Nat, count : Nat]

ASSUME AllowanceAssumption ==
  /\ QueryLimit \in Nat /\ Minute \in Nat \ {0} /\ KeyLife \in Nat \ {0}
  /\ None \notin WindowRow

VARIABLES
  owner,    \* disabled or not, whether its credential is held or revoked, and
            \* since when
  key,      \* the row of integration_keys, or None
  window,   \* the row of integration_rate_limit_windows, or None
  query,    \* query[r]: how far r has come
  served    \* who was served: when, in which window, its place in it, and if
            \* by a reading of that instant

allowanceVars == <<clock, owner, key, window, query, served>>

AllowanceInit ==
  /\ clock = 0
  /\ owner = [disabled |-> FALSE, held |-> TRUE, at |-> 0]
  /\ key = None
  /\ window = None
  /\ query = [r \in Query |-> [at |-> "idle"]]
  /\ served = {}

TickMinute ==
  /\ Advances
  /\ UNCHANGED <<owner, key, window, query, served>>

-----------------------------------------------------------------------------
(* The key and its owner.                                                  *)

\* create, with a reading from before its transaction.
CreateKey(now) ==
  /\ key = None
  /\ ~owner.disabled /\ owner.held
  /\ key' = [created |-> now, shown |-> clock, revoked |-> FALSE]
  /\ UNCHANGED <<clock, owner, window, query, served>>

RevokeKey ==
  /\ key # None /\ ~key.revoked
  /\ key' = [key EXCEPT !.revoked = TRUE]
  /\ UNCHANGED <<clock, owner, window, query, served>>

\* The owner's password changes, or a new credential is activated after one was
\* revoked.
ChangeOwnerCredential(now) ==
  /\ ~owner.disabled
  /\ IF owner.held THEN owner.at <= now ELSE owner.at < now
  /\ owner' = [owner EXCEPT !.held = TRUE, !.at = now]
  /\ UNCHANGED <<clock, key, window, query, served>>

RevokeOwnerCredential ==
  /\ ~owner.disabled /\ owner.held
  /\ owner' = [owner EXCEPT !.held = FALSE, !.at = clock]
  /\ UNCHANGED <<clock, key, window, query, served>>

\* Neither touches the credential.
DeactivateOwner ==
  /\ ~owner.disabled
  /\ owner' = [owner EXCEPT !.disabled = TRUE]
  /\ UNCHANGED <<clock, key, window, query, served>>

ReactivateOwner ==
  /\ owner.disabled
  /\ owner' = [owner EXCEPT !.disabled = FALSE]
  /\ UNCHANGED <<clock, key, window, query, served>>

KeyUsable(now) ==
  /\ key # None /\ ~key.revoked
  /\ now < key.created + KeyLife
  /\ ~owner.disabled /\ owner.held
  /\ owner.at <= key.created

-----------------------------------------------------------------------------
(* A request.                                                              *)

QueryAt(r, place) == query[r].at = place

QueryGoes(r, state) == query' = [query EXCEPT ![r] = state]

\* The key is shown to its owner when its creation is answered.
Authenticate(r, now) ==
  /\ QueryAt(r, "idle")
  /\ key # None /\ key.shown <= now
  /\ KeyUsable(now)
  /\ QueryGoes(r, [at |-> "authenticated"])
  /\ UNCHANGED <<clock, owner, key, window, served>>

ReadClock(r) ==
  /\ QueryAt(r, "authenticated")
  /\ QueryGoes(r, [at |-> "counting", now |-> clock])
  /\ UNCHANGED <<clock, owner, key, window, served>>

\* How far beyond the limit the count has gone does not matter.
OneMoreQuery(count) == IF count <= QueryLimit THEN count + 1 ELSE count

FreshUncleared(now) ==
  [since |-> now, count |-> IF window = None THEN 1 ELSE OneMoreQuery(window.count)]

FreshWindow(now) == [since |-> now, count |-> 1]

\* The window is over a minute after the reading that opened it.
MinuteOver(now) == window.since <= now - Minute

\* The upsert of consumeQueryAllowance.
CountedQuery(now) ==
  IF window = None \/ MinuteOver(now) THEN FreshWindow(now)
  ELSE [window EXCEPT !.count = OneMoreQuery(@)]

\* A refused request has been counted too.
CountQuery(r) ==
  /\ QueryAt(r, "counting")
  /\ LET now == query[r].now
         allowed == CountedQuery(now).count <= QueryLimit
     IN /\ window' = CountedQuery(now)
        /\ served' = IF ~allowed THEN served
                     ELSE served \cup {[at |-> clock, prompt |-> now = clock,
                                       window |-> window'.since, nth |-> window'.count]}
        /\ QueryGoes(r, IF allowed THEN [at |-> "idle"]
                   ELSE [at |-> "refused", prompt |-> now = clock])
  /\ UNCHANGED <<clock, owner, key>>

\* The refusal is answered in the instant it was found.
AnswerRefusal(r) ==
  /\ QueryAt(r, "refused")
  /\ QueryGoes(r, [at |-> "idle"])
  /\ UNCHANGED <<clock, owner, key, window, served>>

AllowanceNext ==
  \/ TickMinute /\ \A r \in Query : ~QueryAt(r, "refused")
  \/ RevokeKey \/ RevokeOwnerCredential \/ DeactivateOwner \/ ReactivateOwner
  \/ \E now \in 0..clock :
       \/ CreateKey(now) \/ ChangeOwnerCredential(now)
       \/ \E r \in Query : Authenticate(r, now)
  \/ \E r \in Query : ReadClock(r) \/ CountQuery(r) \/ AnswerRefusal(r)

AllowanceSpec == AllowanceInit /\ [][AllowanceNext]_allowanceVars

-----------------------------------------------------------------------------
(* Properties.                                                             *)

ServedIn(first, last) == {e \in served : e.at \in first..last}

\* Windows are aligned to the requests that open them and not to the clock, and
\* late requests may open one in the past: still, of the requests counted as
\* soon as they read the clock no stretch of a minute serves more than those of
\* two windows.
TwoWindowsAtMost ==
  \A t \in Time :
    Cardinality({e \in ServedIn(t, t + Minute - 1) : e.prompt}) <= 2 * QueryLimit

\* Who is refused promptly was served as often as the limit allows within the
\* last minute, so a client that keeps to the limit is never refused.
RefusalEarned ==
  \A r \in Query :
    QueryAt(r, "refused") /\ query[r].prompt
      => Cardinality(ServedIn(clock - Minute + 1, clock)) >= QueryLimit

\* A minute is worth neither more than two windows nor less than one.
AllowanceFair == TwoWindowsAtMost /\ RefusalEarned
===============================================================================
