---------------------------- MODULE LoginThrottle ----------------------------
(***************************************************************************)
(* The throttle of logins: one row of login_throttles per identifier and   *)
(* origin, and the attempts that share it.                                 *)
(*                                                                         *)
(* An attempt looks at the block, verifies a password (which takes long),  *)
(* reads the clock and only then writes the row, in a transaction of its   *)
(* own.  Attempts therefore write in another order than that of their      *)
(* readings, and may write after others have started a block.              *)
(***************************************************************************)
EXTENDS ApiClock, FiniteSets

CONSTANTS
  Attempt,   \* attempts the API can have under way for one row
  ThrottleWindow  \* 15 minutes, the length of a window and of a block

ThrottleRow ==
  [count : Nat, since : Nat, last : Nat \cup {None}, until : Nat \cup {None}, created : Nat]

ASSUME ThrottleAssumption ==
  /\ ThrottleWindow \in Nat \ {0} /\ IsFiniteSet(Attempt) /\ Attempt # {}
  /\ None \notin Nat \cup ThrottleRow

FailureLimit == 4

VARIABLES
  throttle, \* the row of login_throttles, or None
  attempt,  \* attempt[a]: how far a has come
  counted,  \* failures counted since the last login: by which reading, in
            \* which window, its place in it
  late      \* failures written while the present block was in force

history == <<counted, late>>
throttleVars == <<clock, throttle, attempt, history>>

-----------------------------------------------------------------------------
(* The row.                                                                *)

Blocked(now) == throttle.until # None /\ throttle.until > now

WindowOver(now) == throttle.since + ThrottleWindow <= now

FirstFailure(now) ==
  [count |-> 1, since |-> now, last |-> now, until |-> None, created |-> now]

\* A failure that arrives during a block.
KeepBlock(now) == throttle

OneMoreTwice(now) ==
  [throttle EXCEPT !.count = IF @ + 2 < FailureLimit THEN @ + 2 ELSE FailureLimit,
              !.last = now,
              !.until = IF throttle.count + 2 >= FailureLimit THEN now + ThrottleWindow ELSE None]

OneMoreFailure(now) ==
  [throttle EXCEPT !.count = IF @ < FailureLimit THEN @ + 1 ELSE FailureLimit,
              !.last = now,
              !.until = IF throttle.count + 1 >= FailureLimit THEN now + ThrottleWindow ELSE None]

NewWindow(now) ==
  [throttle EXCEPT !.count = 1, !.since = now, !.last = now, !.until = None]

\* The upsert of recordFailureInTransaction.
AfterFailure(now) ==
  CASE throttle = None -> FirstFailure(now)
    [] throttle # None /\ Blocked(now) -> KeepBlock(now)
    [] throttle # None /\ ~Blocked(now) /\ WindowOver(now) -> NewWindow(now)
    [] OTHER -> OneMoreFailure(now)

AfterLogin(now) ==
  IF throttle = None THEN None
  ELSE [throttle EXCEPT !.count = 0, !.since = now, !.last = None, !.until = None]

\* login_throttles_window_coherent
WindowCoherent(r) ==
  IF r.count = 0 THEN r.last = None /\ r.until = None
  ELSE /\ r.last \in r.since .. r.since + ThrottleWindow
       /\ r.until = IF r.count = FailureLimit THEN r.last + ThrottleWindow ELSE None

\* The CHECKs of the table; now becomes updated_at.
Accepts(r, now) ==
  r # None => WindowCoherent(r) /\ r.created <= r.since /\ r.created <= now

ThrottleInit ==
  /\ clock = 0
  /\ throttle = None
  /\ attempt = [a \in Attempt |-> [at |-> "idle"]]
  /\ counted = {}
  /\ late = 0

-----------------------------------------------------------------------------
(* An attempt.                                                             *)

AttemptAt(a, place) == attempt[a].at = place

AttemptGoes(a, state) == attempt' = [attempt EXCEPT ![a] = state]

\* blockedUntil reads the row and then the clock.
Look(a) ==
  /\ AttemptAt(a, "idle")
  /\ AttemptGoes(a, [at |-> "looked", until |-> IF throttle = None THEN None ELSE throttle.until])
  /\ UNCHANGED <<clock, throttle, history>>

Pass(a) ==
  /\ AttemptAt(a, "looked")
  /\ ~(attempt[a].until # None /\ attempt[a].until > clock)
  /\ AttemptGoes(a, [at |-> "verifying"])
  /\ UNCHANGED <<clock, throttle, history>>

\* Refused because of a block, or lost before or while writing.
Abandon(a) ==
  /\ ~AttemptAt(a, "idle")
  /\ AttemptGoes(a, [at |-> "idle"])
  /\ UNCHANGED <<clock, throttle, history>>

Verify(a) ==
  /\ AttemptAt(a, "verifying")
  /\ \E outcome \in {"failed", "verified"} : AttemptGoes(a, [at |-> outcome, now |-> clock])
  /\ UNCHANGED <<clock, throttle, history>>

\* The credential changed meanwhile: the attempt fails after all.
Outdated(a) ==
  /\ AttemptAt(a, "verified")
  /\ AttemptGoes(a, [at |-> "failed", now |-> clock])
  /\ UNCHANGED <<clock, throttle, history>>

RecordFailure(a) ==
  /\ AttemptAt(a, "failed")
  /\ LET now == attempt[a].now
         blocked == throttle # None /\ Blocked(now)
     IN /\ Accepts(AfterFailure(now), now)
        /\ throttle' = AfterFailure(now)
        /\ counted' = IF blocked THEN counted
                      ELSE counted \cup {[at |-> now, window |-> throttle'.since,
                                         nth |-> throttle'.count]}
        /\ late' = IF blocked THEN late + 1 ELSE 0
  /\ AttemptGoes(a, [at |-> "idle"])
  /\ UNCHANGED clock

RecordLogin(a) ==
  /\ AttemptAt(a, "verified")
  /\ LET now == attempt[a].now
     IN Accepts(AfterLogin(now), now) /\ throttle' = AfterLogin(now)
  /\ counted' = {}
  /\ late' = 0
  /\ AttemptGoes(a, [at |-> "idle"])
  /\ UNCHANGED clock

TickThrottle ==
  /\ Advances
  /\ UNCHANGED <<throttle, attempt, history>>

ThrottleNext ==
  \/ \E a \in Attempt :
       \/ Look(a) \/ Pass(a) \/ Abandon(a) \/ Verify(a) \/ Outdated(a)
       \/ RecordFailure(a) \/ RecordLogin(a)
  \/ TickThrottle

ThrottleSpec == ThrottleInit /\ [][ThrottleNext]_throttleVars

-----------------------------------------------------------------------------
(* Properties.                                                             *)

CountedIn(first, last) == {e \in counted : e.at \in first..last}

\* Nobody is blocked for less than four counted failures within a window, none
\* of them from before the last successful login.
BlockEarned ==
  throttle # None /\ throttle.until # None
    => \E t \in Time : Cardinality(CountedIn(t, t + ThrottleWindow - 1)) >= FailureLimit

\* Windows do not slide, so the failures of a stretch may straddle two of them
\* and a block is counted from the reading of the fourth failure, which need not
\* be the latest: still, no stretch as long as a window holds more than three
\* failures of one and four of the next.
SevenAtMost ==
  \A t \in Time :
    Cardinality(CountedIn(t, t + ThrottleWindow - 1)) <= 2 * FailureLimit - 1

\* Only attempts already under way when a block starts can fail during it.
LateAreFew == late < Cardinality(Attempt)

\* Blocks are neither too easy nor too hard to come by: earned by four failures,
\* never later than the seventh, and overshot only by who was under way.
BlocksMeasured == BlockEarned /\ SevenAtMost /\ LateAreFew

\* A block in force is neither lifted nor prolonged by further failures: only a
\* login that passed before it clears it.
BlockStands ==
  [][throttle # None /\ Blocked(clock) /\ throttle' # throttle => throttle'.count = 0]_throttleVars

\* Whatever a step leaves is measured, and blocks stand.
BlocksHold == [][BlocksMeasured']_throttleVars /\ BlockStands

\* The upsert of a failed attempt satisfies the CHECKs of the table, so that
\* each of several failures at once is counted.
FailuresCounted ==
  \A a \in Attempt : AttemptAt(a, "failed") => Accepts(AfterFailure(attempt[a].now), attempt[a].now)

=============================================================================
