--------------------------- MODULE MCClockReadings ---------------------------
(***************************************************************************)
(* The parts of the API whose requests write what they read of the clock   *)
(* some time before: the link with Alexa, in AlexaLinks, the throttle of   *)
(* logins, the life of a session and the allowance of an integration key.  *)
(* They share nothing but the clock, so a behaviour is one of one of them, *)
(* and the others rest in their initial states.                            *)
(***************************************************************************)
EXTENDS AlexaLinks, SessionLifetimes, LoginThrottle, QueryAllowance, TLC

VARIABLE part

throttled == <<throttle, attempt, counted, late>>
queried == <<owner, key, window, query, served>>
linked == <<account, link, codes, pairs, work>>

PartsInit ==
  /\ part \in {"throttle", "session", "allowance", "alexa"}
  /\ ThrottleInit /\ SessionInit /\ AllowanceInit /\ Init

\* Sessions need the whole clock, the others less.
PartsNext ==
  /\ UNCHANGED part
  /\ \/ /\ part = "throttle" /\ ThrottleNext /\ clock' <= 3
        /\ UNCHANGED <<visits, queried, linked>>
     \/ /\ part = "session" /\ SessionNext
        /\ UNCHANGED <<throttled, queried, linked>>
     \/ /\ part = "allowance" /\ AllowanceNext /\ clock' <= 3
        /\ UNCHANGED <<throttled, visits, linked>>
     \/ /\ part = "alexa" /\ Next /\ clock' <= 2
        /\ UNCHANGED <<throttled, visits, queried>>

PartsSpec == PartsInit /\ [][PartsNext]_<<part, vars, throttled, visits, queried>>

\* Attempt and Visit have the same values, and so have Query and Request.
Interchangeable == Permutations(Visit) \cup Permutations(Request)
===============================================================================
