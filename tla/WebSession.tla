------------------------------- MODULE WebSession -------------------------------
(***************************************************************************)
(* The session of a person in a browser: the tabs of src/apps/web, the     *)
(* cookie they share and the sessions of the API.                          *)
(*                                                                         *)
(* Every answer of a private route sets the cookie again, or clears it, so *)
(* an answer that arrives late may bring back an older session.  A token   *)
(* against forged requests is derived from one session, and a tab keeps it *)
(* in memory.  The functions of the provider await answers, and the tab    *)
(* goes on meanwhile.                                                      *)
(***************************************************************************)
EXTENDS Naturals, Sequences

CONSTANTS
  Tab, User, Nobody,
  MaxSession, \* the bound on sign-ins that succeed
  MaxStart    \* the bound on what the tabs start of their own

\* Sessions are counted, and nobody is none of them.
ASSUME BoundAssumption ==
  /\ MaxSession \in Nat \ {0} /\ MaxStart \in Nat
  /\ Nobody \notin Nat

VARIABLES
  tab,      \* tab[t]: what the provider of a tab holds
  job,      \* job[t]: the function of the provider under way, or Free
  cookie,   \* the session of the browser, or Nobody
  owner,    \* owner[s]: whose session s is, in the order of the sign-ins
  alive,    \* sessions neither revoked nor expired
  wire,     \* requests of the tabs, answered or not
  starts    \* what the tabs started so far

browser == <<tab, job, cookie>>
server == <<owner, alive>>
browserVars == <<browser, server, wire, starts>>

Loading == [kind |-> "loading", person |-> Nobody, token |-> Nobody]
Anonymous == [kind |-> "anonymous", person |-> Nobody, token |-> Nobody]
Authenticated(p, token) == [kind |-> "authenticated", person |-> p, token |-> token]

\* found: the state the function read before it asked for a token.
\* had: the cookie when it began; same: every request it sent carried that one.
\* token: the one the sign-in answered with; again: a sign-out asked once more.
Free == [kind |-> "none", found |-> Anonymous, had |-> Nobody, same |-> TRUE,
         token |-> Nobody, again |-> FALSE]

-----------------------------------------------------------------------------
(* Requests carry the browser's cookie of the moment they are sent.        *)

Reads == {"session", "csrf"}
Harmless == Reads \cup {"command"}

NewRequest(t, reader, kind, c, token, person) ==
  [tab |-> t, reader |-> reader, kind |-> kind, cookie |-> c, token |-> token,
   person |-> person, heard |-> TRUE, answer |-> "none", sets |-> {}]

Starts == starts < MaxStart /\ starts' = starts + 1

Of(t, reader) == {q \in wire : q.heard /\ q.tab = t /\ q.reader = reader}

\* sets: what the answer makes of the cookie, if anything.  Nobody waits for the
\* answer of a request its page forgot.
Reply(q, answer, sets) ==
  wire' = (wire \ {q}) \cup
            IF q.heard THEN {[q EXCEPT !.answer = answer, !.sets = sets]} ELSE {}

\* The token the API accepts is the one derived from the cookie's session.
Verified(q) == q.kind \in Reads \/ q.token = q.cookie

\* A wrong password, signing in or to change it, is a 401 as well.
SignIn(q) ==
  /\ q.kind = "login"
  /\ \/ /\ Len(owner) < MaxSession
        /\ owner' = Append(owner, q.person)
        /\ alive' = alive \cup {Len(owner')}
        /\ Reply(q, "ok", {Len(owner')})
     \/ Reply(q, "unauthorized", {}) /\ UNCHANGED server

\* SessionGuard, which clears a cookie it finds dead; then CsrfGuard.
RefuseRequest(q) ==
  /\ q.kind # "login"
  /\ \/ q.cookie = Nobody /\ Reply(q, "unauthorized", {})
     \/ q.cookie \notin alive \cup {Nobody} /\ Reply(q, "unauthorized", {Nobody})
     \/ q.cookie \in alive /\ ~Verified(q) /\ Reply(q, "forbidden", {q.cookie})
  /\ UNCHANGED server

Passes(q) == q.kind # "login" /\ q.cookie \in alive /\ Verified(q)

\* Reads and the other commands leave the sessions as they are.
Use(q) ==
  /\ Passes(q) /\ q.kind \in Harmless
  /\ Reply(q, "ok", {q.cookie})
  /\ UNCHANGED server

SignOut(q) ==
  /\ Passes(q) /\ q.kind = "logout"
  /\ Reply(q, "ok", {Nobody})
  /\ alive' = alive \ {q.cookie}
  /\ UNCHANGED owner

\* A new password ends every session of its person.
ChangePassword(q) ==
  /\ Passes(q) /\ q.kind = "change"
  /\ \/ /\ Reply(q, "ok", {Nobody})
        /\ alive' = {s \in alive : owner[s] # owner[q.cookie]}
     \/ Reply(q, "unauthorized", {q.cookie}) /\ UNCHANGED alive
  /\ UNCHANGED owner

Serve(q) ==
  /\ q.answer = "none"
  /\ SignIn(q) \/ RefuseRequest(q) \/ Use(q) \/ SignOut(q) \/ ChangePassword(q)
  /\ UNCHANGED <<browser, starts>>

\* The connection breaks before the request is served, or before its answer is heard.
Lose(q) ==
  /\ q.answer # "lost"
  /\ Reply(q, "lost", {})
  /\ UNCHANGED <<browser, server, starts>>

\* A session expires, or is revoked from elsewhere.
Expire(s) ==
  /\ alive' = alive \ {s}
  /\ UNCHANGED <<browser, owner, wire, starts>>

-----------------------------------------------------------------------------
(* A tab reads its session when it is mounted and when it gets the focus.  *)

Focus(t) ==
  /\ Starts
  /\ tab[t].kind = "authenticated" /\ Of(t, "refresh") = {}
  /\ wire' = wire \cup {NewRequest(t, "refresh", "session", cookie, Nobody, Nobody)}
  /\ UNCHANGED <<browser, server>>

\* What the page had under way is still served, and no longer heard; what only
\* reads is then of no consequence.
Reload(t) ==
  /\ Starts
  /\ tab' = [tab EXCEPT ![t] = Loading]
  /\ job' = [job EXCEPT ![t] = Free]
  /\ wire' = {[q EXCEPT !.heard = @ /\ q.tab # t] : q \in
                {q \in wire : q.tab = t => q.answer = "none" /\ q.kind \notin Harmless}}
               \cup {NewRequest(t, "refresh", "session", cookie, Nobody, Nobody)}
  /\ UNCHANGED <<cookie, server>>

TabBecomes(t, state) == tab' = [tab EXCEPT ![t] = state]

\* The token stays, although the session may be another by now.
Refreshed(t, q) ==
  /\ q.reader = "refresh"
  /\ TabBecomes(t, CASE q.answer = "ok" -> Authenticated(owner[q.cookie], tab[t].token)
                     [] q.answer = "unauthorized" -> Anonymous
                     [] OTHER -> IF tab[t].kind = "loading" THEN Anonymous ELSE tab[t])
  /\ wire' = wire \ {q}
  /\ UNCHANGED job

-----------------------------------------------------------------------------
(* The functions of the provider, each awaiting one answer at a time.      *)

Login(t, p) ==
  /\ Starts
  /\ job[t] = Free /\ tab[t].kind = "anonymous"
  /\ job' = [job EXCEPT ![t] = [Free EXCEPT !.kind = "login"]]
  /\ wire' = wire \cup {NewRequest(t, "job", "login", cookie, Nobody, p)}
  /\ UNCHANGED <<tab, cookie, server>>

\* getCsrfToken answers with the token it has, or remembers the state and asks.
Asks(t, kind, token) ==
  IF token = Nobody THEN NewRequest(t, "job", "csrf", cookie', Nobody, Nobody)
                    ELSE NewRequest(t, "job", kind, cookie', token, Nobody)

BeginJob(t, kind) ==
  /\ Starts
  /\ job[t] = Free /\ tab[t].kind = "authenticated"
  /\ job' = [job EXCEPT ![t] = [Free EXCEPT !.kind = kind, !.found = tab[t], !.had = cookie]]
  /\ UNCHANGED <<tab, cookie, server>>
  /\ wire' = wire \cup {Asks(t, kind, tab[t].token)}

Follows(t, q, request) == wire' = (wire \ {q}) \cup {request}

Ends(t, q) == job' = [job EXCEPT ![t] = Free] /\ wire' = wire \ {q}

Keeps(t, q) == job[t].same /\ q.cookie = job[t].had

\* establish: the tab shows the session it reads, with the token of the sign-in.
Establishing(t, q) ==
  /\ q.kind = "login" /\ q.answer = "ok"
  /\ job' = [job EXCEPT ![t].token = cookie']
  /\ Follows(t, q, NewRequest(t, "job", "session", cookie', Nobody, Nobody))
  /\ UNCHANGED tab

Established(t, q) ==
  /\ q.kind = "login" => q.answer # "ok"
  /\ TabBecomes(t, IF q.kind = "session" /\ q.answer = "ok"
                   THEN Authenticated(owner[q.cookie], job[t].token) ELSE tab[t])
  /\ Ends(t, q)

\* The answer is written over whatever the tab has become since.
Tokened(t, q) ==
  /\ q.kind = "csrf" /\ q.answer = "ok"
  /\ TabBecomes(t, [job[t].found EXCEPT !.token = q.cookie])
  /\ job' = [job EXCEPT ![t].same = Keeps(t, q)]
  /\ Follows(t, q, Asks(t, job[t].kind, q.cookie))

NeverAsksAgain(t, q) == FALSE

\* logout asks for a new token, once, when the API refuses the one it had.
MayAskAgain(t, q) ==
  job[t].kind = "logout" /\ q.kind = "logout" /\ q.answer = "forbidden" /\ ~job[t].again

AsksAgain(t, q) ==
  /\ MayAskAgain(t, q) /\ tab[t].kind = "authenticated"
  /\ job' = [job EXCEPT ![t].found = tab[t], ![t].again = TRUE, ![t].same = Keeps(t, q)]
  /\ Follows(t, q, Asks(t, "logout", Nobody))
  /\ UNCHANGED tab

\* Whatever the API answered, or nothing, the tab says it has signed out.
LastOfLogout(t, q) == job[t].kind = "logout" /\ (q.kind = "csrf" => q.answer # "ok")

SignedOut(t, q) ==
  /\ LastOfLogout(t, q)
  /\ MayAskAgain(t, q) => tab[t].kind # "authenticated"
  /\ TabBecomes(t, Anonymous)
  /\ Ends(t, q)

\* A wrong current password is a 401, and the tab takes its session for ended.
Done(t, q) ==
  /\ job[t].kind \in {"command", "change"}
  /\ q.kind = "csrf" => q.answer # "ok"
  /\ TabBecomes(t, IF \/ q.kind # "command" /\ q.answer = "unauthorized"
                      \/ q.kind = "change" /\ q.answer = "ok"
                   THEN Anonymous ELSE tab[t])
  /\ Ends(t, q)

Returns(t, q) ==
  IF job[t].kind = "login" THEN Establishing(t, q) \/ Established(t, q)
  ELSE Tokened(t, q) \/ AsksAgain(t, q) \/ SignedOut(t, q) \/ Done(t, q)

\* The browser applies the cookie of an answer before the tab reads it.
Deliver(q) ==
  /\ q.heard /\ q.answer # "none"
  /\ cookie' \in IF q.sets = {} THEN {cookie} ELSE q.sets
  /\ Refreshed(q.tab, q) \/ (q.reader = "job" /\ Returns(q.tab, q))
  /\ UNCHANGED <<server, starts>>

-----------------------------------------------------------------------------
\* The tabs have just been opened, in a browser that may still be signed in.
BrowserInit ==
  /\ \/ cookie = Nobody /\ owner = <<>>
     \/ cookie = 1 /\ owner \in [{1} -> User]
  /\ alive = {cookie} \ {Nobody}
  /\ tab = [t \in Tab |-> Loading]
  /\ job = [t \in Tab |-> Free]
  /\ wire = {NewRequest(t, "refresh", "session", cookie, Nobody, Nobody) : t \in Tab}
  /\ starts = 0

BrowserNext ==
  \/ \E q \in wire : Serve(q) \/ Lose(q) \/ Deliver(q)
  \/ \E t \in Tab :
       \/ Focus(t)
       \/ Reload(t)
       \/ \E p \in User : Login(t, p)
       \/ \E kind \in {"logout", "command", "change"} : BeginJob(t, kind)
  \/ \E s \in alive : Expire(s)

BrowserSpec == BrowserInit /\ [][BrowserNext]_browserVars

-----------------------------------------------------------------------------
\* A sign-out about to end on an answer has ended the session the browser had
\* when it began, whatever token the tab held by then (another tab signed in as
\* somebody else, the focus showed that person and kept the older token): the
\* provider asks for the token of the session once more.  It says nothing of a
\* sign-out whose requests met several cookies, nor of one that was lost.
SignedOutIsOut ==
  \A q \in wire :
    /\ q.heard /\ q.reader = "job" /\ q.answer \notin {"none", "lost"}
    /\ LastOfLogout(q.tab, q) /\ ~MayAskAgain(q.tab, q) /\ Keeps(q.tab, q)
    => job[q.tab].had \notin alive

\* A command is executed for the person whose session its token was derived
\* from, whoever the browser's cookie belonged to when the tab took the token.
TokenBinds ==
  \A q \in wire : q.kind \in {"command", "change"} /\ q.answer = "ok" =>
    owner[q.cookie] = owner[q.token]

\* The sessions of a browser do not mix.
SessionsNeverMix == SignedOutIsOut /\ TokenBinds
=============================================================================
