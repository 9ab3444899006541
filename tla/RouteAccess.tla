------------------------------ MODULE RouteAccess ------------------------------
(***************************************************************************)
(* Who may do what while permissions change: screens that open, commands   *)
(* they offer, and the routes that serve them.                             *)
(*                                                                         *)
(* A person's permissions change while a screen is open.  The screen knows *)
(* those its session read told and, of one permission, what a read of its  *)
(* own told; the API reads the permission of every      *)
(* request anew, one at a time, and a service once more before it writes.  *)
(***************************************************************************)
EXTENDS Naturals, Sequences, FiniteSets

CONSTANTS
  CommandTable, \* CommandTable[c]: the route of a command, as RouteTable writes it
  ScreenTable,  \* ScreenTable[s]: what a screen asks for, reads and offers
  MaxRevisions  \* bounds the changes of a person's permissions

VARIABLES
  screen,    \* the screen open: [name, stage, reads to go, codes its reads told]
  granted,   \* the effective permissions of the person
  believed,  \* those the last session read told the web application
  request,   \* the one command sent: [command, offered, stage, at, wrote]
  withdrawn, \* permissions withdrawn since they were told
  once,      \* permissions held at some moment since the command was sent
  always,    \* permissions held at every moment since
  revisions

routeVars == <<screen, granted, believed, request, withdrawn, once, always, revisions>>

-----------------------------------------------------------------------------
Holds(codes, clauses) == \A clause \in clauses : clause \cap codes # {}

Clauses(r) ==
  {{r.guard[i] : i \in 1..Len(r.guard)}} \cup {r.checks[i] : i \in 1..Len(r.checks)}

Opened == ScreenTable[screen.name]

\* The permissions of which a screen asks the API rather than its session.
Told(s) == UNION {r.tells : r \in ScreenTable[s].reads}

\* Nothing else about a person matters to a screen and its commands.
Mentioned(s) ==
  UNION (ScreenTable[s].linked \cup ScreenTable[s].admits
         \cup UNION {Clauses(r) : r \in ScreenTable[s].reads}
         \cup UNION {ScreenTable[s].offers[c] \cup Clauses(CommandTable[c]) :
                       c \in DOMAIN ScreenTable[s].offers})

NoCommand == [stage |-> "none"]

RoutesInit ==
  /\ screen \in {[name |-> s, stage |-> "linked", reads |-> ScreenTable[s].reads,
                  learnt |-> {}] :
                  s \in DOMAIN ScreenTable}
  /\ granted \in SUBSET Mentioned(screen.name)
  /\ believed = granted
  /\ request = NoCommand
  /\ withdrawn = {} /\ once = {} /\ always = {}
  /\ revisions = 0

(* An administrator, or a role, gives a permission or takes it away.           *)
Change(code) ==
  /\ revisions < MaxRevisions
  /\ revisions' = revisions + 1
  /\ IF code \in granted
     THEN /\ granted' = granted \ {code}
          /\ withdrawn' = withdrawn \cup {code}
          /\ always' = always \ {code}
          /\ UNCHANGED once
     ELSE /\ granted' = granted \cup {code}
          /\ once' = IF request = NoCommand THEN once ELSE once \cup {code}
          /\ UNCHANGED <<withdrawn, always>>
  /\ UNCHANGED <<screen, believed, request>>

(* The window gets the focus: the session is read again.  What was withdrawn   *)
(* while a screen loads has been withdrawn from that screen.                   *)
RefreshSession ==
  /\ request = NoCommand
  /\ screen.stage # "refused"
  /\ believed' = granted
  /\ withdrawn' = IF screen.stage = "loading" THEN withdrawn ELSE {}
  /\ UNCHANGED <<screen, granted, request, once, always, revisions>>

(* A link is followed.                                                         *)
Enter ==
  /\ screen.stage = "linked"
  /\ Holds(believed, Opened.linked \cup Opened.admits)
  /\ screen' = [screen EXCEPT !.stage = IF screen.reads = {} THEN "ready" ELSE "loading"]
  /\ UNCHANGED <<granted, believed, request, withdrawn, once, always, revisions>>

Allows(r) == Holds(granted, Clauses(r) \ {{}})

Load(r) ==
  /\ screen.stage = "loading" /\ request = NoCommand
  /\ r \in screen.reads
  /\ LET rest == screen.reads \ {r}
     IN  screen' = [screen EXCEPT
           !.reads = rest,
           !.learnt = @ \cup (r.tells \cap granted),
           !.stage = IF ~Allows(r) THEN "refused" ELSE IF rest = {} THEN "ready" ELSE @]
  /\ UNCHANGED <<granted, believed, request, withdrawn, once, always, revisions>>

Knows == (believed \ Told(screen.name)) \cup screen.learnt

Offered(c) == screen.stage = "ready" /\ Holds(Knows, Opened.offers[c] \cup Opened.admits)

(* A command is sent by the screen that offers it or, no screen opened, by any *)
(* other client.                                                               *)
SendCommand(c) ==
  /\ request = NoCommand
  /\ screen.stage = "linked" \/ Offered(c)
  /\ request' = [command |-> c, offered |-> Offered(c), stage |-> "guard",
                 at |-> 1, wrote |-> FALSE]
  /\ once' = granted
  /\ always' = granted
  /\ UNCHANGED <<screen, granted, believed, withdrawn, revisions>>

AskedRoute == CommandTable[request.command]
At(stage) == request.stage = stage
Becomes(r) ==
  /\ request' = r
  /\ UNCHANGED <<screen, granted, believed, withdrawn, once, always, revisions>>

\* PermissionGuard: the codes in their order, one query each.
Guard ==
  /\ At("guard")
  /\ LET codes == AskedRoute.guard
         passed == [request EXCEPT !.stage = "checks", !.at = 1]
     IN  Becomes(IF codes = <<>> \/ codes[request.at] \in granted THEN passed
                 ELSE IF request.at < Len(codes) THEN [request EXCEPT !.at = @ + 1]
                 ELSE [request EXCEPT !.stage = "forbidden"])

LastUnchecked(clauses, next) ==
  IF request.at >= Len(clauses) THEN next
  ELSE IF clauses[request.at] \cap granted # {} THEN [request EXCEPT !.at = @ + 1]
  ELSE [request EXCEPT !.stage = "forbidden"]

\* One clause after another; what follows once all are satisfied.
Clause(clauses, next) ==
  IF request.at > Len(clauses) THEN next
  ELSE IF clauses[request.at] \cap granted # {} THEN [request EXCEPT !.at = @ + 1]
  ELSE [request EXCEPT !.stage = "forbidden"]

\* The service, in its transaction, before it looks at anything else.
CheckClauses ==
  /\ At("checks")
  /\ Becomes(Clause(AskedRoute.checks, [request EXCEPT !.stage = "commit"]))

CommitCommand ==
  /\ At("commit")
  /\ Becomes([request EXCEPT !.stage = "answer", !.at = 1, !.wrote = TRUE])

AnswerCommand ==
  /\ At("answer")
  /\ Becomes(Clause(AskedRoute.again, [request EXCEPT !.stage = "done"]))

RoutesNext ==
  \/ \E code \in Mentioned(screen.name) : Change(code)
  \/ RefreshSession
  \/ Enter
  \/ \E r \in screen.reads : Load(r)
  \/ \E c \in DOMAIN Opened.offers : SendCommand(c)
  \/ Guard \/ CheckClauses \/ CommitCommand \/ AnswerCommand

RoutesSpec == RoutesInit /\ [][RoutesNext]_routeVars

-----------------------------------------------------------------------------
(* What the instances of this module assume of the tables.                     *)

\* Routes that ask for more than api-conventions.md says.
Understated ==
  {"ProductCreate", "ProductCreateSpecified", "ProductCreateStocked",
   "ProductCreateValued", "ProductCreateWhole", "ReceiptCreate", "ReceiptCreateValued",
   "ValuationUpdate", "CountCancelOpen"}

\* The clauses a route asks for, and those its answer asks for once more.
Stated(r) == Clauses(r) \ {{}}
Restated(r) == {r.again[i] : i \in 1..Len(r.again)}

\* What is documented is asked for and, with the routes above as exceptions,
\* nothing else is.
DocumentedIsAsked ==
  \A c \in DOMAIN CommandTable :
    /\ \A d \in CommandTable[c].documented :
         \E clause \in Stated(CommandTable[c]) : clause \subseteq d
    /\ c \notin Understated =>
         \A clause \in Stated(CommandTable[c]) \cup Restated(CommandTable[c]) :
           \E d \in CommandTable[c].documented : d \subseteq clause

\* A screen offers a command for what its route asks, as its session tells, or
\* the exceptions.
Specified == {"ProductEditSpecified", "ProductCreateSpecified", "ProductCreateWhole"}

Excepted(c, clause) ==
  \/ c = "CountCancelOpen" /\ clause = {"inventory.audit.create"}
  \/ c \in {"UserRoles", "UserPermissions"} /\ clause = {"users.roles.manage"}
  \/ {"inventory.read"} \in Clauses(CommandTable[c]) /\ clause = {"inventory.read"}
  \/ c \in Specified /\ clause = {"products.specifications.manage"}
  \/ c = "AlexaAuthorize"

OfferedAsAsked ==
  \A s \in DOMAIN ScreenTable : \A c \in DOMAIN ScreenTable[s].offers :
    \A clause \in Stated(CommandTable[c]) \cup Restated(CommandTable[c]) :
      \/ \E d \in ScreenTable[s].offers[c] \cup ScreenTable[s].admits :
           d \subseteq clause \ Told(s)
      \/ Excepted(c, clause)

\* A link leads to a screen for what its reads ask, or the exceptions.
LinkedAsRead ==
  \A s \in DOMAIN ScreenTable : \A r \in ScreenTable[s].reads :
    \A clause \in Stated(r) :
      \/ \E d \in ScreenTable[s].linked \cup ScreenTable[s].admits : d \subseteq clause
      \/ clause = {"inventory.read"}
      \/ s = "analytics" /\ clause = {"sales.read"}

ASSUME TableAssumption ==
  /\ MaxRevisions \in Nat
  /\ \A s \in DOMAIN ScreenTable :
       DOMAIN ScreenTable[s].offers \subseteq DOMAIN CommandTable
  /\ \A c \in DOMAIN CommandTable :
       /\ CommandTable[c].guard \in Seq(STRING)
       /\ CommandTable[c].checks \in Seq(SUBSET STRING)
       /\ CommandTable[c].again \in Seq(SUBSET STRING)
       /\ \A i \in 1..Len(CommandTable[c].checks) : CommandTable[c].checks[i] # {}
       /\ Restated(CommandTable[c]) \subseteq {{"inventory.read"}}
  /\ DocumentedIsAsked /\ OfferedAsAsked /\ LinkedAsRead

-----------------------------------------------------------------------------
\* Nothing is written for a person who did not hold, at some moment since the
\* command was sent, every permission the route is documented to ask for.
WritesAllowed ==
  request # NoCommand /\ request.wrote => Holds(once, AskedRoute.documented)

\* "A command is shown only with the permission the backend requires": one that
\* a screen offers is forbidden only if a permission was withdrawn since the
\* session was read.  The exceptions: whoever approves counts without counting
\* is offered to stop one that is still open; the dialog for roles, a form whose
\* reads succeeded, and the specifications a page found open to its person stay
\* when the session is read without the permission;
\* and the consent for Alexa is offered to everybody.
OffersHonoured ==
  request # NoCommand /\ At("forbidden") /\ request.offered =>
    \/ withdrawn # {}
    \/ request.command = "CountCancelOpen" /\ "inventory.audit.create" \notin believed
    \/ request.command \in {"UserRoles", "UserPermissions"} /\ "users.roles.manage" \notin believed
    \/ {"inventory.read"} \in Clauses(AskedRoute) /\ "inventory.read" \notin believed
    \/ request.command \in Specified /\ "products.specifications.manage" \notin believed
    \/ request.command = "AlexaAuthorize"

\* Whoever keeps every permission a route is documented to ask for is not
\* forbidden to use it.
DocumentedSuffices ==
  request # NoCommand /\ At("forbidden") /\ request.command \notin Understated =>
    ~Holds(always, AskedRoute.documented)

\* A command forbidden after all has written nothing, unless its answer reads
\* the receipt it wrote.
ForbiddenWroteNothing ==
  request # NoCommand /\ At("forbidden") /\ request.wrote =>
    AskedRoute.again # <<>> /\ "inventory.read" \notin always

\* A screen a link leads to opens, unless a permission was withdrawn since; the
\* screens that read warehouses or products need inventory.read besides, and
\* the analysis of sales needs sales.read.
ScreensOpen ==
  screen.stage = "refused" /\ withdrawn = {} =>
    \/ "inventory.read" \notin believed
    \/ screen.name = "analytics" /\ "sales.read" \notin believed

\* Permissions decide, on both sides and all the way.
PermissionsDecide ==
  /\ WritesAllowed
  /\ OffersHonoured
  /\ DocumentedSuffices
  /\ ForbiddenWroteNothing
  /\ ScreensOpen
=============================================================================
