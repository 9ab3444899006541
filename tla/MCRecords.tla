------------------------------- MODULE MCRecords -------------------------------
(***************************************************************************)
(* The ways records enter and leave the system: typed into a form of the   *)
(* web application, exported as a CSV, planned from the old workbook and   *)
(* imported from it, shown on the screens, told by Alexa, kept as sheets   *)
(* of products that several people edit; with the permissions the screens  *)
(* and the routes ask for, and the sessions of the browser they are shown  *)
(* in.  They meet only in tables that other modules cover, so a behaviour  *)
(* is one of one of them.                                                  *)
(***************************************************************************)
EXTENDS LegacyImport, LegacyPlan, ProductCatalog, WebForms, ReportExport, ReadViews,
        VoiceDialog, WebSession, RouteTable, RouteAccess, TLC

VARIABLE part

rest == <<planned, formVars, exportVars, viewVars, spoken, routeVars, browserVars, catalogVars>>

\* What the rows of the workbook hold: two instants, and a little stock.
Instants == 1 .. 2
Quantities == 0 .. 1

\* Shirts that differ in colour and size and may be renamed to one another, and
\* a cap; phrases out of order, repeated, too short, with sizes spelled out.
Blanca == <<"camisa", "manga", "blanca", "l">>
Extra == <<"camisa", "manga", "blanca", "xl">>
Negra == <<"camisa", "manga", "negra", "l">>

Codes ==
  [p1 |-> <<"cam", "b", "l">>, p2 |-> <<"cam", "n", "l">>, p3 |-> <<"gorra">>,
   w1 |-> <<"norte">>, w2 |-> <<"sur">>]

MayBeCalled ==
  [p1 |-> {Blanca, Extra}, p2 |-> {Blanca, Negra}, p3 |-> {<<"gorra", "de", "manga">>},
   w1 |-> {<<"casa", "norte">>}, w2 |-> {<<"casa", "sur">>}]

Said ==
  [place |-> {<<"bodega", "norte">>, <<"casa">>},
   product |-> {Blanca,
     <<"camisa", "de", "manga", "blanca", "talla", "ele">>,
     <<"camisa", "manga", "blanca", "camisa", "manga", "blanca">>,
     <<"manga", "camisa", "blanca", "equis", "ele">>,
     <<"camisa", "manga", "l">>,
     <<"gorra">>}]

Catalogues ==
  {[p1 |-> [name |-> first, active |-> TRUE],
    p2 |-> [name |-> second, active |-> "p2" \in active],
    p3 |-> [name |-> <<"gorra", "de", "manga">>, active |-> "p3" \in active],
    w1 |-> [name |-> <<"casa", "norte">>, active |-> TRUE],
    w2 |-> [name |-> <<"casa", "sur">>, active |-> "w2" \in active]] :
     first \in {Blanca, Extra}, second \in {Blanca, Negra}, active \in SUBSET {"p2", "p3", "w2"}}

Places == [p1 |-> 1, p2 |-> 2, p3 |-> 3, w1 |-> 4, w2 |-> 5]

\* One product, with specifications and without history; the other ids are still
\* to be given, and one person may edit specifications.
OneSheet ==
  /\ sheet = [p \in Product |->
       IF p # CHOOSE q \in Product : TRUE THEN Missing
       ELSE [Missing EXCEPT !.code = CHOOSE l \in Label : TRUE, !.unit = Usual,
                            !.specs = CHOOSE t \in Text : TRUE, !.stamp = 1]]
  /\ used = {} /\ Cardinality(entitled) = 1

\* The part that runs begins in any of its initial states.  The others have no
\* state, or an empty one.
Parts ==
  {"import", "plan", "forms", "report", "views", "voice", "routes", "browser", "catalog"}

ImportBegins ==
  IF part = "import" THEN Init
  ELSE /\ db = Clean /\ locked = None /\ told = <<>> /\ mode = [r \in Run |-> None]
       /\ file = <<>> /\ writer = None /\ edits = 0 /\ writes = 0 /\ pc = <<>>
       /\ left = <<>> /\ read = <<>> /\ plan = <<>> /\ snap = <<>>
       /\ advisory = None /\ temp = <<>>

PlanBegins ==
  IF part = "plan" THEN PlanInit
  ELSE /\ phase = "none" /\ products = <<>> /\ decision = <<>> /\ rows = <<>>
       /\ groups = <<>> /\ moved = <<>> /\ latest = <<>>

ReportBegins ==
  IF part = "report" THEN ExportInit
  ELSE catalog = {} /\ stocked = {} /\ export = NoExport /\ atRead = <<>>

VoiceBegins ==
  IF part = "voice" THEN VoiceInit
  ELSE /\ catalogue = <<>> /\ renames = 0 /\ slots = <<>> /\ turn = Resting
       /\ reply = Silent

RoutesBegin ==
  IF part = "routes" THEN RoutesInit
  ELSE /\ screen = [stage |-> "none"] /\ request = NoCommand
       /\ granted = {} /\ believed = {} /\ withdrawn = {} /\ once = {} /\ always = {}
       /\ revisions = 0

BrowserBegins ==
  IF part = "browser" THEN BrowserInit
  ELSE /\ tab = <<>> /\ job = <<>> /\ cookie = Nobody /\ owner = <<>>
       /\ alive = {} /\ wire = {} /\ starts = 0

SheetsBegin ==
  IF part = "catalog" THEN CatalogInit /\ OneSheet
  ELSE /\ sheet = [p \in Product |-> Missing] /\ categories = <<>> /\ used = {}
       /\ moving = [d \in Document |-> {}] /\ entitled = {}
       /\ editor = <<>> /\ saving = <<>> /\ spent = <<>>

PartsInit ==
  /\ part \in Parts
  /\ FormsInit /\ ViewsInit
  /\ ImportBegins /\ PlanBegins /\ ReportBegins /\ VoiceBegins /\ RoutesBegin /\ BrowserBegins
  /\ SheetsBegin

\* What disturbs the runs of the importer: two edits, of one file at a time, or an
\* edit and a write.
Disturbed ==
  edits' + writes' <= 2 /\ Cardinality({f \in File : file'[f] # "approved"}) <= 1

\* What happens to a form between its submissions: two edits, or an edit and a
\* line picked.
Handled == form' # Closed => form'.edits + openings' <= MaxFormEdits + MaxOpenings

PartsNext ==
  /\ UNCHANGED part
  /\ \/ part = "import" /\ Next /\ Disturbed /\ UNCHANGED rest
     \/ /\ part = "plan" /\ PlanNext
        /\ UNCHANGED <<vars, catalogVars, formVars, exportVars, viewVars, spoken, routeVars, browserVars>>
     \/ /\ part = "forms" /\ FormsNext /\ Handled
        /\ UNCHANGED <<vars, catalogVars, planned, exportVars, viewVars, spoken, routeVars, browserVars>>
     \/ /\ part = "report" /\ ExportNext
        /\ UNCHANGED <<vars, catalogVars, planned, formVars, viewVars, spoken, routeVars, browserVars>>
     \/ /\ part = "views" /\ ViewsNext
        /\ UNCHANGED <<vars, catalogVars, planned, formVars, exportVars, spoken, routeVars, browserVars>>
     \/ /\ part = "voice" /\ VoiceNext
        /\ UNCHANGED <<vars, catalogVars, planned, formVars, exportVars, viewVars, routeVars, browserVars>>
     \/ /\ part = "routes" /\ RoutesNext
        /\ UNCHANGED <<vars, catalogVars, planned, formVars, exportVars, viewVars, spoken, browserVars>>
     \/ /\ part = "catalog" /\ CatalogNext
        /\ UNCHANGED <<vars, planned, formVars, exportVars, viewVars, spoken, routeVars, browserVars>>
     \/ /\ part = "browser" /\ BrowserNext
        /\ UNCHANGED <<vars, catalogVars, planned, formVars, exportVars, viewVars, spoken, routeVars>>

PartsSpec == PartsInit /\ [][PartsNext]_<<part, vars, rest>>

\* A transaction of the catalogue, a tab of the browser and a line of a count are
\* named like a run of the importer.
Interchangeable == Permutations(Run) \cup Permutations(Person)

=============================================================================
