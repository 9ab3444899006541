SPECIFICATION PartsSpec
CONSTANTS
  Run = {x1, x2}
  MaxEdits = 2
  MaxWrites = 1
  Person = {ann, bob}
  Nobody = Nobody
  Code = {c1}
  Place = {w1}
  Foreign = foreign
  Time <- Instants
  Amount <- Quantities
  MaxProducts = 2
  MaxInventory = 2
  MaxMovements = 2
  Kind = {"sale", "reopen", "adjustment", "correction", "product", "payment"}
  Draft = {d1, d2}
  Line = {x1, x2}
  MaxFormEdits = 2
  MaxOpenings = 1
  MaxPicks = 1
  MaxRequests = 3
  Reported = {a, b, c, d}
  Limit = 2
  Filter = {"a", "b"}
  Page = {1, 2}
  MaxSent = 4
  MaxReload = 2
  Tab = {x1, x2}
  User = {ann, bob}
  MaxSession = 2
  MaxStart = 3
  Product = {p, q}
  CommandTable <- Commands
  ScreenTable <- Screens
  MaxRevisions = 1
  Label = {l1, l2}
  Unit = {box, piece}
  Usual = piece
  Text = {text}
  Blank = blank
  Job = {x1, x2}
  Document = {sale}
  MaxForms = 2
  MaxTyped = 1
  MaxChanges = 1
  Screen = {"sales", "catalog", "sale", "product", "analytics", "home", "reports", "counts",
            "picker", "valuations", "receipts", "users", "count", "pending", "access",
            "form", "integrations", "transfer", "adjustment", "receipt"}
  Article = {"p1", "p2", "p3"}
  Depot = {"w1", "w2"}
  Position <- Places
  CodeWords <- Codes
  NamesOf <- MayBeCalled
  Phrases <- Said
  Beginning <- Catalogues
  CandidateLimit = 2
  Proposed = 2
  MaxRenames = 1
SYMMETRY Interchangeable
INVARIANTS
  ApprovedPlanOnce PlanFaithful FormsActOnce
  ExportNotCut ScreensAnswer NeverGuesses PermissionsDecide SessionsNeverMix
PROPERTIES
  LocksFreezeTarget ReportsTrue CatalogKept
CHECK_DEADLOCK FALSE
