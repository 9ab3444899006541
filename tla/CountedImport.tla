------------------------------ MODULE CountedImport ------------------------------
(***************************************************************************)
(* The import of a counted workbook: the browser reads the sheet, then     *)
(* sends, row after row, one request that creates the product with the     *)
(* stock of its first warehouse and one receipt for every other warehouse. *)
(* No transaction spans a row.  Keys are derived from the file, so that    *)
(* the same file may be imported again after a failure.                    *)
(***************************************************************************)
EXTENDS Integers, Sequences

CONSTANTS
  Actor, File,
  Columns,   \* how many warehouses have a column; a warehouse is its column
  Sheet,     \* Sheet[f]: the rows under the header, [code, name, counts]
  Blank,     \* an empty cell
  MaxStarts  \* MaxStarts[a] bounds the imports an actor starts

Column == 1..Columns

ASSUME SheetAssumption ==
  /\ Columns \in Nat
  /\ Blank \notin Nat
  /\ \A f \in File : \A i \in DOMAIN Sheet[f] :
       i \in Nat /\ \A p \in Column : Sheet[f][i].counts[p] \in Nat \cup {Blank}

VARIABLES
  importer, \* importer[a]: the page of an actor
  wire,     \* requests sent and not yet served
  commands, \* requests committed, with their keys (inventory_commands)
  created,  \* the products: their codes, who created them and from which file
  received  \* received[c][p]: stock of c at p

server == <<commands, created, received>>
uploaded == <<importer, wire, server>>

-----------------------------------------------------------------------------
(* The sheet.                                                              *)

IsNamed(row) == row.code # Blank \/ row.name \notin {Blank, "TOTAL"}
IsCounted(row) == \E p \in Column : row.counts[p] # Blank

\* Rows of titles, of totals and of products nobody counted are passed over.
RowsOf ==
  [f \in File |-> {i \in DOMAIN Sheet[f] : IsNamed(Sheet[f][i]) /\ IsCounted(Sheet[f][i])}]

Readable(f) ==
  /\ RowsOf[f] # {}
  /\ \A i \in RowsOf[f] : Blank \notin {Sheet[f][i].code, Sheet[f][i].name}
  /\ \A i, j \in RowsOf[f] : Sheet[f][i].code = Sheet[f][j].code => i = j

Code == (UNION {{Sheet[f][i].code : i \in RowsOf[f]} : f \in File}) \ {Blank}
CountOf(row, p) == IF row.counts[p] = Blank THEN 0 ELSE row.counts[p]
RowWith(f, c) == Sheet[f][CHOOSE i \in RowsOf[f] : Sheet[f][i].code = c]

\* positiveWarehouseQuantities, and those after column p.
Stocking(row) == {p \in Column : CountOf(row, p) > 0}
Ahead(row, p) == {k \in Stocking(row) : k > p}

FirstOf(S) == {i \in S : \A j \in S : i <= j}

-----------------------------------------------------------------------------
(* The browser.                                                            *)

NewPage == [state |-> "idle", starts |-> 0]

Turns(a, page) == importer' = [importer EXCEPT ![a] = page]

SelectFile(a, f) ==
  /\ importer[a].state # "running"
  /\ Turns(a, IF Readable(f)
              THEN [state |-> "ready", starts |-> importer[a].starts, file |-> f]
              ELSE [state |-> "idle", starts |-> importer[a].starts])
  /\ UNCHANGED <<wire, server>>

StartImport(a) ==
  /\ importer[a].state = "ready"
  /\ importer[a].starts < MaxStarts[a]
  /\ \E i \in FirstOf(RowsOf[importer[a].file]) :
       Turns(a, [state |-> "running", starts |-> importer[a].starts + 1,
                 file |-> importer[a].file, row |-> i, column |-> 0, errors |-> {},
                 waits |-> {}, answer |-> "none"])
  /\ UNCHANGED <<wire, server>>

\* The session or the catalogues cannot be read: nothing was sent.
Unprepared(a) ==
  /\ importer[a].state = "running"
  /\ importer[a].row \in FirstOf(RowsOf[importer[a].file])
  /\ importer[a].column = 0 /\ importer[a].waits = {}
  /\ Turns(a, [state |-> "ready", starts |-> importer[a].starts, file |-> importer[a].file])
  /\ UNCHANGED <<wire, server>>

RowAt(page) == Sheet[page.file][page.row]

\* The product comes with its first receipt, if it has any stock at all.
NextColumn(page) ==
  IF page.column = 0 /\ Stocking(RowAt(page)) = {} THEN {0}
  ELSE FirstOf(Ahead(RowAt(page), page.column))

RequestFor(a, page, p) ==
  [actor |-> a, file |-> page.file, attempt |-> page.starts,
   kind |-> IF page.column = 0 THEN "product.create" ELSE "receipt.create",
   code |-> RowAt(page).code, place |-> p,
   quantity |-> IF p = 0 THEN 0 ELSE CountOf(RowAt(page), p)]

SendRequest(a) ==
  /\ importer[a].state = "running"
  /\ importer[a].waits = {}
  /\ \E p \in NextColumn(importer[a]) :
       /\ Turns(a, [importer[a] EXCEPT !.waits = {RequestFor(a, importer[a], p)}])
       /\ wire' = wire \cup {RequestFor(a, importer[a], p)}
  /\ UNCHANGED server

Waiting(a) == importer[a].state = "running" /\ importer[a].waits # {}

\* The row is done, or given up: what follows in the sheet is imported anyway.
RowEnds(a, errors) ==
  LET page == importer[a]
      rest == {i \in RowsOf[page.file] : i > page.row}
      next == [page EXCEPT !.column = 0, !.errors = @ \cup errors,
                           !.waits = {}, !.answer = "none"]
  IN  \/ rest = {} /\ Turns(a, [next EXCEPT !.state = "complete"])
      \/ \E i \in FirstOf(rest) : Turns(a, [next EXCEPT !.row = i])

Hear(a) ==
  /\ Waiting(a)
  /\ importer[a].answer # "none"
  /\ \E q \in importer[a].waits :
       CASE importer[a].answer # "stored" -> RowEnds(a, {q.code})
         [] importer[a].answer = "stored" /\ Ahead(RowAt(importer[a]), q.place) # {} ->
              Turns(a, [importer[a] EXCEPT !.column = q.place, !.waits = {}, !.answer = "none"])
         [] OTHER -> RowEnds(a, {})
  /\ UNCHANGED <<wire, server>>

\* No answer came; the request may have been served, or be served later.
GiveUp(a) ==
  /\ Waiting(a)
  /\ \E q \in importer[a].waits : RowEnds(a, {q.code})
  /\ UNCHANGED <<wire, server>>

\* The page is left or loaded again, even in the middle.
ReloadPage(a) ==
  /\ Turns(a, [state |-> "idle", starts |-> importer[a].starts])
  /\ UNCHANGED <<wire, server>>

-----------------------------------------------------------------------------
(* The server: each request is one transaction (stockCommand).             *)

\* "product", or the warehouse of a receipt.
Operation(q) == IF q.kind = "product.create" THEN 0 ELSE q.place

KeyPerAttempt(q) == <<q.file, Operation(q), q.code, q.attempt>>

\* operationKey; the actor and the kind of the command scope it.
OperationKey(q) == <<q.file, Operation(q), q.code>>

Payload(q) == <<q.code, q.place, q.quantity>>

Earlier(q) ==
  {c \in commands : c.actor = q.actor /\ c.kind = q.kind /\ OperationKey(c) = OperationKey(q)}

Answers(q, outcome) ==
  /\ wire' = wire \ {q}
  /\ IF Waiting(q.actor) /\ q \in importer[q.actor].waits
     THEN Turns(q.actor, [importer[q.actor] EXCEPT !.answer = outcome])
     ELSE UNCHANGED importer

Replay(q) ==
  /\ Earlier(q) # {}
  /\ Answers(q, IF \E c \in Earlier(q) : Payload(c) = Payload(q) THEN "stored" ELSE "reused")
  /\ UNCHANGED server

TakeIn(q) ==
  received' = IF q.quantity = 0 THEN received
              ELSE [received EXCEPT ![q.code][q.place] = @ + q.quantity]

CreateProduct(q) ==
  /\ q.kind = "product.create"
  /\ Earlier(q) = {}
  /\ IF \E product \in created : product.code = q.code
     THEN Answers(q, "duplicate") /\ UNCHANGED server
     ELSE /\ Answers(q, "stored")
          /\ created' = created \cup {[code |-> q.code, actor |-> q.actor, file |-> q.file]}
          /\ commands' = commands \cup {q}
          /\ TakeIn(q)

CreateReceipt(q) ==
  /\ q.kind = "receipt.create"
  /\ Earlier(q) = {}
  /\ Answers(q, "stored")
  /\ commands' = commands \cup {q}
  /\ TakeIn(q)
  /\ UNCHANGED created

\* Lost on the way, refused, or rolled back.
LoseRequest(q) ==
  /\ wire' = wire \ {q}
  /\ UNCHANGED <<importer, server>>

ImportInit ==
  /\ importer = [a \in Actor |-> NewPage]
  /\ wire = {} /\ commands = {} /\ created = {}
  /\ received = [c \in Code |-> [p \in Column |-> 0]]

ImportNext ==
  \/ \E a \in Actor :
       \/ \E f \in File : SelectFile(a, f)
       \/ StartImport(a) \/ Unprepared(a) \/ SendRequest(a) \/ Hear(a) \/ GiveUp(a)
       \/ ReloadPage(a)
  \/ \E q \in wire : Replay(q) \/ CreateProduct(q) \/ CreateReceipt(q) \/ LoseRequest(q)

ImportSpec == ImportInit /\ [][ImportNext]_uploaded

-----------------------------------------------------------------------------
\* "The same workbook cannot add its opening stock twice": whatever was lost,
\* repeated or late, and whoever imported the file besides, a warehouse holds
\* nothing of a product or exactly what the file that created it counts.
CountedOnce ==
  \A c \in Code, p \in Column :
    received[c][p] # 0 =>
      \E product \in created :
        product.code = c /\ received[c][p] = CountOf(RowWith(product.file, c), p)

\* "An exact-file retry is safe": the actor who created a product from a file
\* is never refused when importing that file again.
OwnFileAccepted ==
  \A a \in Actor :
    Waiting(a) /\ importer[a].answer \in {"duplicate", "reused"} =>
      \A q \in importer[a].waits :
        [code |-> q.code, actor |-> a, file |-> importer[a].file] \notin created

\* An import that ends without an error has stored every count of its sheet,
\* those in warehouses after the first included.
NoErrorMeansStored ==
  \A a \in Actor :
    importer[a].state = "complete" /\ importer[a].errors = {} =>
      \A i \in RowsOf[importer[a].file], p \in Column :
        LET row == Sheet[importer[a].file][i]
        IN  received[row.code][p] = CountOf(row, p)

\* The counted workbook is imported as counted.
ImportedAsCounted == CountedOnce /\ OwnFileAccepted /\ NoErrorMeansStored
=============================================================================
