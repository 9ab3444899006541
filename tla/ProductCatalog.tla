---------------------------- MODULE ProductCatalog ----------------------------
(***************************************************************************)
(* The sheets of products and the categories: people who create and edit   *)
(* them in the browser, the transactions of the API that save them, and    *)
(* the stock documents that meanwhile give a product its history.          *)
(*                                                                         *)
(* A form keeps what it read when it was opened, and may be left while     *)
(* what it sent is still being saved.  A transaction reads at READ         *)
(* COMMITTED; what it may rely on is what its locks keep still: the row of *)
(* the product, and the advisory lock of the code it is about to give.     *)
(***************************************************************************)
EXTENDS Naturals, Sequences

CONSTANTS
  Product,    \* the ids products may get
  Label,      \* codes of products and of categories, normalised
  Unit,       \* units of measure
  Usual,      \* the unit a new form has selected
  Text,       \* what the other fields may hold
  Blank,      \* an empty field, no product, no job
  Person,
  Job,        \* transactions of the API that save a product or a category
  Document,   \* transactions that move the stock of products or count it
  MaxForms,   \* bound on the forms opened
  MaxTyped,   \* bound on what is typed into them
  MaxChanges  \* bound on the changes of permissions

\* The bounds are numbers, and nothing is not a thing.
ASSUME CatalogAssumption ==
  /\ MaxForms \in Nat /\ MaxTyped \in Nat /\ MaxChanges \in Nat
  /\ Usual \in Unit
  /\ Blank \notin Product \cup Label \cup Unit \cup Text \cup Job

VARIABLES
  sheet,      \* sheet[p]: the row of product p, or Missing
  categories, \* the codes of the categories, in the order of their creation
  used,       \* products with a balance, a movement or a count line
  moving,     \* moving[d]: the products document d has written about so far
  entitled,   \* who may edit the specifications
  editor,     \* editor[w]: the form person w has on the screen
  saving,     \* saving[j]: the transaction under way
  spent       \* spent[b]: how much of bound b was used

tables == <<sheet, categories, used>>
catalogVars == <<tables, moving, entitled, editor, saving, spent>>

\* name stands for the other fields whoever manages products may change, Blank as
\* they were first; specs for the three that ask for a permission of their own;
\* stamp for updated_at, which every update of the row renews.
Field == {"code", "unit", "name", "specs"}
Missing == [code |-> Blank, unit |-> Blank, name |-> Blank, specs |-> Blank,
            stamp |-> 0]
IsSheet(row) == row # Missing

NoForm == [kind |-> "none", of |-> Blank, seen |-> Missing, draft |-> Missing,
           access |-> FALSE, sent |-> Blank]

\* could: its person has held the permission at some moment of the transaction.
NoJob == [kind |-> "none", stage |-> "none", of |-> Blank, by |-> Blank,
          seen |-> Missing, wants |-> Missing, sends |-> FALSE, could |-> FALSE]

Spends(bound, max) == spent[bound] < max /\ spent' = [spent EXCEPT ![bound] = @ + 1]

-----------------------------------------------------------------------------
(* The form of a product.                                                  *)

Shows(w, f) == editor' = [editor EXCEPT ![w] = f]

\* The form is filled from the row as it is, and offers the specifications to
\* whoever may edit them; it follows neither from then on.
Opens(w, f) ==
  /\ Spends("forms", MaxForms)
  /\ editor[w] = NoForm
  /\ Shows(w, [f EXCEPT !.access = w \in entitled])
  /\ UNCHANGED <<tables, moving, entitled, saving>>

OpenSheet(w, p) ==
  /\ IsSheet(sheet[p])
  /\ Opens(w, [NoForm EXCEPT !.kind = "edit", !.of = p, !.seen = sheet[p], !.draft = sheet[p]])

\* A new product, its code typed.
OpenNew(w, c) ==
  Opens(w, [NoForm EXCEPT !.kind = "new", !.draft.code = c, !.draft.unit = Usual])

Values(f) ==
  CASE f = "code" -> Label [] f = "unit" -> Unit [] f = "name" -> Text
    [] f = "specs" -> Text \cup {Blank}

\* The fields are disabled while the form waits for an answer.  That the form of
\* a product with balances shows code and unit read-only is left out: balances may
\* come later, and Freezes decides.
TypeField(w, f, v) ==
  /\ Spends("typed", MaxTyped)
  /\ editor[w].kind # "none" /\ editor[w].sent = Blank
  /\ f = "specs" => editor[w].access
  /\ v # editor[w].draft[f]
  /\ Shows(w, [editor[w] EXCEPT !.draft[f] = v])
  /\ UNCHANGED <<tables, moving, entitled, saving>>

\* The specifications are sent only by who may edit them, as the form read it.
Send(w, j) ==
  /\ editor[w].kind # "none" /\ editor[w].sent = Blank
  /\ saving[j] = NoJob
  /\ saving' = [saving EXCEPT ![j] =
       [NoJob EXCEPT !.kind = editor[w].kind, !.stage = "begun", !.of = editor[w].of,
          !.by = w, !.seen = editor[w].seen, !.wants = editor[w].draft,
          !.sends = editor[w].access, !.could = w \in entitled]]
  /\ Shows(w, [editor[w] EXCEPT !.sent = j])
  /\ UNCHANGED <<tables, moving, entitled, spent>>

\* A category is created from inside a form, beside what the form sends.
SendCategory(w, j, c) ==
  /\ Spends("forms", MaxForms)
  /\ saving[j] = NoJob
  /\ saving' = [saving EXCEPT ![j] =
       [NoJob EXCEPT !.kind = "category", !.stage = "held", !.by = w, !.wants.code = c]]
  /\ UNCHANGED <<tables, moving, entitled, editor>>

LeaveSheet(w) ==
  /\ editor[w].kind # "none"
  /\ Shows(w, NoForm)
  /\ UNCHANGED <<tables, moving, entitled, saving, spent>>

-----------------------------------------------------------------------------
(* The transaction.  What it holds, it holds to its end.                   *)

HoldsRow(j, p) ==
  /\ saving[j].kind = "edit" /\ saving[j].of = p
  /\ saving[j].stage \in {"held", "checked"}

CodeLock(j) == <<saving[j].kind = "category", saving[j].wants.code>>

HoldsCode(j, lock) == saving[j].stage = "checked" /\ CodeLock(j) = lock

RowFree(p) ==
  /\ \A j \in Job : ~HoldsRow(j, p)
  /\ \A d \in Document : p \notin moving[d]

Reaches(j, stage) == saving' = [saving EXCEPT ![j].stage = stage]

\* A saved form is left for the page of its product, a refused one stays, as does
\* one whose answer decides nothing, which WebForms follows.  A form that gets no
\* answer can only be left.
Finish(j, saved) ==
  /\ saving' = [saving EXCEPT ![j] = NoJob]
  /\ editor' = [w \in Person |->
       IF editor[w].sent # j THEN editor[w]
       ELSE IF saved THEN NoForm ELSE [editor[w] EXCEPT !.sent = Blank]]

Refused(j) ==
  /\ Finish(j, FALSE)
  /\ UNCHANGED <<tables, moving, entitled, spent>>

Proceeds(j, stage) ==
  /\ Reaches(j, stage)
  /\ UNCHANGED <<tables, moving, entitled, editor, spent>>

\* What the row was, and what it becomes: specifications not sent are kept.
Before(j) == IF saving[j].kind = "edit" THEN sheet[saving[j].of] ELSE Missing

After(j) ==
  [saving[j].wants EXCEPT !.specs = IF saving[j].sends THEN @ ELSE Before(j).specs,
                          !.stamp = Before(j).stamp + 1]

AnyStamp(j) == TRUE
Expected(j) == Before(j).stamp = saving[j].wants.stamp

\* canEditProductSpecifications, asked only when they would change.
MayWrite(j) == After(j).specs # Before(j).specs => saving[j].by \in entitled

\* SELECT ... FOR UPDATE of the row an edit is of, and what is checked of it.
LockRow(j) ==
  /\ saving[j].stage = "begun"
  /\ saving[j].kind = "edit" => RowFree(saving[j].of)
  /\ IF Expected(j) /\ MayWrite(j) THEN Proceeds(j, "held") ELSE Refused(j)

CodeTaken(j) ==
  IF saving[j].kind = "category" THEN \E i \in 1 .. Len(categories) : categories[i] = After(j).code
  ELSE \E p \in Product \ {saving[j].of} : sheet[p].code = After(j).code

\* A product with history keeps its code and its unit.
Freezes(j) ==
  /\ saving[j].kind = "edit" /\ saving[j].of \in used
  /\ After(j).code # Before(j).code \/ After(j).unit # Before(j).unit

\* The advisory lock of the code, and what is read under it.
LockCode(j) ==
  /\ saving[j].stage = "held"
  /\ \A i \in Job : ~HoldsCode(i, CodeLock(j))
  /\ IF ~CodeTaken(j) /\ ~Freezes(j) THEN Proceeds(j, "checked") ELSE Refused(j)

\* The first receipt of a product, if any, is in the transaction that creates it.
SaveNew(j, p) ==
  /\ saving[j].kind = "new" /\ ~IsSheet(sheet[p])
  /\ sheet' = [sheet EXCEPT ![p] = After(j)]
  /\ used' \in {used, used \cup {p}}
  /\ UNCHANGED categories

SaveEdit(j) ==
  /\ saving[j].kind = "edit"
  /\ sheet' = [sheet EXCEPT ![saving[j].of] = After(j)]
  /\ UNCHANGED <<categories, used>>

SaveCategory(j) ==
  /\ saving[j].kind = "category"
  /\ categories' = Append(categories, After(j).code)
  /\ UNCHANGED <<sheet, used>>

Save(j) ==
  /\ saving[j].stage = "checked"
  /\ SaveEdit(j) \/ SaveCategory(j) \/ \E p \in Product : SaveNew(j, p)
  /\ Finish(j, TRUE)
  /\ UNCHANGED <<moving, entitled, spent>>

\* A field or a permission is refused, a lock is not had in time, the API stops.
Abandon(j) == saving[j] # NoJob /\ Refused(j)

-----------------------------------------------------------------------------
(* The documents of the stock, and the panel of permissions.               *)

\* The row of a movement, a balance or a line of a count refers to the product:
\* KEY SHARE, which waits for an edit; a sale and a receipt lock it FOR UPDATE.
WriteAbout(d, p) ==
  /\ IsSheet(sheet[p]) /\ p \notin moving[d]
  /\ \A j \in Job : ~HoldsRow(j, p)
  /\ moving' = [moving EXCEPT ![d] = @ \cup {p}]
  /\ UNCHANGED <<tables, entitled, editor, saving, spent>>

EndDocument(d) ==
  /\ moving[d] # {}
  /\ used' \in {used, used \cup moving[d]}
  /\ moving' = [moving EXCEPT ![d] = {}]
  /\ UNCHANGED <<sheet, categories, entitled, editor, saving, spent>>

ChangeAccess(w) ==
  /\ Spends("changes", MaxChanges)
  /\ entitled' = IF w \in entitled THEN entitled \ {w} ELSE entitled \cup {w}
  /\ saving' = [j \in Job |-> IF saving[j].by = w THEN [saving[j] EXCEPT !.could = TRUE]
                                                  ELSE saving[j]]
  /\ UNCHANGED <<tables, moving, editor>>

-----------------------------------------------------------------------------
\* A sheet as it was first written, by code, unit and specifications.
FirstSheets ==
  {[Missing EXCEPT !.code = x[1], !.unit = x[2], !.specs = x[3], !.stamp = 1] :
     x \in Label \X Unit \X Values("specs")}

CatalogInit ==
  /\ sheet \in [Product -> {Missing} \cup FirstSheets]
  /\ \A p, q \in Product : IsSheet(sheet[p]) /\ sheet[p].code = sheet[q].code => p = q
  /\ used \in SUBSET {p \in Product : IsSheet(sheet[p])}
  /\ categories = <<>>
  /\ moving = [d \in Document |-> {}]
  /\ entitled \in SUBSET Person
  /\ editor = [w \in Person |-> NoForm]
  /\ saving = [j \in Job |-> NoJob]
  /\ spent = [b \in {"forms", "typed", "changes"} |-> 0]

CatalogNext ==
  \/ \E w \in Person :
       \/ \E p \in Product : OpenSheet(w, p)
       \/ \E c \in Label : OpenNew(w, c)
       \/ \E f \in Field : \E v \in Values(f) : TypeField(w, f, v)
       \/ \E j \in Job : Send(w, j)
       \/ \E j \in Job, c \in Label : SendCategory(w, j, c)
       \/ LeaveSheet(w)
       \/ ChangeAccess(w)
  \/ \E j \in Job :
       LockRow(j) \/ LockCode(j) \/ Save(j) \/ Abandon(j)
  \/ \E d \in Document :
       \/ \E p \in Product : WriteAbout(d, p)
       \/ EndDocument(d)

CatalogSpec == CatalogInit /\ [][CatalogNext]_catalogVars

-----------------------------------------------------------------------------
\* A saved edit changes only the fields its person changed, from the row the
\* form showed: what somebody else saved meanwhile is not overwritten.
OthersKept ==
  \A p \in Product : IsSheet(sheet[p]) /\ sheet'[p] # sheet[p] =>
    \E j \in Job :
      /\ saving[j].of = p /\ saving'[j] = NoJob
      /\ \A f \in Field : sheet'[p][f] # sheet[p][f] =>
           sheet'[p][f] = saving[j].wants[f] /\ saving[j].wants[f] # saving[j].seen[f]

\* The code and the unit of a product stay as its documents knew them, those
\* not yet committed included.
HistoryKeepsUnit ==
  \A p \in Product : p \in used \/ (\E d \in Document : p \in moving[d]) =>
    sheet'[p].code = sheet[p].code /\ sheet'[p].unit = sheet[p].unit

\* Specifications are written by a transaction whose person held the permission
\* at some moment of it, whatever the form was shown before.
SpecsByEntitled ==
  \A p \in Product : sheet'[p].specs # sheet[p].specs =>
    \E j \in Job : saving[j].could /\ saving[j].wants.specs = sheet'[p].specs /\ saving'[j] = NoJob

\* No two products and no two categories get one code: the unique indexes, which
\* would make a transaction fail, are never reached.
CodesDistinct ==
  /\ \A p, q \in Product : IsSheet(sheet[p]) /\ sheet[p].code = sheet[q].code => p = q
  /\ \A i, k \in 1 .. Len(categories) : categories[i] = categories[k] => i = k

\* What the catalogue promises of every step (ProductWriteService, and the form
\* that sends expectedUpdatedAt).
CatalogKept ==
  [][OthersKept /\ HistoryKeepsUnit /\ SpecsByEntitled /\ CodesDistinct']_catalogVars
=============================================================================
