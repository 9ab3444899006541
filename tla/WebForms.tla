------------------------------- MODULE WebForms -------------------------------
(* The forms of src/apps/web that send one command of the API under an        *)
(* idempotency key, over a network that may delay or lose what is sent.        *)
(*                                                                             *)
(* The browser shows one form at a time.  A form is submitted, answered or     *)
(* given up on, and submitted again; the forms differ in what an edit or a     *)
(* refusal does to the key, in whether the fields are locked while the result  *)
(* is unknown, and in whether a later refusal ends that uncertainty.  The API  *)
(* keeps the key of every command it made: the same key and content answer the *)
(* first result, the same key with other content is refused.                   *)
EXTENDS Naturals, Sequences, FiniteSets

CONSTANTS
  Kind,         \* the forms of this instance, among those of FormPolicy
  Draft,        \* what the fields may hold
  Line,         \* what a form may be about: the lines of a count
  MaxFormEdits, \* bound on the edits of a form
  MaxOpenings,  \* bound on the forms opened
  MaxPicks,     \* bound on the lines picked under a mounted form
  MaxRequests   \* bound on the requests sent

VARIABLES
  form,      \* the form on the screen, or Closed
  requests,  \* every request sent, in order
  effects,   \* the commands the API made, in order
  openings   \* forms opened, and lines picked, so far

formVars == <<form, requests, effects, openings>>

Closed == [kind |-> "none"]

(***************************************************************************)
(* The forms.  editRenews: an edit draws a new key.  locks: the fields are *)
(* disabled while a request runs or its result is unknown.  sticky: only a *)
(* success ends that uncertainty.  refusalRenews: a refusal that ends the  *)
(* attempt draws a new key.                                                *)
(***************************************************************************)
SaleFormRenewedByRefusal == [editRenews |-> TRUE, locks |-> FALSE,
                            sticky |-> FALSE, refusalRenews |-> TRUE]

\* Those of transfers and entries lock their fields while a request runs, and so
\* do less than this.
SaleForm == [editRenews |-> TRUE, locks |-> FALSE,
             sticky |-> FALSE, refusalRenews |-> FALSE]
TransferForm == SaleForm
EntryForm == SaleForm
ClosingForm == SaleForm

ReopenForm == [editRenews |-> FALSE, locks |-> FALSE,
               sticky |-> FALSE, refusalRenews |-> FALSE]
LifecycleForm == ReopenForm

AdjustmentForm == [editRenews |-> FALSE, locks |-> TRUE,
                   sticky |-> FALSE, refusalRenews |-> FALSE]
CorrectionForm == [AdjustmentForm EXCEPT !.refusalRenews = TRUE]

StockMutation == [editRenews |-> FALSE, locks |-> TRUE,
                  sticky |-> TRUE, refusalRenews |-> TRUE]
ReceiptForm == StockMutation
ProductForm == StockMutation
ValuationForm == StockMutation
CountForm == StockMutation

PaymentForm == [StockMutation EXCEPT !.refusalRenews = FALSE]
DuplicateForm == PaymentForm

FormPolicy ==
  [sale |-> SaleForm, transfer |-> TransferForm, entry |-> EntryForm,
   closing |-> ClosingForm, reopen |-> ReopenForm,
   lifecycle |-> LifecycleForm, adjustment |-> AdjustmentForm,
   correction |-> CorrectionForm, receipt |-> ReceiptForm,
   product |-> ProductForm, valuation |-> ValuationForm,
   count |-> CountForm, payment |-> PaymentForm,
   duplicate |-> DuplicateForm]

(* Every form behaves as one of this instance does.                            *)
ASSUME KindAssumption ==
  /\ Kind \subseteq DOMAIN FormPolicy
  /\ \A k \in DOMAIN FormPolicy : \E j \in Kind : FormPolicy[j] = FormPolicy[k]

(* A key never sent before: keys drawn and thrown away unsent are the same.     *)
FreshKey == Len(requests) + 1

Ready(f) == f # Closed /\ ~f.done /\ f.waits = 0

\* A submission of this form may wait for a token while the fields stay open.
MayFetch(k) == {b \in BOOLEAN : b => ~FormPolicy[k].locks}

(***************************************************************************)
(* Opening a form mounts it with a fresh key.  Leaving it, by closing the  *)
(* dialog or by navigating, forgets it whatever is still under way.  The   *)
(* tab may have no token yet: then the first submission fetches one, and   *)
(* what it has read by then waits in begun.                                *)
(***************************************************************************)
OpenForm(k, d, l, fetches) ==
  /\ form = Closed
  /\ openings < MaxOpenings
  /\ form' = [kind |-> k, opening |-> openings + 1, line |-> l, draft |-> d, edits |-> 0,
              key |-> FreshKey, held |-> {}, fetches |-> fetches, begun |-> {},
              waits |-> 0, uncertain |-> FALSE, seen |-> Len(effects), done |-> FALSE]
  /\ openings' = openings + 1
  /\ UNCHANGED <<requests, effects>>

(***************************************************************************)
(* "Corregir" on a line puts it under the mounted correction, which has no *)
(* React key: the fields, the key, the request it waits for and the doubt  *)
(* about it stay.  The line is shown as it was when the page was loaded.   *)
(***************************************************************************)
PickLine(l, seen) ==
  /\ form # Closed /\ form.kind = "correction" /\ ~form.done
  /\ openings < MaxOpenings + MaxPicks
  /\ form' = [form EXCEPT !.line = l, !.seen = seen, !.opening = openings + 1]
  /\ openings' = openings + 1
  /\ UNCHANGED <<requests, effects>>

LeaveForm == form # Closed /\ form' = Closed /\ UNCHANGED <<requests, effects, openings>>

Editable(f) ==
  FormPolicy[f.kind].locks => (f.waits = 0 /\ ~f.uncertain)

Changed(f, d, key) ==
  [f EXCEPT !.draft = d, !.edits = @ + 1, !.key = key]

(* changeIntent: in the forms where an edit is a new intent, a new key.        *)
EditForm(d) ==
  /\ form # Closed
  /\ ~form.done
  /\ d # form.draft
  /\ form.edits < MaxFormEdits
  /\ Editable(form)
  /\ IF FormPolicy[form.kind].editRenews
     THEN form' = Changed(form, d, FreshKey)
     ELSE form' = Changed(form, d, form.key)
  /\ UNCHANGED <<requests, effects, openings>>

(* The category created from inside the product form is selected when its own  *)
(* answer arrives, even if the product has been sent meanwhile.                 *)
CategoryArrives(d) ==
  /\ form # Closed
  /\ form.kind = "product"
  /\ ~form.done
  /\ d # form.draft
  /\ form.edits < MaxFormEdits
  /\ form' = Changed(form, d, form.key)
  /\ UNCHANGED <<requests, effects, openings>>

(***************************************************************************)
(* Submitting.  The forms that keep the attempt send it again as it was    *)
(* first sent; the others send what the fields hold.                       *)
(***************************************************************************)
Payload(f) ==
  IF f.held # {} THEN CHOOSE d \in f.held : TRUE ELSE f.draft

Attempt(f) ==
  [f EXCEPT !.held = IF FormPolicy[f.kind].sticky THEN {Payload(f)} ELSE {}]

Content(f) == [draft |-> Payload(f), edits |-> f.edits]

(* The content is read before the token is asked for.  In a form with locked   *)
(* fields nothing but the line can change until it is there, and what is sent  *)
(* is about the line it was read with: there it is as if it were at hand.      *)
FetchToken ==
  /\ Ready(form) /\ form.fetches /\ form.begun = {}
  /\ form' = [form EXCEPT !.begun = {Content(form)}]
  /\ UNCHANGED <<requests, effects, openings>>

(* The key is read when the token is there, and is then that of the last edit. *)
Submit ==
  /\ Ready(form)
  /\ form.fetches => form.begun # {}
  /\ Len(requests) < MaxRequests
  /\ LET content == IF form.begun = {} THEN Content(form)
                    ELSE CHOOSE c \in form.begun : TRUE
     IN  requests' = Append(requests,
           [key |-> form.key, draft |-> content.draft, opening |-> form.opening,
            intent |-> <<form.opening, content.edits>>, kind |-> form.kind,
            line |-> form.line, seen |-> form.seen, outcome |-> "sent", unknown |-> FALSE])
  /\ form' = [Attempt(form) EXCEPT !.waits = Len(requests) + 1,
                                   !.fetches = FALSE, !.begun = {}]
  /\ UNCHANGED <<effects, openings>>

(* What an error leaves of the form: `unknown` when no definite 4xx came back.  *)
Failed(f, unknown) ==
  LET policy == FormPolicy[f.kind]
      still == unknown \/ (policy.sticky /\ f.uncertain)
  IN  [f EXCEPT !.waits = 0,
                !.begun = {},
                !.uncertain = policy.locks /\ still,
                !.held = IF still THEN @ ELSE {},
                !.key = IF policy.refusalRenews /\ ~still THEN FreshKey ELSE @]

(* getCsrfToken fails before anything is sent: refused, or unreachable.        *)
CsrfFails(unknown) ==
  /\ Ready(form)
  /\ form' = Failed(Attempt(form), unknown)
  /\ form' # form
  /\ UNCHANGED <<requests, effects, openings>>

(***************************************************************************)
(* The API.  A request may be served long after the browser gave up on it, *)
(* or never.                                                               *)
(***************************************************************************)
Known(r) == {i \in 1..Len(effects) : effects[i].key = r.key}

(* A count line is corrected only at the version the form shows it at.         *)
Corrects(e, l) == effects[e].kind = "correction" /\ effects[e].line = l

Current(r) ==
  r.kind = "correction" => \A e \in r.seen + 1 .. Len(effects) : ~Corrects(e, r.line)

SameCommand(e, r) == effects[e].draft = r.draft /\ effects[e].line = r.line

Answers(i, outcome) ==
  requests' = [requests EXCEPT ![i].outcome = outcome]

Make(i) ==
  /\ requests[i].outcome = "sent"
  /\ Known(requests[i]) = {}
  /\ Current(requests[i])
  /\ effects' = Append(effects, requests[i])
  /\ Answers(i, "made")
  /\ UNCHANGED <<form, openings>>

Replay(i) ==
  /\ requests[i].outcome = "sent"
  /\ \E e \in Known(requests[i]) :
       Answers(i, IF SameCommand(e, requests[i]) THEN "made" ELSE "refused")
  /\ UNCHANGED <<form, effects, openings>>

(* Any check of the API may refuse a command it has not made: nothing is kept. *)
RefuseCommand(i) ==
  /\ requests[i].outcome = "sent"
  /\ Known(requests[i]) = {}
  /\ Answers(i, "refused")
  /\ UNCHANGED <<form, effects, openings>>

(***************************************************************************)
(* The answer reaches the form that waits for it, or the browser gives up: *)
(* a lost connection, a 5xx, an unreadable body.                           *)
(***************************************************************************)
Waiting(i) == form # Closed /\ form.waits = i

Receive(i) ==
  /\ Waiting(i)
  /\ \/ /\ requests[i].outcome = "made"
        /\ form' = [form EXCEPT !.waits = 0, !.done = TRUE, !.uncertain = FALSE]
     \/ /\ requests[i].outcome = "refused"
        /\ form' = Failed(form, FALSE)
  /\ UNCHANGED <<requests, effects, openings>>

GiveUp(i) ==
  /\ Waiting(i)
  /\ form' = Failed(form, TRUE)
  /\ requests' = [requests EXCEPT ![i].unknown = TRUE]
  /\ UNCHANGED <<effects, openings>>

FormsInit ==
  /\ form = Closed
  /\ requests = <<>>
  /\ effects = <<>>
  /\ openings = 0

FormsNext ==
  \/ \E k \in Kind, d \in Draft, l \in Line : \E fetches \in MayFetch(k) :
       OpenForm(k, d, l, fetches)
  \/ form # Closed /\ \E l \in Line, seen \in form.seen .. Len(effects) : PickLine(l, seen)
  \/ LeaveForm
  \/ \E d \in Draft : EditForm(d)
  \/ \E d \in Draft : CategoryArrives(d)
  \/ FetchToken
  \/ Submit
  \/ \E unknown \in BOOLEAN : CsrfFails(unknown)
  \/ \E i \in 1..Len(requests) : Make(i)
  \/ \E i \in 1..Len(requests) : Replay(i)
  \/ \E i \in 1..Len(requests) : RefuseCommand(i)
  \/ \E i \in 1..Len(requests) : Receive(i)
  \/ \E i \in 1..Len(requests) : GiveUp(i)

FormsSpec == FormsInit /\ [][FormsNext]_formVars

-----------------------------------------------------------------------------
(* One intent, that is one form with its fields unchanged, is made at most     *)
(* once however often it is sent: create-sale-dialog.tsx renews the key on an  *)
(* edit and on nothing else.  Content read before an edit may be sent with the *)
(* key drawn by it, while a token is fetched, but only before that content was *)
(* sent with any other.                                                        *)
OneEffectPerIntent ==
  \A i, j \in 1..Len(effects) :
    effects[i].intent = effects[j].intent => i = j

(* Every form but those that renew the key on an edit acts at most once from   *)
(* its opening to its success, edits, refusals and late requests included:     *)
(* "Reintentar sin duplicar" (use-stock-mutation.ts, the payment panel, the    *)
(* duplicate panel, the adjustment dialog and the count correction).  Picking  *)
(* another line under a correction opens it for that line: the one before may  *)
(* still be corrected by what was sent for it, once, and what was typed for it *)
(* stays in the fields and may then be sent for the other.                     *)
KeptFormsActOnce ==
  \A i, j \in 1..Len(effects) :
    /\ ~FormPolicy[effects[i].kind].editRenews
    /\ effects[i].opening = effects[j].opening
    => i = j

(* A form that keeps its attempt and shows its fields unlocked has nothing     *)
(* pending: none of its requests was made, and none can still be (ADR-022:     *)
(* a later refusal does not erase the uncertainty of the first submission).    *)
UnlockedMeansNothingPending ==
  /\ Ready(form)
  /\ FormPolicy[form.kind].sticky
  /\ ~form.uncertain
  => \A i \in 1..Len(requests) :
       requests[i].opening = form.opening => requests[i].outcome = "refused"

(* A form acts once: for each intent, or from its opening on; and it shows its *)
(* fields only when nothing of it is pending.                                  *)
FormsActOnce == OneEffectPerIntent /\ KeptFormsActOnce /\ UnlockedMeansNothingPending
=============================================================================
