------------------------------- MODULE ReadViews -------------------------------
(***************************************************************************)
(* The screens of src/apps/web that read the API and show the answer.      *)
(*                                                                         *)
(* A screen asks again whenever its filters, its page or its reload count  *)
(* change: the effect that reads is cleaned up, which silences what it had *)
(* under way, and runs once more.  Answers arrive in any order and some    *)
(* never do.  Screens differ in when they take the previous answer and the *)
(* previous error off the page, and in a few handlers of their own.        *)
(***************************************************************************)
EXTENDS Naturals, FiniteSets

CONSTANTS
  Screen,   \* the screens of this instance, among those of ViewPolicy
  Filter,   \* what the fields of a screen may ask for
  Page,     \* the pages of a list, from 1
  MaxSent,  \* bounds the requests of a screen
  MaxReload \* bounds how often the same question is asked again

VARIABLES
  view,     \* the screen the browser shows, or NoView
  reads,    \* reads under way: [question, live, guarded]
  sent      \* requests sent by the screen

viewVars == <<view, reads, sent>>

NoView == [screen |-> "none"]
Unfiltered == CHOOSE f \in Filter : TRUE
Nothing == [filter |-> "nothing", page |-> 0, reload |-> 0]

(***************************************************************************)
(* The screens.  asks: what the user changes.  timed: a timer runs before  *)
(* the read.  hides and forgives: the moment the old rows, or the old      *)
(* error, leave the page.  turns: the same for the rows when only the page *)
(* changes.  heads: the heading tells counts or totals of the answer, from *)
(* the state that only the next answer replaces.  again: when the same     *)
(* question is asked once more.                                            *)
(***************************************************************************)
List == [asks |-> {"filter", "page"}, timed |-> TRUE, hides |-> "asked",
         turns |-> "asked", forgives |-> "asked", heads |-> TRUE,
         again |-> "always", own |-> {}]

SalesView == List
MovementView == List
FinancesList == List
ClosingsList == List
InventoryView == List
Catalog == [List EXCEPT !.own = {"clear"}]

Detail == [List EXCEPT !.asks = {}, !.again = "failed"]
SaleDetail == Detail
ClosingView == Detail
ProductView == [Detail EXCEPT !.heads = FALSE]
Home == [ProductView EXCEPT !.again = "never"]

Unheaded == [List EXCEPT !.heads = FALSE]
Analytics == [Unheaded EXCEPT !.asks = {"filter"}]
Reports == [Unheaded EXCEPT !.turns = "answered", !.own = {"tab"}]
Counts == [Unheaded EXCEPT !.timed = FALSE, !.turns = "answered", !.again = "failed"]

ProductPicker == [Unheaded EXCEPT !.hides = "sent", !.turns = "sent",
                                  !.forgives = "sent", !.again = "failed"]
PendingValuations == [ProductPicker EXCEPT !.again = "always"]
ReceiptHistory == [ProductPicker EXCEPT !.asks = {"page"}]
Users == [Unheaded EXCEPT !.asks = {"filter"}, !.hides = "answered", !.forgives = "sent"]

Standing == [ProductView EXCEPT !.timed = FALSE, !.hides = "answered"]
CountDetail == [Standing EXCEPT !.again = "always"]
OperationalPending == Standing
UserAccess == [Standing EXCEPT !.again = "never"]
ApiStatus == UserAccess
ProductFormView == [Standing EXCEPT !.forgives = "answered"]
Integrations == [ProductFormView EXCEPT !.again = "always"]

Picked == [Unheaded EXCEPT !.asks = {"filter"}, !.timed = FALSE, !.again = "never"]
TransferDialog == Picked
AdjustmentPage == [Picked EXCEPT !.own = {"refetch"}]
ReceiptEditor == [Picked EXCEPT !.hides = "answered", !.again = "always",
                                !.own = {"companion", "matches"}]

ViewPolicy ==
  [sales |-> SalesView, movements |-> MovementView, finances |-> FinancesList,
   closings |-> ClosingsList, inventory |-> InventoryView, catalog |-> Catalog,
   sale |-> SaleDetail, closing |-> ClosingView, product |-> ProductView,
   analytics |-> Analytics, home |-> Home, reports |-> Reports, counts |-> Counts,
   picker |-> ProductPicker, valuations |-> PendingValuations,
   receipts |-> ReceiptHistory, users |-> Users, count |-> CountDetail,
   pending |-> OperationalPending, access |-> UserAccess, status |-> ApiStatus,
   form |-> ProductFormView, integrations |-> Integrations,
   transfer |-> TransferDialog, adjustment |-> AdjustmentPage,
   receipt |-> ReceiptEditor]

\* Pages are counted from 1, and the fields of a screen always ask for something.
ASSUME QuestionAssumption == Page \subseteq Nat \ {0} /\ Filter # {}

\* Every screen behaves as one of this instance does.
ASSUME ScreenAssumption ==
  /\ Screen \subseteq DOMAIN ViewPolicy
  /\ \A s \in DOMAIN ViewPolicy : \E t \in Screen : ViewPolicy[t] = ViewPolicy[s]

-----------------------------------------------------------------------------
Does(v) == ViewPolicy[v.screen]
Mounted == view # NoView
BlankAt(moment, now, value) == IF moment = now THEN Nothing ELSE value

ReadOf(question, guarded) == [question |-> question, live |-> TRUE, guarded |-> guarded]

(* The effect: its cleanup and, at once or by a timer, the new read.           *)

\* controller.abort(), or current = false: what was asked is no longer heard.
KeepListening(rs) == rs

Silence(rs) == {[r EXCEPT !.live = r.live /\ ~r.guarded] : r \in rs}

Restart(question, hides) ==
  LET p == Does(view)
      asked == [view EXCEPT !.asked = question,
                            !.rows = BlankAt(hides, "asked", @),
                            !.error = BlankAt(p.forgives, "asked", @)]
  IN  /\ view' = [asked EXCEPT !.timer = IF p.timed THEN question ELSE Nothing]
      /\ reads' = Silence(reads)
                    \cup (IF p.timed THEN {} ELSE {ReadOf(question, TRUE)})
      /\ sent' = IF p.timed THEN sent ELSE sent + 1

CanSend == sent < MaxSent

(* Mounting a screen runs its effect for the first time; leaving it cleans up. *)
Mount(s) ==
  /\ ~Mounted
  /\ LET first == [filter |-> Unfiltered, page |-> 1, reload |-> 0]
         p == ViewPolicy[s]
     IN  /\ view' = [screen |-> s, asked |-> first, rows |-> Nothing, error |-> Nothing,
                     heading |-> Nothing,
                     timer |-> IF p.timed THEN first ELSE Nothing,
                     companion |-> "companion" \in p.own]
         /\ reads' = IF p.timed THEN {} ELSE {ReadOf(first, TRUE)}
         /\ sent' = IF p.timed THEN 0 ELSE 1

LeaveView == Mounted /\ view' = NoView /\ reads' = {} /\ sent' = 0

(* Other filters start at the first page.                                      *)
Ask(f) ==
  /\ Mounted
  /\ CanSend
  /\ "filter" \in Does(view).asks
  /\ f # view.asked.filter
  /\ Restart([view.asked EXCEPT !.filter = f, !.page = 1], Does(view).hides)

\* The buttons of a list stand beside its rows.
Listed == view.rows # Nothing /\ view.error = Nothing

Turn(p) ==
  /\ Mounted
  /\ CanSend
  /\ "page" \in Does(view).asks
  /\ Listed
  /\ p # view.asked.page
  /\ Restart([view.asked EXCEPT !.page = p], Does(view).turns)

(* Retrying, submitting the same filters, or a command that changed the data.  *)
Again ==
  /\ Mounted
  /\ CanSend
  /\ view.asked.reload < MaxReload
  /\ Does(view).again # "never"
  /\ Does(view).again = "failed" => view.error # Nothing
  /\ Restart([view.asked EXCEPT !.reload = @ + 1], Does(view).hides)

(* The timer of the effect: some screens are emptied only now.                 *)
Fire ==
  /\ Mounted
  /\ view.timer # Nothing
  /\ LET p == Does(view)
     IN  view' = [view EXCEPT !.timer = Nothing,
                              !.rows = BlankAt(p.hides, "sent", @),
                              !.error = BlankAt(p.forgives, "sent", @)]
  /\ reads' = reads \cup {ReadOf(view.timer, TRUE)}
  /\ sent' = sent + 1

(* What arrives for a read nobody hears any more changes nothing.              *)
AnswerRead(r) ==
  /\ reads' = reads \ {r}
  /\ view' = IF r.live
             THEN [view EXCEPT !.rows = r.question,
                               !.heading = IF Does(view).heads THEN r.question ELSE @,
                               !.error = BlankAt(Does(view).forgives, "answered", @)]
             ELSE view
  /\ UNCHANGED sent

FailRead(r) ==
  /\ reads' = reads \ {r}
  /\ view' = IF r.live /\ r.guarded THEN [view EXCEPT !.error = r.question] ELSE view
  /\ UNCHANGED sent

-----------------------------------------------------------------------------
(* Handlers of single screens.                                                 *)

(* Reports: the tab that is already open; the catalogue: clearing filters that *)
(* are already clear.  The page shows that it loads, and nothing is asked.     *)
IdleHandler ==
  /\ Mounted
  /\ view.asked.page = 1
  /\ \/ "tab" \in Does(view).own
     \/ "clear" \in Does(view).own /\ Listed /\ view.asked.filter # Unfiltered
  /\ view' = [view EXCEPT !.rows = Nothing, !.error = Nothing]
  /\ UNCHANGED <<reads, sent>>

(* The adjustment page reads the product once more after an adjustment, apart  *)
(* from its effect, so nothing ever silences that read.                        *)
Refetch ==
  /\ Mounted
  /\ CanSend
  /\ "refetch" \in Does(view).own
  /\ Listed
  /\ reads' = reads \cup {ReadOf(view.asked, FALSE)}
  /\ sent' = sent + 1
  /\ UNCHANGED view

(* The receipt form reads its warehouses by another effect, which clears the   *)
(* error both share.                                                           *)
Companion ==
  /\ Mounted
  /\ view.companion
  /\ \E ok \in BOOLEAN :
       view' = [view EXCEPT !.companion = FALSE,
                            !.error = IF ok THEN Nothing ELSE view.asked]
  /\ UNCHANGED <<reads, sent>>

ViewsInit == view = NoView /\ reads = {} /\ sent = 0

ViewsNext ==
  \/ \E s \in Screen : Mount(s)
  \/ LeaveView
  \/ \E f \in Filter : Ask(f)
  \/ \E p \in Page : Turn(p)
  \/ Again
  \/ Fire
  \/ \E r \in reads : AnswerRead(r) \/ FailRead(r)
  \/ IdleHandler
  \/ Refetch
  \/ Companion

ViewsSpec == ViewsInit /\ [][ViewsNext]_viewVars

-----------------------------------------------------------------------------
\* The receipt form compares the product of the rows with the one picked.
Shown ==
  IF "matches" \in Does(view).own /\ view.rows.filter # view.asked.filter
  THEN Nothing ELSE view.rows

Quiet ==
  /\ view.timer = Nothing
  /\ ~view.companion
  /\ \A r \in reads : ~r.live

(* Once nothing is under way a screen shows the answer to what is asked now,   *)
(* read after the last command, or the failure of that very question: never an *)
(* older answer that arrived late, and never an endless notice of loading.     *)
(* Idle handlers may leave that notice behind, but no older answer.            *)
SettledOnTheQuestion ==
  Mounted /\ Quiet =>
    /\ Does(view).own = {} => view.asked \in {Shown, view.error}
    /\ Does(view).own \cap {"tab", "clear"} # {} => Shown \in {view.asked, Nothing}
                                                   \/ view.error = view.asked

(* The body of a screen that blanks its rows as it asks shows no rows of       *)
(* another question, not even for a moment; turning a page of Reports and      *)
(* Counts is the exception and keeps the filters.  The heading is no part of   *)
(* this: see below.                                                            *)
NoRowsOfAnotherQuestion ==
  /\ Mounted
  /\ Does(view).hides = "asked"
  /\ "refetch" \notin Does(view).own
  /\ Shown # Nothing
  => /\ Shown.filter = view.asked.filter
     /\ Does(view).turns = "asked" => Shown = view.asked

(* The counts and totals of a heading are those of the rows below it whenever  *)
(* rows are shown, and once nothing is under way they are of the question that *)
(* is asked, unless that question failed: from the moment another question is  *)
(* asked until its answer, and after its failure, the heading still tells what *)
(* the previous question was answered.                                         *)
HeadingOfTheRows ==
  Mounted /\ Does(view).heads =>
    /\ Shown # Nothing => view.heading = Shown
    /\ Quiet /\ view.error = Nothing => view.heading = view.asked

(* The receipt form never previews the stock of another product.               *)
PreviewOfThePicked ==
  Mounted /\ "matches" \in Does(view).own /\ Shown # Nothing
    => Shown.filter = view.asked.filter

\* Screens answer what is asked.
ScreensAnswer ==
  /\ SettledOnTheQuestion
  /\ NoRowsOfAnotherQuestion
  /\ HeadingOfTheRows
  /\ PreviewOfThePicked
=============================================================================
