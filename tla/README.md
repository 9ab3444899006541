# Verification of the inventory, sales and accounts system

The repository is a business system: a NestJS API (`apps/api`) over one
PostgreSQL database (`packages/database`), a web client (`apps/web`), an Alexa
skill (`packages/alexa-adapter`) and offline tools that import the old workbook
(`packages/legacy-importer`). All durable state is in the database: several API
processes run short transactions, `ReadCommitted` with row and advisory locks
for sales and stock, `Serializable` for accounts and roles.
Around it are clients that lose answers, keep what they read on the screen and
ask again. These modules describe what each part does to the state it shares,
check it with TLC on small instances, and prove the main facts with TLAPS for
instances of any size.

## Inventory

| Component | State | Operations | What is hard | What makes it correct |
|---|---|---|---|---|
| Sales (`api/sales`) | `sales`, `sale_items`, payments, confirmations, cancellations | create, record payment, confirm, cancel, void a paid duplicate | retries with one key, several commands on one sale, stock read before it is written, two rows per correction, lines that name one pair twice | stock leaves once and returns once, documents agree with the status, one payment counts for one sale, lines and movements add up |
| Closings (`api/finances`) | `daily_closings`, reopenings | close a day, reopen | figures are read while sales go on | a closing never counts a sale that is later voided, and is frozen |
| Financial entries (`api/finances`) | entries, categories | post an entry, list, total | a retry meets its first attempt half done; pages are separate queries | a retry finds its entry, the pages add up to the totals |
| Inventory commands (`api/inventory`) | `inventory_balances`, `inventory_movements`, transfers, `inventory_commands` | adjust, transfer | lock order, retries, balances created on the fly | quantity and movement change together, units are conserved |
| Receipts and valuations (`api/stock-receipts`) | balances, `product_warehouse_valuations` | receive, value | a valuation composed on an old screen | nothing is overwritten unseen, nothing is invented |
| Counts (`api/inventory-counts`) | sessions, lines, revisions | open, capture, correct, submit, approve, cancel | the expected quantity is read long before it is used; concurrent corrections; capture against submit | an approval lands on the counted number or is refused, no correction is lost |
| Products (`api/products`) | products, categories | create, edit | forms that several people keep open, documents written meanwhile, codes given by nobody or by two | nobody's change is overwritten, a code is given once, code and unit stay as the documents know them |
| Accounts (`api/auth`) | users, invitations, credentials, sessions | invite, activate, log in, change password, log out, revoke, deactivate, reactivate, recover | a slow password hash between the check and the transaction, the panel beside the command line | sessions follow status and credential, only an open invitation revives a credential, an administrator remains |
| Roles and permissions (`api/auth`, `database/src/bootstrap`) | roles, grants, exceptions of people | edit roles, edit exceptions, bootstrap | requests checked by the guard and run later; a bootstrap of another version on a live database | nobody but the administrator gets what makes one |
| Session life (`api/auth`) | `sessions`, the cookie | renew, expire, revoke, log out | clock readings applied out of order, answers that arrive late | a session ends, its cookie with it, and is not revived |
| Login throttle (`api/auth`) | `login_throttles` | look, count a failure, reset | the block is read long before the failure is written | blocks are earned, keep their length, and are overshot only by attempts under way |
| Integration keys (`api/integrations`) | keys, `integration_rate_limit_windows` | create, revoke, authenticate, count | concurrent requests at the limit of a window | a window serves what it promises |
| Alexa link (`api/alexa`) | link, codes, pairs of tokens | authorize, exchange, refresh, revoke | rotation against retries, an owner who is disabled and enabled again, reauthorization | a grant is spent once, what ended does not revive |
| Route authorization | none of its own | guards, checks in the services, what screens offer | permissions change between them | what is offered can be done; the checks inside the transaction decide |
| Web application (`apps/web`) | forms, screens, tabs | submit, retry, filter, page, sign in and out | lost and reordered answers, shared cookie | one intent acts once, a screen answers its own question, sessions do not mix |
| Import of a counted file (`apps/web`) | the file, keys derived from it | load, create a product, receive, retry | lost answers, the same file twice | what the file counts is imported once |
| Alexa adapter | slots of a dialogue | ask, narrow, answer | words that match several products, a catalogue edited between turns | it asks instead of guessing |
| Legacy importer | temporary database, reports, the target | dry run, commit | crash points, another run, writes of the API, edited inputs | an approved plan is imported once, the target is still while it is checked and written, reports are true |
| Reports (`api/reports`, analytics) | none of their own | export, figures | several statements, several snapshots | an export is not cut short |
| Database triggers | none of their own | guards, deferred checks | the services must satisfy them | stated as properties |
| Legacy profiler, contracts, config, ui | none, or offline | | | not modelled |

Components interact through the tables. Sales, cancellations, corrections,
transfers, receipts, adjustments and count approvals all move the same balances
and append to the same ledger; a correction and a closing share the
business-day advisory lock; a valuation and every stock movement share the
version of a balance; a count approval runs the adjustment service inside its
own transaction. The session of a person decides what the routes accept, and
its cookie is shared by the tabs of a browser; the role and exception rows are
read by every guard. The importer writes the tables of the API under table
locks.

## Modules

| Module | What it is |
|---|---|
| `SaleRules` | The tables behind a sale and a closing, and each command as one atomic action. The abstract specification of sales. |
| `SaleTransactions` | The same commands as transactions: advisory key lock, row locks, re-reads, business-day lock, figures, stock locks, then the write. Any step may fail and roll back. Refines `SaleRules` (`PROPERTY Serial`). |
| `SaleLines` | The arithmetic below `SaleRules`: lines, rounding, shares of the shipping, movements chained through one pair, receipts, figures of the day. |
| `FinanceBook` | Entries posted by concurrent requests, categories, lists and totals. |
| `RowLocks` | PostgreSQL row locks taken one by one from a constant plan per command. |
| `StockLocks` | The plan of every stock-writing command, statement by statement, foreign-key locks included. |
| `Balances` | What the modules on stock share: quantities and the movements of a place. |
| `StockLedger` | The abstract specification of every stock command: a quantity changes with its movement, and what leaves one place arrives in another. |
| `StockCommands` | Adjustments, transfers with inherited valuation, receipts, optimistic valuations. Refines `StockLedger`. |
| `InventoryCount` | Sessions and lines with captures, corrections and approvals in progress, beside other stock commands. Refines `StockLedger`. |
| `CountedImport` | The browser's import of a counted workbook. |
| `ProductCatalog` | The sheets of products: forms that stay open, the stamps of their rows, the locks of rows and codes, documents that give a product a history. |
| `Accounts` | Status, activation, credential, invitations and sessions of every user; requests that read first and write later; administration and the command line. |
| `AccessMatrix` | Roles, grants and exceptions, edited in the panel and seeded by the bootstrap. |
| `ApiClock` | The clock the next four share. |
| `LoginThrottle` | One throttle row and the attempts that share it. |
| `SessionLifetimes` | One session, the requests that renew it, and its cookie. |
| `QueryAllowance` | An integration key and the row that counts its queries. |
| `AlexaLinks` | The link of an account, its codes and pairs of tokens, and the requests that hold them. |
| `LegacyImport` | The two commands of the importer with checks, locks, crash points and reports. |
| `LegacyPlan` | The business plan that the workbook becomes. |
| `RouteTable`, `RouteAccess` | The permission of every route, service and screen; permissions that change while a screen is open. |
| `WebForms` | The life of a form that sends a command under an idempotency key. |
| `ReadViews` | The life of a screen that reads under filters and pages. |
| `WebSession` | The tabs of a browser, the cookie they share, the sessions of the API. |
| `ReportExport` | The statements of an export while others write. |
| `VoiceDialog` | The question for the stock of a spoken product in a spoken warehouse. |
| `...Proofs` | Theorems: `SaleTransactionsProofs`, `FiguresProofs`, `RowLocksProofs`, `StockCommandsProofs`, `InventoryCountProofs`, `AccountsProofs`, `ClockReadingsProofs`, `RecordsProofs`. |
| `MC...` | Small instances for TLC. |

Several `MC` modules put parts side by side that share no table: `MCSaleRules`
(sales, book, lines), `MCStock` (commands, one count, two counts, upload),
`MCAccounts` (accounts, access), `MCClockReadings` (throttle, session,
allowance, alexa) and `MCRecords` (import, plan, forms, report, views, voice,
routes, browser, catalog). A variable `part` says which of them a behaviour is
of; the others rest, or have no state at all. The parts that theorems are about
are taken with `EXTENDS`, so that the run checks the very definitions the
theorems name: all of `MCSaleRules` (`Serial`, `BookSpec`, `LinesSpec`), all of
`MCRecords`, each under a specification of its own
(`Spec`, `PlanSpec`, `FormsSpec`, `ExportSpec`, `ViewsSpec`, `VoiceSpec`,
`RoutesSpec`, `BrowserSpec`, `CatalogSpec`), and in the others those of
`StockCommands`, `CountedImport` (`ImportSpec`), `Accounts`, `AlexaLinks`,
`QueryAllowance` (`AllowanceSpec`) and `LoginThrottle` (`ThrottleSpec`). What the
real program says of routes and screens is in `RouteTable`; `RouteAccess` is
about any tables, and the run gives it these (`CommandTable`, `ScreenTable`).

### Correspondence

A variable is a column or the rows of a table (`status`, `ledger`, `lines`,
`pairs`), `None` is SQL NULL or a missing row. An action of `SaleRules`,
`StockCommands`, `InventoryCount` or `AccessMatrix` is a whole service method or
the whole of its transaction: guards are its early returns in their order,
`Insert...`, `Post` and `Restore` are its writes. In `SaleTransactions`, `pc`,
`cmd`, `held`, `seen` and `sums` are what an open transaction has reached, runs,
locks and has read. Writing and committing is one step there: no other
transaction reads uncommitted rows, and every lock the writes need is held.
In `SaleLines` the movements of all pairs are one sequence, as in their table;
`onHand`, `priced` and `movedTo` are the balances, the rows of `sales` and the
replacements named by corrections.
Operators whose name extends another (`PayableWithoutPaid`,
`LockBalancesUnchecked`) are plausible mistakes in it; each property is known to
fail with one of them.

In `Accounts` the commands are `Serializable` transactions, so each is one
action; what that isolation does not protect, the reading and the password
hashing before it, is the `Start...` action, and `work` is what the request
remembers of it. A `Hash` stands for a stored password hash: the salt makes
every new one different, which is why comparing hashes detects a password
changed meanwhile.

In the modules on the clock a request is two steps or three: it reads the clock
and decides (`work`, `visit`, `attempt`, `query`), and its statement runs later,
in another order than that of the readings. The upsert of the throttle and of
the allowance is one statement on one row, hence one action, and `Accepts`
stands for the `CHECK`s of the table, which reject a write instead of the
service. The API clock and the database clock are one: where the code compares
`now` with `clock_timestamp()` a request may only be late, never early. What was
served of an allowance and counted by a throttle is kept as a history of events
(`served`, `counted`), each with its window and its place in it, so that a limit
can be stated of the events and not of the counter that enforces it.

The account behind a link is disabled and enabled with the credential it has
(`deactivateUser`, `reactivateUser`); neither touches a token, so an access token
that has not expired works again. `Standing` is what a token needs besides an enabled
owner, and `NothingRevives` is about it. `Authorize` is one action: a refresh that
commits after its snapshot has written the row of the token it used, and the
authorization fails, unless that token was rotated before, and then the refresh
might as well have committed last (finding 4).

A counted file is a workbook of rows and columns; a column of quantities is a
warehouse. `created` remembers who created which product from which file,
`importer` how far each browser has come and `wire` what it has sent: answers
arrive late or not at all, and a file may be read again and sent anew.

The importer reads every artifact of the profile twice, for its hash and then for
its contents (`ReadProfile`, `ParseProfile`), and the two may differ. What is approved
is the hashes and the key of the plan, and of what was parsed that key covers
units, products, balances and valuations. A profile that differs in other things
is `restaged`: its rows kept as they are and its findings
(`import-plan-builder.ts:79-110`, `182-184`) are not compared with approved ones,
only counted where `commit-guard.ts:103-132` wants the exact numbers.

In `ProductCatalog` an `updated_at` is a number that every save raises: two saves
of one row are assumed to have different stamps. A form reads its row in one
step; that a key repeated by the same form answers with the stored result is the
subject of `WebForms`.

In the web modules a request has a key, and its answer may come late or never. A
`Kind` of form (fourteen in the code) and a `Screen` (twenty-six) is the
policy its component implements: when the key is renewed, when fields are
locked, what an effect cleans up. Several components have the same policy; the
runs take one of each, which `KindAssumption` and `ScreenAssumption` check.

A form reads its content, waits for the CSRF token and then reads its key
(`FetchToken`, `Submit`). The token stays in memory once it has been fetched, so
only the first submission can send what was typed before an edit with the key of
that edit. Where fields are locked meanwhile there is nothing to mix, and the token is as
if at hand. The correction of a count has no React key: "Corregir" on another line
(`PickLine`) leaves field, key, doubt and request as they are, so what a form
promises there is promised of a line since it was picked.

Of a list, only the rows disappear while another question is asked. Its heading,
totals or a number of results (`finances-list-view.tsx:158-173`,
`sales-list-view.tsx:138-142`), is `heading`, which the next answer replaces:
until then, and after a failure, it tells of the previous question
(`HeadingOfTheRows`).

A route whose checks depend on the body is several rows of `RouteTable`: a product with or
without specifications, stock or a value, an approval with or without differences.
`api-conventions.md:12-16` documents the permission on
specifications, so editing with them is no exception; creating is, for its
permissions on stock and costs. A page asks once whether its
person may edit specifications (`specifications-access`) and believes it
afterwards (`Told`, `learnt`).

In `VoiceDialog` the words of a phrase are positions of a sequence, and what is
found for them a set of articles or depots, cut to the first few by `Position`,
the order of the database. `turn` is what the skill keeps between two turns, with
the catalogue it saw; `Rename` changes the catalogue in between.

What the database triggers demand (`guard_sale_write`,
`enforce_operational_sale_documents`, `check_operational_sale_item_ledger`,
`guard_inventory_count_line_update`, the `CHECK`s of `sessions`) is stated as
properties, not as guards: the services have to satisfy them without help.

Idempotency. A `Key` is a pair of actor and `Idempotency-Key`. A command whose
key already backs a document answers with the stored result, or a conflict when
the request differs, and changes nothing either way; for that reason a `Replay`
is a stutter, and a `Session` of counts is named by its key.

## Runs

| Run | Module / cfg | Instance | Shows |
|---|---|---|---|
| `sale_rules` | `MCSaleRules` / `SaleRules.cfg` | 3 sales, 2 keys, 3 requests, 2 pairs, 2 days; 2 sales of up to 2 lines; 2 entries and a sale over pages of one line | documents, payments, stock, ledger and closings agree under one-at-a-time commands; lines, movements, receipts and sellers add up; a retried entry finds itself and the pages of an unchanged book add up |
| `sale_transactions` | `MCSaleTransactions` / `SaleTransactions.cfg` | 2 transactions, 2 sales, 2 keys, 2 pairs, 1 day | what a transaction checked survives until it writes; the tables change as in `SaleRules` |
| `global_order` | `MCRowLocks` / `GlobalOrder.cfg` | 12 commands in 3 transactions, 2 products, 2 warehouses, 1 missing balance | no deadlock among commands of one kind, every command ends, and the plans of the first kind satisfy what the theorem asks |
| `count_against_sale` | `MCRowLocks` / `CountAgainstSale.cfg` | a sale and an approval | **violated**, finding 1 |
| `stock` | `MCStock` / `Stock.cfg` | 2 warehouses, 2 keys, costs 0 and 1, an author; 2 sessions, 2 pairs, 2 requests; 2 people and 2 files | commands and counts follow the ledger; values, corrections and approvals are kept; a counted file is imported once |
| `zero_difference` | `MCInventoryCount` / `ZeroDifference.cfg` | 1 session, 2 pairs | **violated**, finding 2 |
| `accounts` | `MCAccounts` / `Accounts.cfg` | an administrator and another user, 3 invitations, sessions and hashes, 2 requests; 2 people, 2 roles, 2 permissions, 2 versions of the manifest, 3 panel requests | sessions, invitations and credentials agree, the administrator remains and nobody else gets what makes one |
| `clock_readings` | `MCClockReadings` / `ClockReadings.cfg` | 3 requests on a clock 0..3 (0..4 for sessions), 2 codes, 3 pairs and 2 requests on a clock 0..2, an account that is disabled, enabled and given credentials | blocks, sessions, allowances and grants under readings that arrive out of order |
| `concurrent_failures` | `MCLoginThrottle` / `ConcurrentFailures.cfg` | 2 attempts, clock 0..2 | **violated**, finding 3 |
| `reauthorization` | `MCAlexaLinks` / `Reauthorization.cfg` | 2 codes, 3 pairs, 2 requests | **violated**, finding 4 |
| `records` | `MCRecords` / `Records.cfg` | 2 runs of the importer; workbooks of two rows of each sheet; 6 kinds of form; 20 screens; every route; 2 tabs and 2 people; 3 products and 2 warehouses with spoken names; 2 people over 2 sheets of products | the import happens once and reports are true; the plan, the forms, the export, the screens, the dialogue, the permissions, the tabs and the catalogue keep what they promise |
| `unverified_target` | `LegacyImport` / `UnverifiedTarget.cfg` | 1 run, 1 write of the API | **violated**, finding 5 |

### Bounds

Two sales are enough for a duplicate and its replacement, a third is needed for
a chain of corrections. Two transactions are enough for a lost update or a stale
check, each of which involves one reader and one writer; the third of
`global_order` is there because cycles of locks may be longer.
`MaxVersion`, `MaxRevision` and `MaxMoves` bound the versions of a row and the
movements of a pair; `MaxQuantity` stands for the largest representable
quantity, so refusals at the upper limit happen too. The two shapes of counts,
one over two pairs with corrections and two over one pair without, are separate
parts of `stock` because together they are too many; each bounds the other
shape's dimension (`OneCount`, `TwoCounts`).
`accounts` has one administrator because the bootstrap creates exactly one and
the panel can neither add nor remove another. Three invitations, sessions and
hashes allow a first one, its replacement and the one of a request under way.
On the clock, windows and lives are one to three instants and the clock holds
one window and most of the next, all that a stretch of one window's length can
straddle. `MaxLinked` bounds authorizations of the link: a first one and the one
anew. `MaxEdits`, `MaxWrites`, `MaxSent`, `MaxReload`, `MaxRequests`,
`MaxOpenings`, `MaxSession`, `MaxStart` and `MaxChanges` bound what the
environment starts. The people who edit sheets of products open two forms with
one field to type and begin with one product, which reaches a save over a newer
row, a code given twice at once and a document written under an open form; a
transaction of theirs is named like a run of the importer. The import is
disturbed by two edits of its files, one file differing at a time, or by an edit
and a write of the API (`Disturbed`). A form is edited twice, or edited once and
put on another line once (`Handled`, `MaxPicks`). The theorems are about any
number of each. The messages of `records` are lost by never being delivered and
reordered by being a set. Sets of keys, sales, sessions, runs, people and
transactions are symmetric where no run checks liveness. `CHECK_DEADLOCK FALSE`
appears where the bounded system really stops: all keys, versions, instants or
requests are used.

In `CountedImport` the totals row of a sheet is what `TOTAL` rows are in the
code, skipped; the totals that the importer of the old workbook demands (14
units, 357 balances) describe one workbook and are left out of `LegacyPlan`.

### Fairness

Only `RowLocks` has a liveness property. Strong fairness is assumed of each
transaction's next statement (`Skip`, `Grant`, `Commit`): PostgreSQL queues
waiters of a row and wakes them, and an open transaction runs to its end.
Nobody is obliged to start a command, and nobody has to abort, so the property
says that no command needs a rollback to make room. The commands that run at
one time are all of one kind (`OneKind`), because the two kinds do deadlock
with each other (finding 1). Elsewhere nothing is assumed to happen: requests
are abandoned, answers lost, runs killed. That a session ends, or that a screen
settles on the question it shows, is stated of states (`NoSilentGap`,
`SettledOnTheQuestion`) and needs no fairness.

## Findings

1. *Approvals against sales.* The comment in
   `inventory-count-lifecycle.service.ts` says that balances are locked "in the
   same global order used by sales and transfers, so a concurrent operation on
   the same pairs queues instead of deadlocking". Sales and transfers lock
   product and warehouse rows before balances; the approval locks the balances
   and only then needs those rows, for the foreign keys of its movements. The
   two deadlock and PostgreSQL aborts one (`count_against_sale`). No data is
   lost; one of the two users gets an error. Adjustments and valuations share
   the shape.
2. *Lines without a difference.* "Approval re-checks it: a later movement
   invalidates the count." The re-check ranges over lines with a difference
   only, so a session is approved over a line whose stock has moved
   (`zero_difference`). The stock is not altered by it; the statement is wrong.
3. *Failures out of clock order.* `LoginService.failLogin` reads the clock and
   then opens the transaction that counts the failure. Of two failures at once
   the earlier reading may be written last, before the window that the other one
   has started; the `CHECK`s `login_throttles_window_coherent` and
   `login_throttles_timestamps_coherent` reject it (`concurrent_failures`). The
   attempt is not counted and its answer is an internal error instead of the
   uniform one. The test "updates throttle atomically" covers four failures at
   once with one fixed reading of the clock.
4. *A refresh beside a reauthorization.* ADR-016 says that authorizing the
   account anew revokes earlier codes and tokens without tolerance. A refresh
   holds the row of its old token only; a reauthorization that commits between
   its check and its commit does not see the new pair, which stays valid
   (`reauthorization`).
5. *Verified over an older snapshot.* `phase-4-importer.md` says that under the
   table locks the empty target and the operator are verified again and any
   difference aborts. The transaction is `Serializable` and its snapshot is
   taken by its first statement, the advisory lock; what a writer commits while
   the table locks are waited for is not in it (`unverified_target`).

Smaller observations that no run checks: the report page reloads page 1 only
(`reports/page.tsx:187`); `getCsrfToken` of the auth provider writes back the
session it read before its `await` (`WebSession` models it);
`stock-receipt.service.ts:67-90` checks `inventory.read` again after the
transaction has committed, so a receipt that is stored may be refused to its
author if the permission is withdrawn in between; `api-conventions.md:214-240`
lists fewer permissions than some routes need (`Understated`); a counted file
that was edited before it is imported again is refused with
`PRODUCT_CODE_DUPLICATE`; the summary the skill tells reads its total and its
items in two statements; after a correction of a count whose answer was lost,
"Corregir" on another line keeps the key, the doubt and the typed quantity, the
retry is a conflict, which renews the key, and the next submission gives the
second line the quantity of the first
(`inventory-count-detail-view.tsx:420`, `434-446`); an artifact of the profile
that changes between its hash and its parsing is imported under the approved
hashes if it differs in staged rows or findings only
(`profile-evidence-loader.ts:72-94`).

## Proofs

Assumptions are the named `ASSUME`s of the modules that declare the constants:
their types, `None` distinct from values, every request sells something, one
administrator in the manifest of the bootstrap. The bounds of the runs are
constants of the modules, so a theorem holds whatever their value.

**Sales.** `SaleTransactionsProofs` proves for `Serial`, whatever the number of sales,
keys, requests, pairs and days, the invariants and the action property that
`sale_rules` checks of sales and closings (`StockAccounted` joins the two on stock,
`LedgerExplainsStock` and `StockMovesOnce`). `PaymentHeldOnce` and `DocumentsAgree`
are not inductive, because a correction moves a payment between rows and later
commands depend on what the first left behind. `Coherent` is the inductive
strengthening: `OwnRows` says how status, payment and documents of one sale
determine each other, `Backed` that a paid sale without a payment received a
correction, `Linked` what a voided sale and its replacement have in common. Each
command preserves it, one step per action, and the other properties follow from
it, the types and the guards. `StockMovesOnce` is proved with the ledger as it
grows: a movement is appended only by the command that also writes the row
justifying it.

The same module proves `Spec => Serial` for any number of transactions.
The refinement mapping is the identity on the tables, and the work is to show
that a `Commit...` step is the command it stands for although its checks were
made in earlier steps. The inductive invariant is `IInv`: the types, `ControlOK`,
and `ChecksSurvive`, which says of each open transaction that it still holds the
locks of the phases it passed (`KeepsLocks`) and that what it checked or read in
them is still true (`ChecksHold`). `ChecksHold` alone is not inductive; it is
the mutual exclusion of the locks that carries it over the steps of others.
`Respects(t)` states the only ways in which a step of `t` may disturb rows, days,
balances and keys that `t` has not locked, and one lemma per write shows that
the write respects them; `OthersKeep` shows once, for every other transaction,
that such a step leaves its checks true; one lemma per preparing step shows that
the transaction taking it establishes its own. `ApiKeepsSaleRules` then
transfers the theorems on `Serial` to the interleaved system.

**Locks.** `RowLocksProofs` proves that granted locks are compatible and, for
any plans that satisfy `PlansOrdered`, that no set of transactions of any size
deadlocks: among waiting transactions one whose wanted row has the greatest rank
waits for another in the set, which wants something ranked higher. The `ASSUME`
`GlobalOrder` of `MCRowLocks`, which TLC evaluates, says that the plans of the
code satisfy it; the theorem then extends the absence of deadlock to any number
of transactions running those plans.

**Stock.** `StockCommandsProofs` and `InventoryCountProofs` prove that both
modules implement `StockLedger`: initial states map to initial states and every
step moves units as the ledger allows or changes no quantity, for any products,
warehouses, quantities and people. In the first, what carries the
part of `ValuesKeptNeverInvented` on valuations is `DraftsLag`: a draft shows an earlier version
of its balance or, with the present version, the present row; it holds because
every command that changes a row also raises its version. `ValuesSupplied` says
that a cost or price in a balance was supplied for its product, and
`ZeroCostsReviewed` that a cost of zero is flagged; without the latter a
transfer could carry an unflagged zero into the destination.
In the second, the row of a session is held by one capture or one approval
(`OneHolder`), so an approval finds at its commit the lines it has read
(`ApprovalsReadLines`), and the balances it locked are what those lines expect
(`LockedAsExpected`). `ApprovalLandsHolds` follows from these; `CorrectionsLag`,
the analogue of `DraftsLag`, gives `CorrectionsKeptHolds`.

**Accounts.** `AccountsProofs` proves every property of the `accounts` run for
any number of users, administrators, requests, invitations and sessions.
`AccountsInv` is the conjunction of the invariants, which need each other: that
sessions follow the credential rests on `StatusMatchesCredential` (reactivation
must not revive a credential that has live sessions), that open invitations
belong to pending users on the conditional consumption, and
`EnabledAdminRemains` on the policy being evaluated inside the transaction
rather than by the guards. One lemma per command shows that it changes the
account of one user in one of a few allowed ways (`OneAccount`), and the
invariant follows from that. `PanelAlwaysHoldsAccess` is about `AccessMatrix`:
`AccessInv` adds to `PanelNeverSplitsAdmin` the types, that a database in use
has been bootstrapped, and that no panel request exists before, so that seeding
meets only rows of the bootstrap's own. Its hypothesis on manifests,
`ManifestAssumption`, is what `access.manifest.ts` declares: one person is seeded
the role `ADMIN`, and what is restricted is granted to that role only.

**Readings of the clock.** `ClockReadingsProofs` holds two arguments. For the
link with Alexa the invariant says that a code is held by one exchange and is
open as long as it is held (`ExchangesHold`), that a refresh token is held by
one request and can be rotated as long as it is (`RefreshesHold`), that pairs
bought are traced to what bought them (`CodesBuyOnce`, `TokensBuyInTime`), and
that a credential which is revoked was so after the link was authorized
(`AuthorizedBefore`), so that a new one is newer than the link and does not serve
it. `GrantsSpentOnceHolds` and `NothingRevivesHolds` follow, whatever the lives of
codes and tokens. For a session, `SessionsAlwaysEnd` needs more than the
property: that gaps between neighbouring readings stay below the idle limit is
not inductive, for a late reading may fall into any gap. `NoSilence` says
instead that of every instant between the first and the last accepted reading
another accepted one lies less than the idle limit before, which any reading
preserves in any order; `VisitsFollow` and `NothingBefore` bound what requests
under way may carry.

For an allowance, `AllowanceAlwaysFair` rests on `ServicesPlaced` and
`PlacesOnce`, every service has a place of its own within the limit of a window,
and on `WindowFilled`: a window that counts `n` has served the first `n` places,
so that a refusal had a reason. For the throttle, `FailuresPlaced` and
`FailuresOnce` give every counted failure a place among four of a window,
`RowMeasured` says that the row counts exactly the present ones, and
`LateCounted` pays for failures counted late, under a block, with attempts that
had already begun when it was earned (`BlocksAlwaysHold`).

**A counted file.** `CountedImportHolds` (in `StockCommandsProofs`) says that,
however many people read however many files however often, each product is
created once and each quantity received once. `PageKept` says what a page in each
of its states has done and has still to do, `Placed` what a request on the way
asks for, `BooksKept` that every stored command was asked for, of a product
created once, and `StockKept` that what is received is what one command
received.

**The importer.** `RecordsProofs` proves for any number of runs, edits and
writes that one plan is imported at most, that its hashes, units, products, balances
and valuations are the approved ones (`ApprovedPlanOnceHolds`; a profile may be
parsed from other bytes than were hashed, and the plan key, compared with the
hashes, refuses it when it differs in any of these), that the target stands
still from the table locks to the end of the transaction, and that reports of
success and of a refusal are true. `LocksHeld` says that the table locks are
held only with the advisory locks and while no API transaction writes,
`NothingBefore` that a run past its checks saw no import in its snapshot and one
that has written its rows is the first; `CommittedIsThere` is what a report of
success rests on. Of the plan, for workbooks of any length, the invariant says
that the sheets are read in order (`InOrder`), that the group of a key is the rows
of the key, one of which sorts after all the others (`Grouped`), and that the
movement which counts for a key is its last (`LastCounts`);
`PlanAlwaysFaithful` follows when the reading is over.

**The catalogue.** `CatalogAlwaysKept` is the action property of the sheets of
products, for any number of people, products, documents and transactions.
`FormsFollow` says that a form shows its row as it was at a stamp the row had, and
hence, at the present stamp, the present row; `RowsStill` that from the lock of
the row to the end of the transaction nobody else writes it and no document comes
to be about it; `CodesStill` that what was checked of a code stays true from its
advisory lock on.

**The web application.** `FormsInv` relates any two requests of one opening: where
their keys differ, the form drew another one on an edit or on a refusal
(`RequestsAgree`), and every effect is that of one request (`EffectsOfRequests`);
a line picked under a mounted correction begins an opening of its own.
`ViewsInv` says that what a screen still listens to was asked for what it asks
now, and that a heading tells of the rows below it (`HeadingStands`). `ExportInv`
says that a list was read whole or is one row longer than the limit. `RoutesInv`
follows a command through guard, checks, commit and answer and says what each
stage reached implies about permissions held since. It is proved of any tables
that satisfy `TableAssumption`, which TLC evaluates on those of the code: routes
ask for what is documented, screens offer what the routes ask for or what they
were told, and links lead to screens whose reads they imply, each with named
exceptions (`Understated`, `Excepted`).
`BrowserInv` says that answers tell the truth about the sessions that are alive
now, and that a function awaits one request of its own kind.

**The dialogue.** `VoiceNeverGuesses` is about any catalogue, any words and any
number of renamings. `ProductRight` and `PlaceRight` say of what a turn goes on
with why it was the only choice in the catalogue seen then. The argument turns on
the cut: one that keeps at least two candidates shows a second one if there is
any, so that a single candidate left is the only one the words allow. That the
cut has elements to show rests on phrases being finite and on positions having a
least.

**Figures.** `FiguresProofs` proves that what is read back adds up, for books and
sales of any size. Figures are sums over finite sets, and what holds of a sum is
induction over its elements; since no induction theorem can be instantiated, a
subset that goes wrong with the fewest elements is taken instead, and removing
one of its elements leads to a contradiction (`Gathering`). From the definition
of `SumFunctionOnSet` it gives first that the elements may be taken in any order
(`Summing`), then that sums may be added (`SumPlus`), split into parts
(`SumParts`) and exchanged (`SumSwap`).
`SalesInv` says of a row of `sales` that its lines and total are those of its
pricing (`SalesKept`), of a receipt that it covers the total of its sale and of
the one it was moved to (`ReceiptsKept`), and of the stock that its movements
chain (`StockKept`; a pair may be named on several lines, so what the lines
before one have moved is itself a sum, `LineMoves`). The shares of a shipping are
the whole of it (`SharesAreTheWhole`), revenue by product and shares by seller and
bucket are the same double sum taken in another order (`ProductsAdd`,
`SellersShare`), and `SalesAlwaysAddUp` follows.
`BookInv` says that a key is locked by one request (`WorkKept`), that a key has one
entry (`RowsKept`), and that each page shown is a slice of some order of the lines
found (`ReadingKept`). Instants may tie but ids differ, so there is one such
order only (`OneOrder`) and the pages, although each is a query of its own, are
slices of the same sequence (`PagesRead`); `BookAlwaysKept` follows.

**Only model-checked.** Every invariant and every action property of the passing
runs is stated by a theorem. `EveryJobEnds` is liveness, outside the reach of the
provers. The properties of the violated runs are false.

## Not modelled

Validation of requests (a refused request changes nothing); clocks of several
API hosts that disagree; audit rows; error codes; decimal formatting and the
parsing of amounts; the day lock of other features; products and warehouses
being deactivated (no command of the API does it); the receipt that creates its
product beyond its locks and its import; that the form of a product shows code
and unit as read-only once it has a history (the service decides); old sales
brought by the importer and the margin of a report; the sales questions of the
skill; layout, wording and logging.

Two abstractions that a reader should know: the preview of a closing is four
statements of their own snapshots in the code and one step in `SaleLines`, and
the failure report of the importer, when the answer of `COMMIT` is lost, says
"aborted before commit" of an import that may be there (`ReportsTrue` is stated
of the run that got its answer). The dialog of user access sends the roles it
read when it opened, so of two dialogs about one person, in two tabs, the one
saved later wins; no document promises otherwise, and no property says so.

Two more idealise. In `VoiceDialog` a phrase matches whole words without accents;
the services look for substrings, with the accents of each word in the search of
products and literally in that of warehouses. A tab of `WebSession` runs one
function of the provider at a time, while `getCsrfToken` of one component may run
beside the sign-out of another.

## Plan

Done: sales, locks, stock, counts, accounts, access, readings of the clock,
Alexa, importer, catalogue, web clients, routes, reports, with theorems for every
invariant and every action property that the passing runs check.

Left: the receipt that creates its product, as a transaction of `ProductCatalog`
and `StockCommands` together; the preview of a closing as the four statements it
is.
