# Verification of the SANGEL addons

TLA+ models, TLC runs and TLAPS proofs for the addons of this repository: an
Odoo 19 installation for a chain of shops that shares its purchases, deliveries
and accounts with the ERP SAGE X3.

Contents: [the system](#1-the-system-and-its-parts) ·
[execution model](#2-how-odoo-runs-the-code) · [modules](#3-modules) ·
[runs](#4-runs-bounds-and-what-they-show) · [fairness](#5-fairness) ·
[proofs](#6-proofs) · [divergences](#7-divergences-met) ·
[limits](#8-what-is-not-modelled) · [plan](#9-plan) ·
[running](#10-running-it)

## 1. The system and its parts

Paths are relative to `src/`.

| Part | State it keeps | Operations that change it | Model |
|---|---|---|---|
| SAGE X3 HTTP client, `custom_api_sage_x3/models/sage_x3_mixin.py` | token and expiry per company, in globals of each worker process | login, `_safe_post` (retries, renewal on 401), `_safe_get`, invalidation | `SageX3Client`, `RemoteCall` |
| Purchase orders, `custom_stock/models/purchase_order.py`, `custom_api_sage_x3/models/purchase_order.py:1-286` | state, supplier type, urgent or normal, `sage_x3_submitted`, `sage_x3_validated`, `sage_x3_delivery_received` | create, copy, edit, queue, local confirmation, cancel, reset, urgent and grouped submission | `PurchaseOrders`, `OrderContract` |
| Import of deliveries, `custom_api_sage_x3/models/purchase_order.py:289-736` | cursor `last_import_date` per company, quantities of open receipts, `sage_x3_delivery_received` | queued job, button, batches with commits, cursor update; receipts validated by users | `DeliveryImport` |
| Products and contacts of X3, `insert_product_init.py`, `create_contact_sage.py` | products, barcodes, contacts | pages, items, commits, rollbacks and savepoints | `ProductImport`, `ContactImport` |
| Barcodes, `custom_multi_barcode_for_products` | records, the active one and its copy in the product | users, sheet, save of the product, import | `ProductBarcodes` |
| Sheets, `custom_import_excel` | previews of wizards | load, confirm, reset; repair, delete | `SheetWizards`, `InventoryRepairs`, `PosHistoryImport`, `LimitCredit` |
| Accounting entries, `custom_api_sage_x3/models/account_move.py` and its wizard | `sage_x3_sent` of settlements (the flags of POS payments, sessions and invoices are never written) | daily ENCAI, DECAI and FACLI entries, marking, refunds, sale invoices | `AccountingEntries` |
| Amounts of the entries, `custom_api_sage_x3/models/account_move.py` | tickets, payments, settlements and invoices of a day | none of their own: the entries are computed from them | `EntryLines` |
| Reports on sales, `custom_reports`, `custom_pos/models/session.py` | orders, lines, payments, invoices, cash counts | counting the drawer; the reports only read | `SalesReports` |
| FNE certification, `fne_certification` | certificate of an invoice, held by a tax service too | post outside the transaction, credit notes | `FneCertification` |
| Job queue, `queue_job` | the table and its graphs, the channels in the memory of the runner, the workers' locks | enqueue, start, perform, retry, fail, buttons, dead jobs; construction of graphs | `JobQueue`, `JobGraphs` |
| Credit limit of a client, `custom_food_credit`, `custom_account`, `custom_import_excel` | ceiling, consumption and operations of `limit.credit`; `is_limit` of invoices; `linked_limit` of settlements | till payment, invoice posted, reset, cancelled or copied, settlement, its cancellation, wizard, client form, Excel import | `LimitCredit` |
| Food credit of employees, `custom_food_credit` | credits of a month, their lines, invoices | generation (button, wizard), buttons, till payment, refund, invoicing | `FoodCredit` |
| Loyalty cards, `custom_loyalty` | points of a card, gift cards | payments, change, import of balances; lookups and receipt at the till | `LoyaltyPoints`, `TillLoyalty` |
| Inter-company transfers, supply requests, `custom_stock` | state of the transfer, of its two pickings and of the request | confirm, validate, reject, cancel, delete | `Transfers` |
| Physical inventory, `custom_stock` | theoretical and counted quantities, quants | lines, counts, validation, reopening, correction, return | `PhysicalInventory` |
| Receipts and supplier bills, `custom_stock` | receipts, bills of their order | validation with billing, returns, bills by hand | `Receptions` |
| Direct receipts, returns to suppliers, details of a receipt, `custom_stock/wizard` | cost and new price of a product, receipts, returns, their draft credit notes | forms opened, filled, applied or given up; returns planned, counted, cancelled | `DirectReceipts` |
| Till, `custom_pos`, `custom_sales` | codes and logs, discounts and marks, cash counts | pay, codes, validation, closing | `TillApprovals`, `TillDiscounts`, `TillClosing` |
| Daily budgets, `custom_account` | days with the figure they store, native budgets | workflow, recomputation by `account.move` | `DailyBudgets` |
| AVCO guard, price history, stock correction of a receipt, dashboards, purchase forms, other reports, displays | | | none (section 8) |

How they interact:

- The submission, the imports, the entries and the FNE certification all call a
  remote service inside an Odoo request. The first three go through the HTTP
  client. Its timeouts are retried with the same body and without an
  idempotency key, so that "the call failed" never means "nothing happened".
- A submitted order that X3 accepts is confirmed, which makes the receipt the
  import later fills; validating the receipt bills it. `sage_x3_validated`
  carries the verdict from one to the other; `button_draft` and `copy()` change
  it on the side.
- `queue_job` runs the import as a job; the button and the dashboard run the
  same code inside a request. Nothing keeps two imports of a company apart.
- The till, the invoices, the settlements, a wizard, the client's form, the
  contacts of X3 and an Excel import all write one `limit.credit` row by
  increments, or overwrite it.
- The till page keeps tickets, pending logs, counts and cards in memory; the
  server knows them only when a call succeeds.

What makes them correct, and is hard to test: an order that Odoo shows as
accepted exists in X3 and the acceptance stays; no delivery is lost or counted
twice, whatever crashes and whoever imports at the same time; a settlement is
marked as sent if, and only if, X3 booked it; a certified invoice says what was
signed; the entries of a day balance and book each sale once; two reports on the same
sales agree; a job's effects are committed once; a balance kept by increments is what
the documents say; what an inventory shows is what it did to the stock; calls,
imports and jobs end. `PROJECT.json` lists each hazard at its line, with the
properties that watch it.

## 2. How Odoo runs the code

The models rest on four facts about the platform, none of which is in the
repository (definitions that stand for them are marked external in
`PROJECT.json`).

1. A request or a job is one PostgreSQL transaction at REPEATABLE READ. It reads
   the snapshot taken at its first query. Writing a row another transaction has
   committed to since that snapshot fails; Odoo then runs the whole request
   again, or gives up after a few tries.
2. So a handler that touches only the database is ONE action, and a handler
   that raises is no step at all: everything it did is undone.
3. `env.cr.commit()` in the middle of a handler ends the transaction: what was
   written stays whatever happens next, and the following read takes a new
   snapshot. A `try/except` that swallows an exception without a savepoint keeps
   the writes made before it.
4. A worker may be killed at any moment (time limit, restart). What is not
   committed is undone; what a remote service did is not.

A handler that waits for X3 is cut where others can step in: what it reads (its
snapshot), the exchange, the writes and the commit. A snapshot is modelled by
what the handler remembers of it and by a `stale` set, the rows that others have
committed to since. Writing a row of `stale` is a conflict. This is sharper
than copying the database into every transaction and gives far fewer states.

## 3. Modules

| Module | Role | MC module | Proofs |
|---|---|---|---|
| `RemoteCall` | what a caller may assume of one call to X3 | | |
| `SageX3Client` | the token cache and the retry loops | itself, `MCOneWorker` | `OneWorker_proofs` |
| `OrderContract` | what the purchase side promises about an order | | |
| `PurchaseOrders` | orders and their submission | `MCPurchaseOrders` | `Orders_proofs` |
| `DeliveryImport` | the import of deliveries | `MCDeliveryImport`, `MCOneWorker` | `OneWorker_proofs` |
| `ProductImport`, `ContactImport` | the imports of products and contacts | `MCCatalogue` | `Catalogue_proofs` |
| `ProductBarcodes`, `SheetWizards` | barcodes of a product, sheets of one record each | `MCCatalogue` | `Catalogue_proofs` |
| `AccountingEntries` | the day's entries and invoices | `MCAccounting` | `Accounting_proofs` |
| `EntryLines` | the amounts of the entries | `MCAccounting` | `Accounting_proofs` |
| `SalesReports` | what the reports tell of the same sales | `MCAccounting` | `Accounting_proofs` |
| `FneCertification` | certificates of invoices and credit notes | `MCAccounting` | `Accounting_proofs` |
| `JobQueue` | table, runner, channels and workers | `MCJobQueue` | `JobQueue_proofs` |
| `JobGraphs` | how a caller builds a graph of jobs | `MCJobQueue` | `JobQueue_proofs` |
| `LimitCredit`, `FoodCredit`, `LoyaltyPoints` | what a client may still spend | `MCCredit` | `Orders_proofs` |
| `Transfers`, `PhysicalInventory`, `Receptions`, `InventoryRepairs`, `DirectReceipts` | the stock | `MCStock` | `Stock_proofs` |
| `TillLoyalty` | cards at the till | `MCOneWorker` | `OneWorker_proofs` |
| `TillApprovals`, `TillDiscounts`, `TillClosing`, `DailyBudgets` | the till and the budgets of a store | `MCTill` | `Till_proofs` |
| `PosHistoryImport` | the import of past sales | `MCTill` | `Till_proofs` |
| `Sums` | facts on sums over finite sets, inductions on subsets and on numbers | | itself |

An MC module puts components that share no state side by side: a variable
`scenario` says which of them a behaviour is about, so that one run answers one
question about a part of the business. A proof module goes with one or two MC modules:
it proves each component on its own, then the composition from its components.

A definition whose comment starts with "Variant:" is a mutated form of the
definition that follows it: it stands for a plausible mistake in that code and
is used by nothing but the mutants of `PROJECT.json`.

### SageX3Client and RemoteCall

`cache` and `ttl` are `_TOKEN_CACHE` and `_TOKEN_EXPIRY` of a process, shared by
its threads; `good` is what X3 honours, which it may stop doing at any time
(`Revoke`); `call[t]` is the local state of `_safe_post` or `_safe_get`.
`_authenticate_sage_x3` is three steps because threads interleave there: the
test (`CheckCache`), the read that may find the entry gone and raises `KeyError`
(`ReadCache`), and the login with its store (`LoginOk`, `LoginFails`, `Store`).
The expiry is computed from the time at the start of the login, so `life` runs
while the thread waits. The turn of the loop is `Answered`, `AnswerLost` (X3
handled it, the client does not know), `NoAnswer` or `Unauthorized`; `NextAttempt`
is the end of a turn. `RenewsOn401` is the condition of the code: posts only,
and only on the first turn. `HandledWithinTurns` is about both uses of a turn, a
renewal and a request that X3 may handle, which share the turns between them.

`RemoteCall` is what `PurchaseOrders` and `AccountingEntries` are written
against: between 0 and `Limit` handlings, at least one if the call returns. The
client implements it (`ImplementsRemoteCall`), with `MAX_RETRIES` as limit.

### PurchaseOrders and OrderContract

`order[o]` is the committed row, `x3[o]` how many times X3 created it, `req[u]` a
submission in flight. The office handlers (`Create` ... `button_draft`) are one
action each; their guards are those of the handlers and, where a handler checks
nothing, of the view that shows its button. A submission is `BeginUrgent` or
`BeginBatch` (guards, search), then `PostAnswered`, `PostFailed` or
`PostNotBuilt` (one order that cannot be formatted: nothing is sent), then
`Record` (flags on every target, confirmation of those X3 accepted, of which any
may raise and be swallowed; the loop that writes the flags may raise half way, which
is swallowed too and commits the part that was written), `Discard`, `Conflict` or
`Crash`. The guard of
`action_verify_product` on the products is folded into `complete`.

`OrderContract` keeps three sets and three actions: X3 creates, Odoo
acknowledges what X3 created and confirms some of it in the same transaction, a
confirmation may be withdrawn. Nothing else may happen to them.

### DeliveryImport

X3 is asked for what is newer than a date. A date matters only by what it has
passed, so the cursor is the set `behind`, and `mark` what a job is about to add
to it. `fate[d]` is what the imports have committed about a delivery; its values
tell apart each way of being dealt with and the two ways of slipping by (`late`,
`aged`). `order[o].open` says where the quantities of the open receipt come
from, `receipts` where those of the validated ones came from.

A job is `BeginQueued` or `BeginButton` (which runs a whole import for each
awaiting order), `Ask` (GET, filter, preload) or `AskFails`, `ApplyBatch` once
per batch with its commit, `Date` (the cursor is written with the time of NOW),
`FinishJob` (the commit). `Abort` stands for conflicts and killed workers. The
orders are preloaded once and not read again after the commits: `cache` stays,
`stale` restarts.

### ProductImport, ContactImport, ProductBarcodes, SheetWizards

`ProductImport` reads the catalogue page by page while X3 changes it, and commits
at every `CommitStep`-th item. An item may raise (all since the last commit is
rolled back), or swallow an error of SQL, which leaves the transaction aborted:
its commit then undoes everything without a word (`poisoned`). A commit that falls on
an item left out is skipped (`missed` counts the items it would have kept). Two imports
lock the
rows they write until their next commit; a wait in a circle ends by PostgreSQL
killing one. `ContactImport` writes each contact in a savepoint.

`ProductBarcodes` keeps the records of a product, the active one and the copy of
it that SQL writes to the product; one request may be slow and work in an old
snapshot. That a barcode is on one record only is assumed of the database: the
`_sql_constraints` that say so (`product_multiple_barcodes.py:26`) are no longer read by
Odoo 19. `SheetWizards` has the five wizards that differ in what their preview
freezes: the record found, the value, or nothing.

### AccountingEntries

One company and one day. A wizard run is `Begin` (`_prepare_daily_entry`),
`PostEncai`, `PostDecai`, `PostFacli` once per payment on account, `Mark`,
`Refunds`, then `SendInvoice` for each invoice of the snapshot. Each post may be
handled up to `MaxRetries` times. `Results` has three values because
`_extract_x3_results` takes what it cannot read for a success (`misread`).
`fresh` says that a commit has ended the snapshot of `Begin`, so that the
marking, which searches again, sees newer settlements. `booked` counts the
entries X3 holds. `excused` is a history variable used by `MarkedIsBooked` only.

### EntryLines

The state is what a day holds: tickets with their taxes, payments, settlements,
invoices. The entries (`Encai`, `Decai`, `Facli`, `Avcli`, `PieceEntry`) are operators
on it, in the order of the code: lines from the tickets, the till's account for the
difference, the doubled payments of refunds. Tickets and payments change one at a
time, so that the entries are compared at every partial day. Amounts are whole units
of a currency without decimals.

### SalesReports

Each report searches and adds up for itself: the daily turnover (`DailySales`,
`Totaux`), the statistics by client, category or product (`ByCustomer`,
`ByCustomerCategory`, `ByProduct`), the detailed report for X3 (`DetailedTotal`), the
recapitulation of the tills (`Recap`) and the closing of a session (`Cloture`). The
properties compare them: statistics with the days (`StatisticsAgree`), detail with
the days (`DetailAgrees`), recapitulation with the days, with its taxes and with its
cashiers (`RecapAgrees`), sessions with the recapitulation (`ClosingsAgree`). Where
the code makes them differ, the difference is in the property: credit notes, sales
invoiced on another day, rewards, children of combos, cancelled tickets, sessions
that run over the end of the period.

### FneCertification

`move[m]` is the committed row of an invoice or credit note, `signed` what FNE
holds, in the order it signed. A request reads (`read`, `began`), posts (the
answer may be lost, which FNE does not know), writes, and commits or conflicts;
after a conflict Odoo runs it again, post included. A credit note sends the
reference of its invoice as the request had read it. The button certifies what is
posted; the refund wizard asks the state of nothing and sends the lines it was opened
with (`shown` has the versions that wizards still show), so that what it certifies may
be a draft, or say something else by then: `CertifiedIsAsSigned` tells the two apart.
`unheard` is a history variable.

### JobQueue and JobGraphs

`state`, `retry` and `eta` are columns of the table, `lock` the rows that a transaction
holds. The runner has its place in its loop (`runner`) and its memory: the queues, the
slots and the failures of its channels (`queue`, `run`, `failed`), which a restart loses,
and what it has not heard yet (`notified`). `requests` are on their way to a worker,
`worker` who performs what, `click` a user's transaction with the table it has read.
The runner's steps follow `runner.py` and `channels.py` (queue of a channel, slots,
sequential channels); the worker's steps follow `controllers/main.py`: lock, try,
perform, commit, then release the children in a second transaction. A retryable error
raised by the job is postponed while tries are left (`PerformRetry`); a concurrency
error of PostgreSQL ends the transaction with its lock and is postponed whatever
`max_retries` says (`PerformConflict`, one step: nothing else happens between the abort
and the commit of the postponement). `finished`, `asked`, `everDone`, `conflicts` and
`stale` are history variables that the properties read.

`JobGraphs` is the other side: what a caller builds with `delayable`, `chain`, `group`,
`on_done`, `split` and `delay`, nested and repeated, and which jobs then wait for which.
Delayables, chains and groups are numbers, a part smaller than what it is part of. Each
keeps what it shows to what it is linked to, as the code computes it (`head`, `tail`), and
what the calls say of it (`begins`, `finishes`, `jobs`). `Connected` is the walk of
`_connect_graphs`, `Told` what the calls say; `OrderIsKept` compares them.

### LimitCredit

Each handler writes the row of the limit, so that two at once conflict and each
is one action; the difficulty here is the long sequences of legal calls.
`limit.ledger` is the sum of the operations the code records next to each change
of the consumption. `direct` is a history variable: what was consumed or paid
back by no document, or `Lost` once a door that breaks the accounts has been
used: deletion of the limit, import of a sheet, the list of limits edited in place
(`TypeLimit`), a copied `is_limit` taken back without having been added, a cancelled
settlement posted again, a settlement cancelled whose invoice was deleted,
`linked_limit` unticked by hand. The list makes no operation, so `limit.typed` keeps
what it added. A sheet may name a client twice: each row records its change from the
consumption that was read when the sheet was loaded.

### FoodCredit and LoyaltyPoints

`FoodCredit` has the credits of one month under the two names that the button and
the wizard give them, a line per employee, the orders of the tills that were paid
with a line, and the invoices with what each bills. A payment takes from one line, the
oldest of those in progress that its day is in (`IsLineFor`, the search's `limit=1`). A
cancelled invoice may be put back to draft after its credit was billed again
(`ReviveInvoice`); `doubled` remembers those. `LoyaltyPoints` has the points and the
history of one card, the orders of the tills, and a sheet of balances, negative ones
too, that is loaded and later written; `told` is the balance of the last one.

### Transfers, Receptions, PhysicalInventory, InventoryRepairs

The handlers of a transfer look at no state; its buttons look at the state the
screen shows, and a screen is not refreshed. `displayed` holds the states that
some screen still shows, so that any of them may be clicked from. The lines of
a picking are counted as copies of those of the transfer: open, done or cancelled. The
copies that the receiving store cancels alone, which leaves the shipment of the other
store to go, are counted in `refused`.

`Receptions` follows one order line: the validation of a receipt deletes the draft
bills, prices the order, bills what `qty_to_invoice` says and posts the bill.

`PhysicalInventory` has the quants of some places and the lines of one inventory.
`fresh` says that the theoretical quantity is what the place held when it was read
and that nothing moved since; `sound` the lines that were right when the inventory
was validated and that nobody wrote since; both are history variables. The lines are
readonly in the view only (`physical_inventory_views.xml:95`), so that `Count`,
`TypeQuantity` and `AddLine` go on as long as some form shows a state that allows them,
validated or not. `opening` is the stock at the start,
which the correction wizard replays from.

`InventoryRepairs` has four wizards that preview and apply. A preview keeps the
numbers of the rows with something to do (`kept`), or the ids of lines; rows are
applied one by one, in their order.

### DirectReceipts

A form stays open while others work, so a form keeps what it read (`shown`) and what
others changed since (`moved`, a history variable). A line of a direct receipt reads the
cost of its product when the product is chosen; the receipt is valued at that cost or
at the new price of the line. A return is planned with its draft credit note, and leaves
later with what is counted then. The form of a receipt's details writes back all of
them, also those that it did not change.

### TillApprovals, TillDiscounts, TillClosing, TillLoyalty

These follow the JavaScript of the page: an `await` ends a step, the cashier
goes on meanwhile, each call may fail on its own. `click[c]` is a handler of
`pay()` with what it has read; `validating` the calls of `validateOrder` with their
copy of the pending logs. `judged`, `fresh`, `passed` and `crossed` are history
variables. A reload loses what is only in memory.

`TillClosing` has several popups (`Popups`), each with its own run of `closeSession`
(`closing[c]`), because the page stays live during its three calls
(`closing_popup_patch.js:147-197`): the cashier may confirm another count
(`CountClosing`), leave the popup (`LeavePopup`), sell, and close from a new popup.
`read` is the count that the popup showed when it was closed: `formatCurrency` has
rounded it to the unit (`Shown`), while the server keeps the amount as it was entered.
An error of the server on `update_closing_control_state_session` is swallowed and the
closing goes on. The history variable `witness` names what escapes: a count confirmed
after the one that was posted had been read (`overtaken`), and tickets sold while a
closing was on its way (`rung`). Amounts are in halves of a unit, in a currency without
decimals whose thousands are separated by spaces or commas, which `parseFloat` is given
without.

Some awaits are one step with what follows, where nothing that the properties are about
can come between: the answer of the push and the reading of the count; the saving of a
count, which is served at once or never; the code of a manager and its verdict; the
rules that `addLineToOrder` awaits; the popup of the loyalty wizard.

### PosHistoryImport, DailyBudgets

`PosHistoryImport` groups the rows of a sheet into orders, flattens them into the
lines of a preview and groups them again; an order that raises is swallowed with
what it had written. `DailyBudgets` stores for each day what was invoiced on it,
computed again only by the handlers that call for it, and follows native budgets
that follow it. The period and the lines are readonly in the view only
(`budget_analytic_daily_view.xml:47-76`): a form loaded earlier may still save them, and
`late` says which of the two was written after its step. A line may be moved to another
day or account (`MoveDay`), on which its figure depends.

## 4. Runs, bounds and what they show

All bounds are in the `.cfg` files. A "violation" run states what a comment or
the documentation says and shows that the code does otherwise (section 7).

| Run | Instance | Properties | States |
|---|---|---|---|
| `threaded_client` | 2 threads, 1 process, 5 tokens, 3 turns | `TypeOK`, `HandledWithinTurns`, `ImplementsRemoteCall` | 632 k |
| `orders` | 2 requests on 1 order with 3 attempts, or 1 request on 2 orders | `TypeOK`, `SnapshotStillValid`, `ConfirmedWasAccepted`, `NoNewCopyAfterAcceptance`, `ImplementsContract` | 354 k |
| `catalogue` | 2 imports of 3 items over 2 pages; 3 barcodes of a product; 2 contacts; 3 sheets | `CatalogueInv`, `CleanImportIsComplete`, `LossIsBounded`, `ContactsAreAsTold`, `SheetsAreTold`, `ProductImportsEnd` | 271 k |
| `overlapping_imports` | 1 order, 2 deliveries, 2 jobs, one batch | `ImportInv`, `MarkedWhileAwaiting` | 527 k |
| `one_worker` | 1 job over an order delivered twice, batches of one, or over 2 orders; 1 thread, 4 tokens; 1 till, 2 clients, 2 tickets | `DeliveryFillsOneReceipt`, `ImportsEnd`, `StaleTokenDoesNotFailPost`, `CallsEnd`, `CardInv` | 494 k |
| `published_meanwhile` | 1 order, 2 deliveries, 1 job | violation: `NothingPublishedIsMissed` | |
| `accounting` | 1 session, 1 payment on account, 2 settlements (one without customer code), 1 invoice, 2 wizards; 2 tickets paid in 5 ways, 1 settlement, 2 invoices; 2 tickets, a sale billed twice and a credit note, 2 days; 1 invoice, 1 credit note, 2 users | `EntriesInv`, `AmountsInv`, `MarksFollowTheEntry`, `FneInv` | 758 k |
| `job_queue` | chain, fork or join of at most 3 jobs, 2 workers, a sequential channel, one trouble; graphs of 4 jobs by 3 calls | `JobInv`, `JobGraphInv`, `AtMostOnce`, `ChildIsReleased`, `JobsSettle` | 194 k |
| `stock` | 2 transfers, 1 request; 2 places, 2 lines; 2 receipts of 3 units at most, 3 bills; 3 lines to repair; 1 direct receipt, 1 return, 2 forms | `StockInv`, `ClaimIsLoss`, `BilledIsReceived`, `RepairsAreSafe` | 1.3 M |
| `credit` | 1 employee, 2 credits, 2 invoices; 2 till orders; 2 documents, 1 settlement, amounts up to 2, balances in -2..2 | `FoodInv`, `MoneyInv`, `LedgerTracesConsumption`, `LimitRespected` | 602 k |
| `linked` | the food credits of `credit` | violation: `LinkedIsBilled` | |
| `till` | 2 tickets, 2 codes; 3 lines with promotions; 2 closing popups, cash up to 3 halves, 2 sales; 4 sheets of past sales; 2 bookings, 2 days, 2 native budgets | `TillInv`, `TillSteps` | 1.1 M |

Why the bounds are enough:

- Client. Two threads meet in every order at the cache; a third adds nothing
  that two do not show, since what a thread leaves to the others is the cache
  alone. Three turns are the real `MAX_RETRIES`. Five tokens are enough for one
  in the cache and two in each thread (`InUse`), so that a login never waits for
  a token. Workers share nothing, hence one process.
- Orders. Two requests on one order are the interleavings the guards and the
  snapshots are about, with the real number of attempts. Mixed verdicts need two
  orders in one lot. The proofs drop these bounds.
- Import. Two deliveries of one order make overwriting, second receipts and
  partial batches possible; two jobs overlap in all ways. `overlapping_imports`
  has batches large enough for everything, the real case below 100 deliveries;
  `one_worker` has commits between deliveries.
- Catalogue. A page boundary, a commit that is not at a page boundary and two
  imports that lock rows in different orders need three items. Three barcodes
  are an active one, another and that of X3. The proofs drop these bounds.
- Accounting. Two settlements, one of which is not coded, tell "in the entry" from
  "found by the marking". `MaxCopies` tells a second booking from the first. An
  invoice and the note that reverses it is all that FNE relates; one post that nobody
  heard of may be followed by others that are heard (`MaxUnheard`). Two tickets with taxes
  of one sign, of both and of none, and a method of each kind, are what the entries
  distinguish; two days, two cashiers of one session and a session without tickets are
  what the reports do. The proofs drop the amounts and the numbers.
- Job queue. Three jobs make a chain, a fork and a join; one trouble of each kind
  anywhere, a concurrency failure among them, shows what it does alone. Four jobs and
  three calls nest a chain in a group, link it by `on_done` and delay it twice. The
  proofs drop these bounds.
- Stock. Two transfers tell "its request" from "a request"; two places share a product,
  two lines may share a place; two receipts and three bills leave room for a draft, a
  credit note and the bill of the receipt. Of two transfers, one is confirmed a second
  time (`OnceOrTwice`), which is what makes copies. Two forms are one that is late and
  one that was faster; two details are one that is typed and one that is not. The proofs
  drop these.
- Credit. Two documents allow a copy; amounts up to 2 tell a changed amount from
  the one that was consumed; balances reach below zero. Once the consumption was changed
  for no document one document is enough, and none once it was typed over or a sheet
  names the client twice, since these only meet the consumption itself; one refund crosses
  the payments of two credits. The view drops the links from credits to invoices, which no
  action reads and only the run `linked`, without it, is about. The proofs drop these.
- Till. Two tickets tell the one a handler began with from the current one, and one of
  them is paid; two codes are those one `pay()` may take, and one is enough at a till
  without a code of its own; one handler at a time, which the overlay of the page
  enforces but for double clicks on validation (two calls). Two
  popups are one whose closing is on its way and one that is opened meanwhile; cash up
  to three halves has a fraction to round, a count and an amount to add. A second native
  budget needs one booking only; one line is moved, and forms are saved late where there
  are no bookings, since a figure depends on neither state nor amounts. The proofs drop
  these, and allow any handlers at once.

Two properties carry a condition that is part of what they say.
`DeliveryFillsOneReceipt` holds if imports do not overlap OR all deliveries fit
one batch, and `MarkedWhileAwaiting` if one batch is enough: with several
batches, the second one writes orders from a preload that the first commit has
made older. Without the conditions TLC finds both violated.
`StaleTokenDoesNotFailPost` is checked with one thread because it is about one:
with two, the renewal may take from the cache a token the other thread stored
after its revocation, and no second renewal is allowed.

`CHECK_DEADLOCK FALSE` stands where the system may stop: a call that returned, an
import that ended, users who do nothing, and bounds that are reached.

## 5. Fairness

- `SageX3Client!Fairness`: weak fairness of each thread's steps and of time.
  Every HTTP call of the client has a timeout and every pause between turns a
  length; nothing is assumed of X3, which may refuse for ever, and `Start` is
  not fair.
- `DeliveryImport!ImportFairSpec`: weak fairness of each job's steps, for the same
  reason; a conflict ends in `Abort`, which is one of these steps. Neither users
  nor X3 are fair.
- `ProductImport!ProductFairSpec`: strong fairness of each import's steps. A step
  that waits for a row held by the other import is disabled and enabled again as
  the other commits; PostgreSQL gives a row to those who wait for it in their
  turn, and breaks a circle by killing one of them.
- `JobQueue!JobFairness`: the runner's loop, the workers and the delivery of
  notifications go on (`runner.py` selects in a loop with a timeout and asks the
  table again). Faults, clicks and new jobs are not fair. The behaviours that only
  build a graph have no fair part.

The other modules state safety only: nothing in their code says when a user
comes back.

## 6. Proofs

Each proof module states, for any sets and any bounds that the assumptions allow,
what the runs check on one instance. The assumptions are the named ASSUMEs of the
modules: bounds are positive, sets that are summed over are finite, model values
differ.

### Orders_proofs

For any sets of orders and requests and any positive bounds:

| Theorem | Establishes |
|---|---|
| `OrdersAreInvariant`, `OrdersAreTyped` | the inductive invariant `OrderIInv`, `TypeOK` |
| `SnapshotsStayValid` | `SnapshotStillValid` |
| `NoPurchaseWithoutX3` | `ConfirmedWasAccepted`, with the existence of accepted orders at X3 |
| `AcceptedNotSentAgain` | `NoNewCopyAfterAcceptance` |
| `AcceptanceStays` | `AcceptanceIsFinal` |
| `OrdersKeepTheContract` | `PurchaseOrders` implements `OrderContract` |
| `LimitIsExplained` | `LimitInv`, part of `MoneyInv` |
| `LedgerTraces`, `LimitIsRespected` | `LedgerTracesConsumption`, `LimitRespected` |
| `CardIsSound` | `LoyaltyInv`, part of `MoneyInv` |
| `FoodIsSpentOnce` | `FoodInv` |
| `MoneyIsSound` | `FoodInv` and `MoneyInv` in the composed specification |

The properties of the orders are not inductive one by one. That an acceptance is
never overwritten by a later rejection needs `SnapshotStillValid`: a request that
may still commit has targets that are not accepted. That property needs to know
that an idle request has no targets and accepts nothing else (`RequestShape`), and
that a row not created yet carries no acceptance its creation would drop
(`UnbornIsBlank`).
`OrderIInv` is their conjunction with `TypeOK`. Every office handler is reduced
once, in `OfficeStep`, to the commit of one row that keeps the acceptance flag
and confirms no order addressed to X3; the rest has one lemma per kind of step.
The action properties and the refinement follow from it and one step. The
step to look at is `Record`: it maps to `Acknowledge`, whose guard (the orders
are created and not acknowledged yet) is what `SnapshotStillValid` and
`AcceptedExistsAtX3` give. Assumptions: `RetriesAssumption` and
`CopiesAssumption`. No set has to be finite.

Consumption of a credit is a sum over documents and settlements, and the proofs carry
it through each handler: `Sums` shows how `SumFunctionOnSet` changes with one term. The
library's induction theorems take operators and cannot be used, so `Sums` proves an
induction on the subsets of a finite set from a well-founded order
(`SubsetInduction`), unfolds the recursive function of the fold, and shows that any two
such functions agree. `LimitIInv` adds that a client without limit owes nothing
(`ClosedIsBlank`) and that a document's mark follows its state (`MarksFollow`).
`FoodIInv`: lines are within what was granted (`LinesAreWithin`, `SpareIsGranted`), and
two bills share no consumption, those put back by hand excepted (`BillsAreApart`).
`LoyaltyInv` is inductive.

### OneWorker_proofs

For any threads, processes, tokens, orders, deliveries, jobs, tickets and clients, and
bounds allowed by the assumptions of the modules (at least two turns of a call):

| Theorem | Establishes |
|---|---|
| `Invariance`, `TypeCorrect` | the inductive invariant `IInv` of the client, `TypeOK` |
| `OncePerTurn` | `HandledWithinTurns` |
| `Refinement` | `SageX3Client` implements `RemoteCall` |
| `StaleTokenIsRenewed` | `StaleTokenDoesNotFailPost`, where each process has one thread |
| `PassedIsHandled` | `ImportInv` |
| `OneReceipt` | `DeliveryFillsOneReceipt` |
| `MarkedAsPreloaded` | `MarkedWhileAwaiting` |
| `CardsAreTold` | `CardInv` |
| `WorkerIsSound` | `StaleTokenDoesNotFailPost`, `CardInv` and `DeliveryFillsOneReceipt`, in the composed specification |

`HandledWithinTurns` bounds the renewal of a call and what X3 handled of it, together,
by the turns taken. It is not inductive: `IInv` adds that a call never takes more than
`MaxRetries` turns, and that it renews only on its way to a token, never with a request
in flight (`Bounded`). Each action is reduced to what it does to the call of its thread
(`ThreadMoves`), or shown to leave what matters of all calls alone (`AllStay`,
for revocations and time). The cache needs only its type there: `IInv` does not
depend on who stored which token, which is why it holds for any interleaving of the
threads. `StaleTokenDoesNotFailPost` does depend on it: `TokensAreHonoured` says that a
post that nothing failed renews its token at most once, from an empty cache, and sends
no stale token after. It holds for any number of processes of one thread each
(`OneThreadEach`, a hypothesis of the theorem that `one_worker` satisfies); with two
threads TLC shows it false.

`ImportIInv` says that a delivery a job is still to deal with is in its list, and
that what it is about to add to the cursor (`mark`) was in its answer or was
passed before (`MarkInv`, `ListInv`). `GoodsInv` follows the goods: which receipts
hold a delivery (`ReceiptInv`), what a job that has asked knows (`AskInv`), and what
one that is applying a batch has not yet committed (`ApplyInv`). The two named
ways of slipping by, `late` and `aged`, are the reason `PassedWasHandled` cannot
be stated without them.

`CardIInv` adds to `CardInv` whose balance an order on the screen has
(`LookupIsTold`), and what was moved on the card between the push of an order and its
confirmation (`OrderIsTold`).

### Accounting_proofs

| Theorem | Establishes |
|---|---|
| `EntriesInvariant`, `MarksFollow` | `EntriesInv`, `MarksFollowTheEntry` |
| `LinesAreSound` | `LinesInv`, part of `AmountsInv`: entries balance, sales are booked once |
| `ReportsAgree` | `ReportsInv`, part of `AmountsInv`: the reports tell the same sales |
| `CertificatesAreSigned` | `FneInv` |
| `AccountsAreSound` | all of them, in the composed specification |

`EntriesIInv` adds what a wizard remembers (`SenderInv`): a settlement it sends was
paid and seen at the start, and is booked once X3 has taken the entry. The proof
needed `Sessions` and `Settlements` to be disjoint, which the model left open:
both index `booked`. `FneIInv` adds that only a certificate gives a reference, that
wizards show versions that the note has had (`ShownIsMade`), and what a request knows
(`RequestInv`): what it found certified is still so, it writes only what it found without
certificate and what FNE signed for it, and sends only what a wizard showed.

`LinesInv` and `ReportsInv` follow from types alone: they relate sums taken over the same
rows in different orders and by different keys, for any rows and amounts. `Sums`
exchanges the order of two sums (`SumExchange`), splits one by a key (`SumByKey`), adds
and subtracts them; the balance of an entry, the equality of two reports, and the total
of the sessions against the period come down to these.

### JobQueue_proofs

| Theorem | Establishes |
|---|---|
| `BaseInvariant` | the inductive invariant of locks, places and counts |
| `EffectsAtMostOnce` | `AtMostOnce` |
| `OneWorkerPerJob` | `OneWorker` |
| `FamilyInvariant`, `ParentsFirst`, `ChildrenReleased` | parents before children, `ChildIsReleased` |
| `CountInvariant` | tries, and slots against capacities |
| `QueueIsSound` | `JobInv` |
| `GraphIInvHolds`, `GraphsAreSound` | the inductive invariant `GraphIInv`, `JobGraphInv` |

`BaseInv`: types (`Typed`), what a click still knows (`ClickInv`), where the runner
has a job (`PlaceInv`), a performing worker holds the lock of a started job
(`LockInv`), and effects are counted against requests (`SpentInv`). `FamilyInv`
adds that a released job has its parents done (`DoneInv`, `ParentInv`); `CountInv`
the tries, which are bounded by the maximum of a job and by its concurrency failures
(`RetryInv`, `TryInv`); `SlotInv` that the slots the runner counts are
those of the jobs it started, and that a yielded slot fits (`YieldedFits`, a counting
lemma on cardinalities). `ChildIsReleased` was not true as first stated: a job that is
retried while a user clicks on its parent is released on an outdated view; the
history variable had to record it.

`GraphIInv` is about any number of objects, nested to any depth. It says how objects are
made (`WellMade`: of earlier ones, with the ends and the jobs that their parts give them),
that what the calls say has no cycle (`Loopless`), that what a job depends on was said
(`DependsTold`) and lies with it in one stored graph (`DependsInGraph`), how far what is
performed at once has come (`Sorted`: what is next is what waits for nothing, and what waits
counts those that have not run), and that the batches of a split are the slices of one
recordset (`BatchesKept`). The argument has four parts.

- A walk: `Reached` is a recursive function over as many turns as there can be objects.
  That it is then closed is a count, since every turn before that adds a member
  (`ReachedIsLeast`); so `Closure` is the least transitive relation, the only thing the
  rest uses.
- The order: the jobs of an object are connected to the jobs it ends with, and from those
  it begins with, by induction over the numbers of the objects and, in a chain, along it
  (`EndsAreReached`, `ChainLeads`). So whatever the calls say is in the graph
  (`OrderIsReached`), where no chain begins or ends with a sequence of several jobs: this is
  where the swapped `_head` and `_tail` (section 7) bite. The converse needs no condition.
- The sort: a job not yet run that waits for none exists as long as any is left, because
  relations over finite sets without cycle have a first member (`SomeComesFirst`).
- The slices: they are disjoint, in order, not empty, and hold every record
  (`SlicesAreWhole`), by division with remainder.

### Stock_proofs

| Theorem | Establishes |
|---|---|
| `TransfersAgree` | `TransferInv`: the two pickings, the transfer and the request agree |
| `ReceiptsAreBilled` | `ReceptionInv`, `BilledIsReceived` |
| `InventoryTellsTheTruth` | `InventoryInv`, `ClaimIsLoss` |
| `RepairsKeepTheirWord` | `RepairInv`, `RepairsAreSafe` |
| `DirectReceiptsAreKept` | `DirectInv`: stock, costs and details of direct receipts and returns |
| `StockIsSound` | all of them, in the composed specification |

`TransferIInv` adds that what is not there has no pickings, and that a request names a
transfer that is there (`NothingIsBlank`). `ReceptionInv` is inductive once it says that
no more is returned than was received. `InventoryIInv` adds that a line that is still
fresh has the quantity of its place (`FreshIsExact`) and that what a return wizard shows
comes from a sound line (`WizardProposes`). A sheet of repairs is applied row by row:
the proof follows the recursive function of the fold over the rows by induction on their
subsets, with what each row leaves of the lines (`PricedBy`, `CostedBy`). `DirectIInv`
adds that what a form shows is true of all that nobody wrote since (`FormsAreFresh`),
and that nothing comes or leaves before its time (`NothingBeforeItsTime`).

### Till_proofs

For any tickets, handlers, codes, products, amounts, sheets of past sales, bookings and
days:

| Theorem | Establishes |
|---|---|
| `PaidWithCodes` | `ApprovalInv`: what is paid was approved, each code is logged once, with its ticket |
| `MarksTell` | `DiscountInv`: a line's mark tells its discount |
| `ClosedAsTold` | `ClosingInv`, `ClosedAsCounted` |
| `HistoryIsSound` | `DraftIsReported`, `HistoryIsWhole` |
| `BudgetsAreSound` | `BudgetInv` |
| `TillIsSound`, `TillStepsHold` | `TillInv` and `TillSteps`, in the composed specification |

`ApprovalIInv` adds what a handler of `pay()` that runs over awaits still knows of its
ticket (`ClickIsSound`), what an open payment was judged on (`JudgedIsApproved`), and
that a code waits in one place, with its ticket or in one call to the server
(`CodesWaitOnce`). `DiscountIInv` is about each line by itself (`LineIsSound`): what it
was last given by, and by which rule. `ClosingIInv` ties the globals of the page to what
the cashier did (`CountIsOwn`), each closing to the count it has read and posted
(`PostIsLast`), and says that no ticket but those sold since waits on the page past the
push (`TicketsArePushed`) and that the report comes last (`ReportIsLast`). `BudgetIInv`
says which days a request that is running reads as they are (`MakingIsSound`), that lines
are those of the period unless a form was saved late (`LinesAreOfPeriod`), and that all
figures but the missed ones are those of the bookings of their day and account
(`FiguresAre`, over sums of `Sums`).

`HistoryIInv` says that the wizard shows each row that the parser kept once, with its
reference, those of one reference in the order of the sheet (`Previews`). Grouping,
flattening by days and grouping again are recursive functions: what each computes is
proved by an induction on the number of lines (`GroupedUpTo`), orders (`Telling`) and
results (`LeftOf`). That rows of one order stay in their order is what makes the second
grouping give the first one back.

### Catalogue_proofs

For any customers, catalogue, sheets, wizards, imports and barcodes, and every size of a
page and of a batch:

| Theorem | Establishes |
|---|---|
| `ContactsAreRight` | `ContactTypeOK`, `ContactsAreAsTold` |
| `ProductsAreComplete` | `ProductTypeOK`, `CleanImportIsComplete` |
| `LossesAreBounded` | `LossIsBounded` |
| `SheetsAreRight` | `SheetInv`, `SheetsAreTold` |
| `BarcodesAgree` | `BarcodeInv` |
| `CatalogueIsSound` | all of them, in the composed specification |

The two imports are loops over pages that a third party changes. `ContactIInv` says that
pages tell the codes in their order, that what the snapshot shows is there unless another
one wrote it (`SeenStays`), and that an import that is alone has done, up to the item it
is at, what it was told (`AloneIsExact`). `ProductIInv` cuts the catalogue at the item an
import is at: those before are ignored, in the open transaction or stored (`DoneTo`),
those after are on the rest of the page or further (`PageIsRead`), and what it was told
at the beginning is no more than what X3 says now (`DueIsTold`).

`SheetIInv` follows a confirmation row by row over a table that has changed since the
preview: the records it started from keep their places (`Follows`, `ConfirmationIsSound`),
and the last row of each article is what one of its records says (`LinesAreApplied`).
The recursive functions of the rows are handled by an induction on numbers that `Sums`
proves (`CountInduction`).

`BarcodeIInv` is about two transactions at once. `Ran` says what any request does to the
snapshot it runs on: it turns no record on without writing the main barcode, and copies
the main one only with the rows of what was active and is. It is shown of each request,
those that run over several records in turn by induction. `KeptSince` says what others
have left of the slow request's snapshot. From both, `JoinedIsSound`: the rows that the
slow request wrote, put over those of the others that it did not, still have at most one
active record and the main barcode of it, if no row was written by both. Without the row
of the product in these conflicts it is false, which the proof shows in the one place
that uses it.

### What is only model-checked

- Liveness (`CallsEnd`, `ImportsEnd`, `ProductImportsEnd`, `JobsSettle`) and what
  needs ENABLED: out of this prover's reach.

### What the proofs changed

Some models were rewritten so that they can be reasoned about, without changing
what they do: `FoodCredit` from sequences of
payments to orders and sums, `PhysicalInventory`, `Receptions` and `InventoryRepairs` from
filtered sequences to sets of numbers of lines and rows, `SheetWizards`,
`ProductBarcodes` and `PosHistoryImport` from folds to recursive functions over rows and
records, `JobGraphs` from recursive operators to one recursive function of turns
(`Reached`), with names counted instead of filtered from a sequence.

Others were wrong or said less than was meant. Guards that exist only in a view were
taken for guards of the server (lines of an inventory and of a daily budget, the list of
limits), a page was taken to stop while its calls are on their way (closing of a till),
and moves the code allows were missing (a cancelled invoice put back, a retry past the
maximum, a note certified unposted, a client twice in a sheet): the models have them
now, and the properties name what they break. `HandledWithinTurns` left renewals out;
`LossIsBounded` took the place of a property that only repeated two assignments.
`NoSecondRecord` held for one row of an article only, and is now about any rows. Two
cases of a till handler overlapped, so that which one applied was left to the order of
the text; they are exclusive now. `Sessions` and `Settlements`, which both index
`booked`, had to be disjoint. `ChildIsReleased` had to record what a release saw.

## 7. Divergences met

Two are shown by a run:

- `published_meanwhile`: `DOCUMENTATION.md:722` says the import gets the
  deliveries since `last_import_date`. The cursor is written with the time of
  the end of the job, so what X3 publishes between the GET and that moment is
  passed and never asked for.
- `linked`: `generate_invoice_credit_food.py:223` links invoices to credits; the
  i-th invoice goes to the i-th credit whose id is in no error message, and the
  messages give names, so one refused credit shifts the links after it.

Others are in the models as the code does them; those that a property watches are
listed as hazards:

- Orders. On a global failure of the grouped call no order could be sent, says
  `purchase_order.py:61-64`; a post that timed out after X3 handled it raises after
  the orders were created, and the next submission sends them again. An order
  rejected by a grouped submission stays submitted, and no button or search takes
  it again until it is cancelled and reset. An accepted order whose confirmation
  raised cannot be confirmed by any path. One order that cannot be formatted
  blocks the whole lot. The copy of a received order is born received
  (`custom_stock` `purchase_order.py:40`). The loop that writes the verdicts may raise half
  way (`custom_api_sage_x3` `purchase_order.py:229-244`): the exception is swallowed
  (`:60`) and the part that was written committed (`:83`).
- Client. A 401 is renewed on the first turn of a post only (`sage_x3_mixin.py:207`
  reads otherwise), and never by a get.
- Deliveries. A second delivery of one order in one answer overwrites the first
  one's quantity (`purchase_order.py:644`).
- Products and contacts. The docstring of `insert_product_init.py:179` promises a
  rollback per product; one product that raises rolls back every item since the
  last commit, and a swallowed error of SQL loses them without a word. The commit at
  every `COMMIT_STEP`-th item (`:178`) is skipped when that item is left out. An archived
  contact gets a duplicate at every import, overlapping imports both create one,
  and the branches at `create_contact_sage.py:88-96` are unreachable.
  `fix_all_gs1_barcodes_direct` (`insert_product_init.py:1033`) calls itself.
- Barcodes. The main barcode alternates at each import when there is an active
  record; deleting several records, the active one among them, leaves the main one
  behind; the condition `if barcode or …` of the import wizard is always true.
- Accounts. `account_move.py:1026` says the settlements it marks are in the ENCAI
  entry of the day; they are searched again, with another domain and possibly in a
  newer snapshot. The calls that mark sessions, POS payments and invoices are
  commented out (`:923`, `:968`, `:1239`): each run sends them again.
- FNE. The message of `fne_certification` `account_move.py:146` says that only validated
  invoices are certified; the refund wizard (`fne_certification_refund.py:88-189`) never
  looks at the state of its note, and sends the lines it was opened with.
- Amounts. `_equilibrer_lignes` doubles the gap of a credit note whose lines do not add
  up to its total, instead of closing it (the sign of the line added is that of an
  invoice). A ticket paid partly in cash and partly on account is booked in ENCAI and
  again in the entry of the client. DECAI adds the absolute amounts of refunds paid back by
  card, which ENCAI does not have. A method without account is left out of DECAI, and what
  it paid stays on the till's account.
- Reports. A sale invoiced in two parts on two days counts whole on each; the
  statistics count the sales of a client once for each of his categories; the detailed
  report shows sales of negative quantity, and till lines of negative price, as positive
  turnover. The recapitulation leaves out rewards and children of combos; the closing
  keeps rewards and cancelled tickets in its table of taxes. The cash at the start of a
  session shared by two cashiers counts for each of them. The sheet of the closing has no
  row for the purse that its first total includes.
- Credit. A credit note in payment mode "credit" consumes the limit like an
  invoice; deleting the limit forgets what the client owes; a confirmed sheet
  overwrites the consumption of the meantime, and records the change twice if it names a
  client twice (`import_limit_credit_wizard.py:157-167`). The list of limits lets the
  consumption be typed over without an operation (`limit_credit_views.xml:54-58`). A
  cancelled invoice of a food credit that was billed again can be put back
  (`custom_account` `account_move.py:75-79`): two invoices of one consumption. An import
  of balances takes negative ones (`import_loyalty_points_wizard.py:161`). The wizard's
  motive "Réglé une
  facture" reads a field that does not exist and always fails.
- Stock. Deleting a receipt cascades to its transfer and request
  (`picking_inter_company.py:19`, `:280`). The correction wizard compares with the
  quantity of the product in all places (`:81`) where its docstring (`:13`) speaks of
  the line. A return to a supplier makes its credit note when it is planned
  (`retour_fournisseur_wizard.py:161`), where the manual (3.4) has it after the goods
  left; it stays if the return is cancelled or leaves with less. The receipt that a
  store cancels leaves the shipment of the other to go (`picking_inter_company.py:352`).
  The lines of a validated inventory can be written by a form that was open before
  (`physical_inventory.py:480-502` guards their creation and deletion only). The form of
  a receipt's details puts older texts back over what another user typed meanwhile.
- Job queue. `job.py:117-120` says that a job is retried up to `max_retries`; a
  concurrency error of PostgreSQL is made a retryable error outside `Job.perform`
  (`controllers/main.py:153-164`) and postponed without looking at the limit. A cancelled
  job that was already asked for is still run
  (`runner.py:309`); a failed child blocks a sequential channel
  (`channels.py:518`). In nested chains `_head` and `_tail` are swapped
  (`delay.py:330-334` against `:35-51`); `delay()` drops the jobs without key of a
  graph whose jobs with key all wait already (`delay.py:266-288`).
- Till. Pending logs are lost when the first `validateOrder` does not finalise
  (`payment_screen_patch.js:127`). The comment at `global_discount_patch.js:104` says a
  manual discount is kept; the flag it tests is never set, and a typed discount on a
  marked line is not seen as manual. The amount entered at the opening is added to the
  closing count. The count that closes the session is read before the first of three
  calls (`closing_popup_patch.js:155`), during which another may be confirmed and saved,
  which is then the one printed; a ticket sold meanwhile is not in its report. The
  balance of a card is captured on the order that is on the screen after the await; the
  receipt promises its change to a client who gets none and counts a refund to the card
  as used. A gift card change equal to its balance is skipped (`session.py`).
- Sales history. Errors of the parser are dropped (`pos_import_wizard.py:204`); the
  same sheet imported twice makes its orders twice.
- Budgets. Credit notes count as positive, and a line whole for each of its
  accounts (`budget_analytic_daily.py:297-316`).
- Not modelled, met while reading: the AVCO guard's docstrings (`:7`, `:45`) against
  its code (`:92`), its cron's `type='product'`; the monthly cron of the reliquats
  calls `action_confirm`, which does not exist.

## 8. What is not modelled

- Labels, third parties and due dates of the entries; unit prices of deliveries; the
  wording of messages; the extraction of document numbers.
- The branch of a receipt whose amount without taxes is not positive
  (`stock_picking.py:132-137`), which no order of `Receptions` reaches; taxes and families
  that an item of X3 left out by `prepare_product_values` leaves behind.
- Odoo and PostgreSQL themselves, except as in section 2; two-step approval of
  purchases, which is off.
- Screens that only show, reports other than those on sales, labels, displays, menus,
  login page: no protocol. Of the reports on sales, margins, quantities, percentages,
  filters and layout.
- AVCO guard: it exists for floating-point corruption, which neither TLC nor the
  provers reason about.
- Price history: a log nothing depends on but labels. The stock
  correction of a receipt: its screen is commented out and no access rule opens its model.
  Dashboards call handlers modelled elsewhere.
- The throttle of channels and the removal of old jobs in `queue_job`.

## 9. Plan

Every invariant, action property and refinement that a run checks is proved. What could
follow:

1. Compositions: an order followed from submission to receipt (`PurchaseOrders` with
   `DeliveryImport` and `Receptions`), over one client.
2. `JobGraphs` feeding `JobQueue`: the stored graphs as `Parents` of the jobs, with the
   priority and the date of a delayable, and the throttle of channels.
3. The sums of the reports with rounding, where amounts have decimals.

## 10. Running it

    tlc -workers 2 -config Threaded.cfg SageX3Client.tla
    tlapm Orders_proofs.tla

Every run takes less than five minutes on two cores, and every proof module less than
a quarter of an hour.
