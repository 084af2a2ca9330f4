# Formal models of InternetMS

InternetMS is a Django application for an internet provider: customers and their
services, quotations, invoices, receipts and credit notes, subscriptions billed
by period, stock with purchases and point-of-sale carts, and the work reports
of technicians. It runs on PostgreSQL at READ COMMITTED, without
`ATOMIC_REQUESTS`, behind gunicorn with four workers (`Dockerfile`,
`docker-compose.yml`). Requests therefore run concurrently, and what keeps them
apart is `select_for_update`, unique constraints, and nothing else.

This directory holds TLA+ models of that core, TLC runs that check them on
small instances, and TLAPS proofs of theorems about them.

## 1. The system

| Part | State | Operations | Interacts with |
|---|---|---|---|
| Invoice settlement (`billing/services.py`, `BillingService`) | invoices, receipts and credit notes, one `BillingDocument` table; stored status, total, replacement links | create, edit draft, void, reissue, pay, credit, void credit note | completes the stock sale on full payment, moves the subscription period along |
| Subscriptions (`SubscriptionService`) | subscription status and `paid_through_date`; periods with a month range, status and invoice | create period, renew, cancel, sync with packages, void with its invoice | invoices one period each, receipts and credit notes settle it |
| Worklists (`customers/views.py`, `billing/subscription_reporting.py`) | none: queries over periods | badges, due soon, unpaid, merged coverage | reads subscriptions |
| Quotations (`BillingService`) | version chain, status, `converted_invoice` | create version, send, accept, reject, convert | becomes an invoice |
| Billing sheets (`BillingSheetService`) | sheet, charges, its invoice | create, edit, charge, generate invoice | invoices |
| Numbering (`billing/numbering.py`, `inventory/numbering.py`) | one counter row per tenant, kind and year or day | next number | every document |
| Stock and purchases (`InventoryService`, `Purchase`) | balances, movements, serialized units, legacy `Product.quantity`; purchase lines and status | edit, confirm, cancel a purchase; adjust; complete a sale | called by purchases, by payment of an invoice |
| Import dialog (`purchase-import.js`, `serial-validation.js`) | source, columns, rows and their verdicts; requests under way, a serial check | choose and review a source, edit, exclude, add the rows to the form | sends reviews to the server, shares its serial check with the purchase form |
| Point-of-sale page (`inventory-ui.js`, `jims-ui.js`) | the cart as shown, fields, a modal, requests under way, a confirmation | change lines, edit and save details, check out | carts |
| Carts (`CartService`, `cart_lifecycle.py`) | cart status, lines | start, add, convert, checkout, abandon, restore, cleanup | becomes an invoice or a quotation, checkout pays it |
| Pricing (`inventory/services.py`, `products/`) | catalogue prices, discounts, limits | price a draft, bill it, credit it | carts, invoices of integrations |
| Products (`products/`) | catalogue, code counter, batch receipts | create one, create a batch, update, delete | stock |
| Purchase import (`inventory/purchase_batch.py`) | pasted rows, proposals, their receipts | save rows, edit, confirm | products, purchases |
| Customers (`customers/`) | the record, its status and audit trail; sites, services, agreed packages | create, edit, archive, restore, delete; add, change and end services | subscriptions |
| Custom fields (`custom_fields/`) | definitions and values | define, edit, deactivate, fill in | forms of customers, products, packages |
| Integrations (`integrations/`, `inventory/api.py`) | assets of a customer | replace by a snapshot; create an invoice | customers, invoices |
| Work reports (`work_reports/services.py`) | report status, payment records and batches | submit, approve, reject, correct; record, confirm, dispute, void, replace | - |
| Accounts (`users/`) | users, memberships, invitations, support sessions | invite, accept, change role and status, support | every handler asks for its permissions |
| Handover cleanup (`inventory/handover_cleanup.py`) | a plan of rows | plan, apply | every table |
| Row locks (all of the above) | rows locked by each transaction | lock, commit, abort | - |

What makes it hard:

- **Unlocked check, later write.** `update_draft_invoice`, `reissue_invoice`,
  `create_invoice_from_quotation`, `create_quotation_version`,
  `cancel_subscription`, the purchase editor, the serial picker, the product form,
  the sheet form, definitions of custom fields and the account form read and check
  without a lock and write later.
- **Stored status.** Invoice status, period status, `paid_through_date`,
  `Product.quantity`, quotation and sheet status are stored and must be kept in step
  by every handler.
- **Retries.** Payment references, `Idempotency-Key`, workspace and batch tokens,
  repeated checkout and repeated confirmation must not take effect twice.
- **Chains.** Reissue after reissue, renewal of a voided period, voiding a
  credit note that settled an invoice, a payment record that replaces a voided one.
- **Pages.** A page goes on while its requests are under way: answers cross, are lost, or
  find the page changed; what was looked at before a wait is not looked at after it.
- **Lock order.** Handlers take the rows of invoice, period, subscription and
  product in different orders.

`PROJECT.json` lists each of these at its line, with the properties that cover it.

## 2. Modules

| Module | What it is | Instance | Proofs |
|---|---|---|---|
| `InvoiceLedger` | invoice settlement | `MCInvoiceLedger`, `MCAccounts` | `InvoiceLedgerProofs` |
| `Receivable`, `InvoiceReceivable` | what settlement promises, and the mapping | same | same |
| `CustomerServices` | sites, services, agreements of a customer | `MCAccounts` | `BackOfficeProofs` |
| `StockLedger` | stock, purchases, adjustments, sale of units | `MCStockLedger`, `MCSales`, `MCPurchasing` | `StockLedgerProofs` |
| `SalePricing` | what a counter sale costs | `MCSales` | `StockLedgerProofs` |
| `CounterScreen` | the point-of-sale page | `MCSales` | `CartsProofs` |
| `PurchaseScreen` | the import dialog of a purchase | `MCPurchasing` | `StockLedgerProofs` |
| `Subscriptions` | periods, the months they cover, renewal, settlement, cancellation | `MCSubscriptions` | `SubscriptionsProofs` |
| `CustomerWorklist` | what the lists say of the subscriptions of a customer | `MCSubscriptions` | `SubscriptionsProofs` (in part) |
| `Carts`, `CounterSale` | the sales counter, and what it promises | `MCCarts` | `CartsProofs` |
| `DocumentNumbers`, `GaplessNumbers` | numbering under row locks, and what it promises | `MCBillingDesk` | `BillingDeskProofs` |
| `LockOrder` | row locks of fourteen handlers | `MCBillingDesk` | `BillingDeskProofs` |
| `Quotations`, `BillingSheets` | versions and conversion; sheets and charges | `MCBillingDesk` | `BillingDeskProofs` |
| `ProductCodes` | codes of products, batches of new ones | `MCBackOffice` | `BackOfficeProofs` |
| `PurchaseImports`, `Invitations`, `TeamAccess` | pasted rows; invitations; who manages whom | `MCBackOffice` | `BackOfficeProofs` |
| `WorkReports`, `TechnicianPay` | reports and payments, and what they promise | `MCAdministration` | `AdministrationProofs` |
| `CustomFields`, `CustomerRecords` | fields and values; records and audit | `MCAdministration` | `AdministrationProofs` |
| `AssetSnapshots` | assets replaced by snapshots | `MCAdministration` | `AdministrationProofs` |
| `HandoverCleanup` | cleanup plans | `MCAdministration` | `BackOfficeProofs` |
| `Sums`, `SumsTheorems` | the sum of a money column over a set of rows | - | itself |

**When a handler is one action.** A handler that locks its rows with
`select_for_update` before it reads them holds the lock to its commit, so no other
handler sees or changes these rows in between: it is one action. A handler that
reads without a lock is two actions (three for the purchase editor, where
`Purchase.save` reads once more), and a request record (`req`, `edit`, `action`, ...)
holds what it read. A request may also fail in between (`AbandonRequest`,
`AbandonEdit`, `GiveUpEdit`, ...). A transaction that is refused rolls back and is no
step. Locks themselves are modelled where they are the question: in `DocumentNumbers`,
`AssetSnapshots` and `LockOrder`.

**Overlap.** With `Overlap = TRUE` (or `quotesInTurn`, `sheetsInTurn`, `fieldsInTurn`,
`recordsInTurn`, `accessInTurn` false) any action may run while such a request is
between its read and its write. That is the program as deployed. Otherwise a request
that has read must write or fail before anything else runs: one worker, or users who
never act on one row at the same time. Properties listed as "however requests
interleave" are checked and proved with both; the others need the assumption, and
section 4 says what breaks without it.

**Compositions.** Components that share no state are put into one MC module with a
variable that never changes and says which of them moves: their states add up instead
of multiplying, and one run checks them all. Components that do share state
(`CustomerWorklist` over `Subscriptions`, `AssetSnapshots` over `CustomerRecords`) extend
one another and move together.

### 2.1 InvoiceLedger

One record per column the settlement logic reads. `status`, `total`, `replacedBy`
and `original` are columns of the invoice; `lines` says that the invoice has a
product line, which is what decides on stock; `sale` is its `InventorySale`;
`period` is the status of the subscription period that links it (a pending period
links no invoice, and no code sets overdue). Receipts and credit notes are rows.
Statuses that only old data carries (sent, approved, rejected, cancelled,
reissued) are left out. An invoice whose total is zero stays issued: no payment
can be registered on it, and the model says so too.

`CreateInvoice` is `create_document`; `CreatePeriodInvoice` is `renew`, both for a
new period and for one reopened after its invoice was voided, and `ReopenPeriod`
is `renew` when it reopens a period without invoicing it. `RegisterPayment` and
`CreateCreditNote` include what they drag along: completion of the sale, status of
the invoice, status of the period. A completion may be refused for lack of stock;
then the whole transaction rolls back, which is no step here, and the stock side
of it is in `StockLedger`.

`Receivable` says what is promised to whoever keeps the books: a debt keeps its
amount, is settled up to that amount and never beyond, and is closed or replaced
only while nothing of it is settled. `InvoiceReceivable` maps the ledger onto it.

### 2.2 StockLedger and SalePricing

`balance` is `InventoryBalance` (absent before the first use of a product), `shelf`
the legacy `Product.quantity`, `movement` the sum of `StockMovement` rows by what
they refer to, `unit` the `StockUnit` row of a serial number. A purchase or a sale
holds one line per product; `posted` counts its lines a movement refers to, which
a PROTECT foreign key keeps from deletion. Left out: average cost, price floors (a
completion may be refused for one more reason, a step fewer), an open sale whose
invoice is voided (a sale that is never completed). Rejection by a form is abstracted
to `LinesAccepted`.

`SalePricing` is one draft of the counter in cents: catalogue prices by customer
category, line and sale discounts, the member's limit, the cost floor, VAT and its
rounding, then the invoice and its credit notes, and the invoice an integration sends.
Prices, costs, limits and the category of the customer may change while the draft is
open. Quantities are whole, and the 28 digits of Decimal are taken as exact.
Promotions and packages are left out.

### 2.3 Subscriptions and CustomerWorklist

`period[s][m]` is the `SubscriptionPeriod` of subscription `s` whose first month is
`m`: the unique constraint makes the pair a key. `last` is the month `period_end`
lies in, free months included; a length and a first month give it (`EndOf`). An
invoice is reduced to what the subscription handlers ask of it: its status, whether it
has a receipt, and whether an issued credit note stands on it (one at a time, the one
bound of this model that is not a constant). Amounts are in `InvoiceLedger`.

| Action | Code |
|---|---|
| `ReadRenew`, `WriteRenew` | `renew`: the active subscription is read without a lock; `create_period` locks the subscription row, makes or reopens the period, `create_invoice_for_period` bills it |
| `PayInPart`, `PayInFull` | `create_receipt_from_invoice`, invoice locked; raises `paid_through_date` under the lock of the subscription |
| `ReadCredit`, `WriteCredit` | `create_credit_note` and `void_credit_note`: the invoice stays locked from the first to the second (`Unlocked`), the last paid month is computed in the first and stored in the second, the subscription being locked in neither |
| `VoidSubscriptionInvoice` | the same, period and invoice locked |
| `CheckReissue`, `WriteReissue` | `reissue_invoice` |
| `CheckDraftEdit`, `WriteDraftEdit` | `update_draft_invoice`, which also moves the end of the period |
| `CheckCancel`, `WriteCancel` | `cancel_subscription`, and `_cancel_removed_subscriptions` for a package that is no longer assigned |

Left out: the statuses waived, overdue and paused, which no handler sets, and
promotions, of which only the free months show. How agreements come to be is in
`CustomerServices`. `CustomerWorklist` adds no state: it states, for every month, what
badges, due-soon and unpaid lists and merged coverage windows show of these rows.

### 2.4 Carts

`cart_access` locks the cart for the whole of every POST, so each is one action. Three
things are not under that lock, and are two steps or interleave: a workspace page looks
for the cart of its token before it locks anything; a quotation is billed from the
billing pages; the cleanup command lists candidates and decides about each later
(`sweep`). The clock ticks so that idleness is a difference of two times. `CounterSale`
is the promise: a cart is offered, billed and sold at most once, and goods leave in the
step that sells it. Prices and discounts only refuse requests here (`Sellable`).

`CounterScreen` is the page such a cart is sold on. The cart on the server (`saved`) is a
version of its lines and the details of the sale; the page shows a cart (`shown`), and
has fields (`field`), what Cancel would put back (`kept`), an open modal, one request at
most of each kind (`wires`), and the confirmation of a checkout. Every handler of the
page and of its answers is an action (`SaveForm`, `AnswerSaved`, `LoseAnswer`, ...); the
four views it calls are `Serve` and `ServeOrder`. `crossed` and `loose` remember that requests
overlapped or an answer was lost, and that an edit was left unsaved: the properties
except what they mark. One page, one tab: two tabs on one cart are in `Carts`.

### 2.5 The billing desk

`DocumentNumbers` models transactions that take numbers one after the other and hold
each counter row; a missing row is inserted in a savepoint, and the loser of that race
reads it again. A purchase reference may be typed by hand. `GaplessNumbers` is the
promise. `Quotations` has one quotation number with all its versions, none of which any
handler locks. `BillingSheets` has the sheets, the charges and their invoices; only
`generate_invoice` locks. `LockOrder` has nothing but locks: each handler is the
sequence of rows it locks, with the mode, and the foreign key to the organization that
PostgreSQL locks at the end. The next lock is taken when no other transaction holds a
conflicting one.

### 2.6 The back office

`ProductCodes`: whoever creates products holds the row of the business, but edits and
deletions do not, and run between the check of a code and its insert; a batch is
resubmitted under its key. `PurchaseImports`: pasted rows from the draft to the receipt,
under a token. `Invitations`: one person, several workspaces, pages that were opened
before an invitation was issued again or accepted. `TeamAccess`: the middleware reads
the membership once, the handler decides with it and locks only the member it changes;
with it go support sessions and the bridge from old profiles to memberships.

`PurchaseScreen` is the dialog those rows come from. A row is its text, whether it is
excluded and its last verdict; what a text means and whether the server refuses it are
choices, except that a repeated serial number is always refused. `posts` holds the
requests whose answer is still listened to: raising `revision` is `Silence`. `check` is the
call that a serial check holds up, given up by `schedule`, and `submitCheck` the check of
the submission of the form around the dialog. `overlapped` remembers that a request was
made while another was under way, which the buttons prevent except where a check
waited.

### 2.7 Administration

`WorkReports`: reports, payment records as a sequence per report (a replacement names the
record it replaces), batches that record one payment of several reports at once.
`TechnicianPay` is the promise. `CustomFields`: definitions edited while forms built from
them are open. `CustomerRecords`: the record, the edit form read before the lock, and the
audit trail. `AssetSnapshots`: a PUT is several statements in one transaction, each of
which sees what committed before it. `HandoverCleanup`: a plan made, reviewed, and applied
later.

## 3. Runs

| Run | Question | Instance |
|---|---|---|
| `InvoiceSerial` | do invoice, rows, sale and period agree after every sequence of operations, is a debt billed by two replacements, and is the ledger a receivable? do agreements match services and sites? | 2 invoices, 2 receipts, 2 credit notes, totals to 2; 3 invoices, 1 receipt; 2 packages, 2 sites, 1 service, 3 agreements |
| `InvoiceOverlap` | what does the row lock alone guarantee? | 2 invoices, 2 unlocked requests, 1 receipt, 1 credit note |
| `StockSerial` | do purchases, product page and selections agree with the balances? does a sale cost what was shown, within limits? does the page sell what it shows? | 2 products, 2 serial numbers, 2 purchases, 2 sales; 3 offers, 2 limits, VAT 18; 3 fields, 2 entries, 2 changes of lines |
| `StockOverlap` | what do the row locks alone guarantee? are the rows of the import dialog those reviewed? | 1 purchase, 2 sales, 2 serial numbers, 1 editor, legacy stock; 2 rows, 2 sources, 2 requests |
| `ImportApplied` | "All included rows must resolve before Apply." | the same; violated |
| `SubscriptionSerial` | do paid-through date, periods and invoices agree, is paid coverage kept, are the lists true? | 1 subscription, 3 first months, 3 invoices; or 2 subscriptions, 2 months, 2 invoices |
| `SubscriptionOverlap` | what do locks and the unique period start guarantee alone? | 1 subscription, 2 first months, 3 invoices, 2 requests |
| `SubscriptionReopened` | "New billing periods are rejected when they overlap any non-cancelled period, ..." | violated |
| `SalesCounter` | one cart per sale started, one invoice per cart, goods against receipts; does cleanup end idle carts and only these? | 2 carts, 2 tabs, 1 unit, 3 documents, 2 requests, 2 ticks |
| `BillingDesk` | numbers, quotations, sheets; who waits on whom? | 2 transactions over 3 counters; 3 versions under 2 requests; 2 sheets, charges, invoices; 3 lock holders |
| `BackOffice` | codes and batches, imports, invitations, access | 3 products, 4 codes; 2 purchases; 2 workspaces, 2 pages; 3 users in 2 companies |
| `Administration` | payments, fields, records, assets, cleanup | 2 reports, 2 technicians, 3 batches; 1 field of 2 records; 2 customers, 2 assets; 1 plan over 2 rows |

| Run | Properties |
|---|---|
| `InvoiceSerial` | `NoOverSettlement`, `SettlementIsSound`, `CustomerIsSound`, `ReplacedOnce`, `ClosedStaysClosed`, `ImplementsReceivable` |
| `InvoiceOverlap` | `VoidCarriesNoMoney`, `SettlementStatusIsEarned`, `StockLeavesOnFullPayment` |
| `StockSerial` | `PurchasesArriveOnce`, `CopiesAgree`, `SalesAreSound`, `CounterScreenIsSound` |
| `StockOverlap` | `MovementsExplainBalance`, `UnitsLeaveOnce`, `PurchaseScreenIsSound` |
| `SubscriptionSerial` | `PaidThroughIsLastPaid`, `CoverageIsTraceable`, `WorklistsAreTrue`, `CoverageIsKept` |
| `SubscriptionOverlap` | `LinksAreSound` |
| `SalesCounter` | `CounterIsSound`, `CleanupIsRight`, `ImplementsCounterSale` |
| `BillingDesk` | `NumbersAreSound`, `QuotationsAreSound`, `SheetsAreSound`, `LockWaitsAreKnown`, `ImplementsGapless`, `NumberingEnds` |
| `BackOffice` | `CodesAreSound`, `ImportsAreSound`, `InvitationsAreSound`, `AccessIsSound` |
| `Administration` | `PaymentsAreSound`, `RecordsAreSound`, `ImplementsTechnicianPay`, `FieldsAreSound`, `AssetsAreSound`, `CleanupIsExact` |

A name that ends in *IsSound* or *AreSound* is the type invariant of its module together
with the safety properties of one component, each with its own name and comment there.

**Bounds.** A total of 2 is the smallest that can be paid in part; two receipts and
two notes let a payment, a credit and the reversal of one of two credits mix. Two
invoices are an invoice and its replacement; three make a chain of replacements or
two rival ones. Two unlocked requests let two editors of one draft overlap, the
smallest race between two of them. In the stock runs `MaxOnHand = 2` is reached,
and so is zero; one product is sold by quantity and one by serial number; a serial
number may sit by mistake on the line of the former; two sales can select the same
unit. `MaxAdjusted` bounds how far adjustments go.

Three first months and lengths to two let a period end before, inside and after the
next one; three invoices bill two periods and replace one of them, or bill one three
times. Two agreements of a customer let one be unpaid while the other is due. The clock
of `SalesCounter` runs two ticks, one past each limit of the cleanup. `Widest = 1` in
`BillingSheets` stands for 9999: the number after it is longer and sorts before it as
text, which is what the reference query meets. Three lock holders make circles of three;
numbered in the order of their handlers (`Ordered`), since they are interchangeable and
one that is done leaves nothing behind. `MCFounders` are a company without a manager, one
with two, and a manager whose other membership was deactivated. `MaxPayments = 2` is a
voided record and its replacement.

The two pages are checked in parts, for together their fields multiply: the dialog with
two rows and one source until its rows are added, with the columns of two sources and one plain row, and with the form
around it, one request at a time; the page with its lines alone, with one field and one
change of the lines, and with all fields. Two rows make one serial number occur twice; two
requests overlap; three fields are two of the modal (one open, one left) and one beside
it.

**Symmetry** is used where ids are interchangeable and the run checks no liveness.

**Fairness.** `Carts!FairSpec` assumes weak fairness of the cleanup's decision about the
next candidate: the command loops over its list and no candidate stops it (each is decided
in a transaction of its own). Nothing is assumed of cashiers. `NumberFairness` assumes
strong fairness of each step of a transaction, which is that PostgreSQL serves the waiters
of a row in turn, and weak fairness of the rollback of a transaction that has failed. It
is assumed only of the part of `BillingDesk` that takes numbers. Nothing else runs in the
background: a handler ends or its transaction rolls back, and nothing retries by itself.

**`CHECK_DEADLOCK FALSE`** wherever ids are used up: once every id is used and everything
is closed the model has no step left, while the program could create one more row. The
prices of `StockSerial` stop when the sale is issued and credited, `Administration` when
its plan is applied, the dialog of `StockOverlap` when its rows are added.

## 4. What the runs show

Some properties hold however requests interleave; the table in section 5 marks the others,
which hold while unlocked requests do not overlap. The following breaks them when they do.
Each is a race between a check without a lock and a later write:

- Two reissues of one invoice, or a reissue and a payment: `reissue_invoice` checks that
  there is no receipt and writes later (`billing/services.py:1771`), so an invoice can be
  superseded after it was paid, or two replacements be made of it.
- A draft edit checks the status, then writes lines and total (`:1378`); a payment in
  between is left above the new total. The edit of a draft can also stretch its period
  over the next one (`:1415`).
- `Purchase.save` writes back the status it read (`inventory/models.py:120`); a purchase
  confirmed in between is a draft again and can be confirmed twice.
- A credit note on one invoice and a payment of another of the same subscription compute
  the paid-through date from different rows (`billing/services.py:1999`).
- The serial picker selects units without a lock (`inventory/views.py:1948`); completion
  of the sale checks them again, so what `UnitsLeaveOnce` says still holds.
- `cancel_subscription` looks for open invoices without locking the subscription
  (`:2765`): a renewal in between leaves an invoice on a cancelled subscription.

`SubscriptionReopened` needs no race. A period of two months is voided, the second month
is billed by a period of its own, and the first period is renewed: `create_period` finds
the cancelled row of that start and reopens it without asking again whether it overlaps
(`billing/services.py:2593`). The month is then billed twice, against "New billing periods
are rejected when they overlap any non-cancelled period".

`LockOrder` names the pairs of handlers that can wait for each other: a receipt and the
void of a period; a receipt and a renewal of the subscription; accepting and resending
an invitation; the edit of an import and the receipt of its proposals; and either of
these two with the handlers that take products one after the other (receipt of a
purchase, checkout, an adjustment of several lines, a receipt that completes a sale of
goods). PostgreSQL ends such a circle by failing one transaction, and no code retries it.
Every circle has one of these pairs in it, and creators of products are in none.

Behaviour the models made visible and no property forbids:

- Two managers acting at the same time can demote each other, and leave the company
  without one. Demoting a manager to sales keeps the scope `TENANT_ALL`
  (`users/permissions.py:373`), which nothing reads.
- `bootstrap_super_admin` on a user with an active membership leaves the user a member.
  A support session stays open when its owner logs out.
- A draft opened at a legacy retail price shows that price to a wholesale customer below
  the quantity break and bills the standard one. The total of a credit note may exceed the
  amount asked for by a cent when half a cent is rounded to even in one place and up in the
  other. Removing a line may leave a sale discount above the subtotal.
- An invoice sent by an integration is created in one transaction and its units are
  selected after it (`inventory/api.py:262`): a serial number that is refused leaves the
  invoice without its selections.

`ImportApplied` needs no second user. On the summary, Add items waits for a serial check.
Meanwhile the user goes back to the source and reviews it again; the new rows do not
resolve. Then the check of the first call answers, and `apply` adds the rows of that moment
(`purchase-import.js:464`), against "All included rows must resolve before Apply"
(`docs/unified_purchasing_phase_0b_contract.md:125`). The server validates the rows once
more when the form is saved.

On the point-of-sale page, what a checkout sells is what the page showed, unless an
answer was lost or crossed or an edit was left. Where it is not, the page says nothing:
after a lost answer it says that the cart was not changed (`inventory-ui.js:1207`), which it
cannot know; answers of two requests may come in the other order and leave the older cart
on the page; and an edit typed while the details are saved is kept for Cancel as if it had
been saved (`:1106`). A confirmation whose button a redraw took away fails, yet leaves the
form confirmed (`jims-ui.js:524`): the next payment is not asked about.

## 5. Proofs

TLAPS checks the following for every value of the constants that the named assumptions
allow: finite sets of ids, bounds in `Nat`, null ids outside the sets of ids. *In turn*
means: while unlocked requests do not overlap.

| Module | Theorem | States | In turn |
|---|---|---|---|
| `InvoiceLedgerProofs` | `TypeCorrect` | `[]TypeOK` | - |
| | `VoidIsClean` | `[]VoidCarriesNoMoney` | - |
| | `PaidIsEarned` | `[]SettlementStatusIsEarned` | - |
| | `StockWaitsForPayment` | `StockLeavesOnFullPayment` | - |
| | `NeverOverSettled` | `[]NoOverSettlement` | yes |
| | `SettlementSound` | `[]SettlementIsSound` | yes |
| | `ClosedIsFinal` | `ClosedStaysClosed` | yes |
| | `DebtsReplacedOnce` | `[]ReplacedOnce` | yes |
| | `LedgerIsReceivable` | `ImplementsReceivable` | yes |
| `StockLedgerProofs` | `StockTyped` | `[]TypeOK`: no balance is negative | - |
| | `BalanceExplained` | `[]MovementsExplainBalance` | - |
| | `UnitsLeave` | `UnitsLeaveOnce` | - |
| | `PurchasesPostedOnce` | `PurchasesArriveOnce` | yes |
| | `CopiesStayEqual` | `CopiesAgree` | yes |
| | `SalesSound` | `SalesAreSound` | - |
| | `PurchaseScreenSound` | `PurchaseScreenIsSound` | in part |
| `SubscriptionsProofs` | `TypeCorrect` | `[]TypeOK` | - |
| | `LinksHold` | `[]LinksAreSound` | - |
| | `PaidThroughCorrect` | `[]PaidThroughIsLastPaid` | yes |
| | `CoverageTraceable` | `[]CoverageIsTraceable` | yes |
| | `CoverageKept` | `CoverageIsKept` | yes |
| | `QueuesAndBadgesTrue` | two of the three parts of `WorklistsAreTrue` | yes |
| `CartsProofs` | `CounterSound` | `[]CounterIsSound` | - |
| | `CounterScreenSound` | `[]CounterScreenIsSound` | in part |
| | `CleanupSpares` | the action property of `CleanupIsRight` | - |
| | `HandlersSellOnce` | `ImplementsCounterSale` | - |
| `BillingDeskProofs` | `NumbersSound` | `[]NumbersAreSound` | - |
| | `NumbersAreGapless` | `ImplementsGapless` | - |
| | `LockWaitsKnown` | `[]LockWaitsAreKnown` | - |
| | `CreatorsDoNotDeadlock` | creators never wait for each other | - |
| | `QuotationsSound` | `QuotationsAreSound` | in part |
| | `SheetsSound` | `[]SheetsAreSound` | in part |
| `AdministrationProofs` | `PaymentsSound` | `PaymentsAreSound` | - |
| | `HandlersKeepPromise` | `ImplementsTechnicianPay` | - |
| | `FieldsSound` | `FieldsAreSound` | in part |
| | `RecordsSound` | `[]RecordsAreSound` | in part |
| | `AssetsSound` | `AssetsAreSound` | - |
| `BackOfficeProofs` | `CustomerSound` | `[]CustomerIsSound` | - |
| | `CodesSound` | `[]CodesAreSound` | - |
| | `CleanupExact` | `CleanupIsExact` | - |
| | `ImportsSound` | `ImportsAreSound` | - |
| | `InvitationsSound` | `InvitationsAreSound` | - |
| | `AccessSound` | `AccessIsSound` | in part |

*In part*: the property itself says which of its parts hold only in turn
(`quotesInTurn => ...`, `~overlapped => ...`, `~crossed => ...` and so on), and the theorem is about the specification in which
requests may overlap.

`SumsTheorems` proves what the money rests on: the sum over a finite set is a natural
number, adding a row adds its amount, sums over rows that agree are equal, rows that each
bring less bring less together, a sum of sums is the sum of both, and a common factor
comes out of a sum. A sum is the number of cents its rows own (`Sums`), so these laws
follow from those of cardinality, without induction over the rows.

One assumption is narrower than what the code accepts: `ModestVAT`, that the tax rate of a
sale is 50 percent at most. The code's own rates are 18 and 0 (`billing/services.py:26`), but a
member with the right may type another. At 51 percent a credit note of one cent is
written with a total of two, so `CreditsAddUp` is about rates up to there; the rest of
`SalesAreSound` does not use the assumption.

**The inductive invariants.**

- *Invoices.* `OverlapInv == TypeOK /\ Earned` says of each status what was paid, and of
  a draft edit under way what it may find; it serves what holds however requests
  interleave. `NoOverSettlement` is not inductive: an edit that lowers the total, or a
  reissue that hits a paid invoice, breaks it. `SerialInv` adds that drafts carry no money,
  that one request at most is under way (`Exclusive`), and that what it read is still true
  (`HeldIsFresh`). `SettleInv` adds what each row is worth (`RowsWorth`) and that an
  invoice that says unpaid is (`UnpaidIsUnpaid`). `ReplaceInv` adds that a void invoice gave
  its period away and that what replaces it exists, which is what stops a chain from
  forking. The last two were found by the proof; the runs check them through the
  properties only.
- *Stock.* Everything that moves stock goes through `Move`, and one lemma about `Move`
  serves every action. `UnitsLeaveOnce` needs `StockInv`: what a selection names is a
  unit of the product it is on (`SelectionsFit`). `CopyInv` says that what an open edit
  read is what is stored, in turn (`EditsAreFresh`).
- *Prices.* `PricingInv` says that an invoice keeps the totals of its lines and that a note
  is what the trials find for the amount asked. Each line earns its cost with its share of
  the discount taken off; that the sale does (`Earns`) multiplies every line by the
  subtotal, adds up, and takes the factor off again. For the notes, half-to-even rounding
  rises by at most one when the tax rises by half a cent or less (`EvenStep`), so totals
  rise by one or two per cent of subtotal (`TrialsRise`), the nearest trial is the amount
  or one less (`FoundBelow`), and the subtotal of a sale credited whole is found again
  (`WholeIsFound`). TLC checked the invariant on the states of `StockSerial` first.
- *Subscriptions.* `LinksAreSound` is inductive with `TypeOK` and `Named` (a request names
  what it read). The other three follow from a `SerialInv` of their own. `LastPaid` is a
  maximum, which exists because the months are finitely many: `LastMonth` derives that
  from the well-foundedness of the natural numbers. The queues of the customer list add
  `PeriodsRun`, that a period ends no earlier than it starts: so whoever is due soon
  is in the queue of the paid. That finance and sales agree follows from a stored date
  that is the last paid one.
- *Counter.* `CartInv` ties carts, documents, sales and receipts; that cleanup spares an
  active cart follows from the clock never going back.
- *Billing desk.* `NumberInv`: a number held is protected by the lock of its counter row,
  follows the last one, and steps over typed ones only. `LockInv`: every request stands at
  a step of its handler's plan with the rows of the steps before it, and conflicting rows
  exclude each other. From it `LockWaitsKnown` argues by rank: without a known pair every
  lock a request waits for ranks above those it holds, so the waiter of the highest rank
  waits for nobody; a request that holds the organization is a case of its own. `QuoteInv`
  and `SheetInv` say what a request has read, and that it still holds when requests take
  turns.
- *Administration.* `PayInv` says that payments of a batch move together and that a
  replacement follows the record it names. `FieldInv` says what a request carries
  (`Carries`) and that it still fits the definitions and values when it is alone. `RecordInv`
  folds the audit trail into one predicate per customer (`TrailFits`): the last word of
  the trail on status and on archiving, and what each entry said before; `EditsFit` ties
  an open form to it. `AssetInv` says how far each snapshot has come (`Fits`): what it
  deleted is still its customer's, and one that began without a rival has, when it starts
  to delete, every other row of the customer in hand (`AloneMeansAlone`).
- *Back office.* `CustomerInv` has the primary site, the shape of sites and agreements,
  and the form that was read. `SkuInv` says that a job holds numbers no product has
  (`JobFits`), that products have numbers below the counter (`ProductsFit`), and that what
  a form is about to write belongs to its row (`EditorFits`). `CleanupInv` says that ids are
  not used again and that a plan's rows are rows (`PlansFit`). `ImportInv`: no two lines of
  a purchase have one row under one token (`Distinct`), lines under a token are those of
  the purchase of its receipt, a proposal is not a line yet, and a save that found its
  token free holds the business until it has written (`SavesFit`). The lines of a batch are
  an enumeration of a set, and those an editor keeps are numbered by rank (`Position`);
  that both are one-to-one is proved first, from the library's facts about cardinality.
  `InviteInv`: a page shows an invitation there is, and who was never invited has none.
  `AccessInv`: a request belongs to a member, and one that is alone finds what the
  middleware read (`StillAsRead`).

- *Pages.* `CounterInv`: a request that was alone is the only one and its answer shows the
  cart (`RequestsAlone`, `PagesTrue`); what was saved last is what the fields say but for
  the open modal, or is in the answer that has not come in (`SavesTrue`, `FieldsTrue`).
  `ScreenInv` is the properties of the dialog with `WaitsAlone`: whoever waits for a serial
  check is alone, so neither rows nor columns change between what was asked and its answer.
  That rows called valid agree needs that they are numbered: of two, the later was compared
  with the earlier (`CheckedAgree`).

**Only model-checked.**

- `CleanupIsRight` promises that idle carts end and `NumberingEnds` that numbering does:
  liveness, which the provers do not treat. `CleanupSpares` proves the rest of the former.
- `WindowsAreCoverage`, the third part of `WorklistsAreTrue`, is about coverage windows
  merged by a fold over a sorted sequence: what such a fold computes needs induction over
  data. It is checked over every state of its run.

## 6. Plan

1. Packages on invoices of periods: the price a line shows and the one it bills.

## 7. Not modelled

Templates and browser code but for the two pages, PDF and report pages, e-mail and message gateways,
registration, management commands other than cleanup and bootstrap, the admin site. The
audit log, but for the entries about a customer: every handler writes it and none reads
it. Tenancy is one tenant: every query filters by it (`TeamAccess` has two companies).
`set_status` of invoices and the status overdue, which no code reaches. Mixed invoices in
the cash reports. Decimal's 28 digits, which amounts of this size do not reach.
