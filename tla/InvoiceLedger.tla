--------------------------- MODULE InvoiceLedger ---------------------------
(***************************************************************************)
(* The invoice side of billing/services.py: invoices, the receipts and      *)
(* credit notes that settle them, and the three states that every          *)
(* settlement drags along: the invoice status, the stock sale behind it     *)
(* and the subscription period it bills.                                    *)
(*                                                                          *)
(* Operations that take the invoice row FOR UPDATE run to their commit       *)
(* before another one reads the row, so each is one action.  Two do not:    *)
(* update_draft_invoice and reissue_invoice read and check the invoice       *)
(* without a lock and write it later.  Each is two actions, its check and    *)
(* its write, with a request record holding what was read in between.       *)
(***************************************************************************)
EXTENDS Sums

CONSTANTS
    Invoices,   \* ids of invoices
    Receipts,   \* ids of receipts
    Notes,      \* ids of credit notes
    Refs,       \* payment references clients supply
    NoRef,      \* the empty payment reference
    NoDoc,      \* a null foreign key
    Requests,   \* requests that may be between a check and its write
    MaxTotal,   \* largest invoice total, in the smallest money unit
    Overlap     \* TRUE: requests interleave (gunicorn runs several workers)

ASSUME RowIds == /\ IsFiniteSet(Receipts)
                 /\ IsFiniteSet(Notes)
                 /\ NoDoc \notin Invoices
                 /\ NoRef \notin Refs
ASSUME Totals == MaxTotal \in Nat
ASSUME OverlapFlag == Overlap \in BOOLEAN

VARIABLES
    status,      \* BillingDocument.status of each invoice id
    total,       \* BillingDocument.total
    lines,       \* the invoice has a line with a catalogue product
    sale,        \* its InventorySale: none, open, or stock deducted
    period,      \* status of the SubscriptionPeriod that links the invoice
    replacedBy,  \* BillingDocument.superseded_by
    original,    \* BillingDocument.original_invoice
    receipts,    \* receipt rows
    notes,       \* credit-note rows
    req          \* requests between their unlocked check and their write

vars == <<status, total, lines, sale, period, replacedBy, original,
          receipts, notes, req>>

Amounts == 0..MaxTotal

\* The rounding of a credit note: what its total may differ from the amount asked.
Cent == 1

InvoiceStatus == {"absent", "draft", "issued", "partially_paid", "paid",
                  "void", "superseded"}

ReceiptRow == [invoice : Invoices \cup {NoDoc}, amount : Amounts,
               ref : Refs \cup {NoRef}]
NoteRow    == [invoice : Invoices \cup {NoDoc}, amount : 0..(MaxTotal + Cent),
               status : {"absent", "issued", "void"}]
Request    == [op : {"idle", "edit", "reissue"},
               invoice : Invoices \cup {NoDoc}, lines : BOOLEAN]

NoReceipt == [invoice |-> NoDoc, amount |-> 0, ref |-> NoRef]
NoNote    == [invoice |-> NoDoc, amount |-> 0, status |-> "absent"]
Idle      == [op |-> "idle", invoice |-> NoDoc, lines |-> FALSE]

TypeOK ==
    /\ status \in [Invoices -> InvoiceStatus]
    /\ total \in [Invoices -> Amounts]
    /\ lines \in [Invoices -> BOOLEAN]
    /\ sale \in [Invoices -> {"none", "open", "deducted"}]
    /\ period \in [Invoices -> {"none", "invoiced", "paid", "cancelled"}]
    /\ replacedBy \in [Invoices -> Invoices \cup {NoDoc}]
    /\ original \in [Invoices -> Invoices \cup {NoDoc}]
    /\ receipts \in [Receipts -> ReceiptRow]
    /\ notes \in [Notes -> NoteRow]
    /\ req \in [Requests -> Request]

Init ==
    /\ status = [i \in Invoices |-> "absent"]
    /\ total = [i \in Invoices |-> 0]
    /\ lines = [i \in Invoices |-> FALSE]
    /\ sale = [i \in Invoices |-> "none"]
    /\ period = [i \in Invoices |-> "none"]
    /\ replacedBy = [i \in Invoices |-> NoDoc]
    /\ original = [i \in Invoices |-> NoDoc]
    /\ receipts = [r \in Receipts |-> NoReceipt]
    /\ notes = [n \in Notes |-> NoNote]
    /\ req = [q \in Requests |-> Idle]

-----------------------------------------------------------------------------
(* What is owed, from the rows as a query sees them.                        *)

ReceiptsOf(rs, i) == {r \in Receipts : rs[r].invoice = i}
NotesOf(ns, i)    == {n \in Notes : ns[n].invoice = i /\ ns[n].status = "issued"}

Paid(rs, i)     == SumOf(ReceiptsOf(rs, i), [r \in Receipts |-> rs[r].amount])
Credited(ns, i) == SumOf(NotesOf(ns, i), [n \in Notes |-> ns[n].amount])

\* A balance that forgets the credit notes.
RemainingBeforeCredits(rs, ns, i) ==
    LET left == total[i] - Paid(rs, i)
    IN  IF left > 0 THEN left ELSE 0

\* invoice_remaining_balance: never negative, whatever the rows say.
Remaining(rs, ns, i) ==
    LET left == total[i] - Paid(rs, i) - Credited(ns, i)
    IN  IF left > 0 THEN left ELSE 0

Balance(i) == Remaining(receipts, notes, i)

\* get_invoice_action_state
Untouched(i) == /\ status[i] = "issued"
                /\ Paid(receipts, i) = 0
                /\ Credited(notes, i) = 0
VoidablePartlyPaid(i) == status[i] \in {"issued", "partially_paid"}
CanVoid(i)    == Untouched(i)
ReissuableTwice(i)    == Untouched(i) \/ status[i] = "superseded"
CanReissue(i) == Untouched(i)
PayableWhenVoid(i) == status[i] \notin {"absent", "draft", "paid", "superseded"} /\ Balance(i) > 0
CanRegisterPayment(i) ==
    /\ status[i] \notin {"absent", "draft", "paid", "void", "superseded"}
    /\ Balance(i) > 0
CanCreateCreditNote(i) ==
    /\ status[i] \notin {"absent", "draft", "void", "superseded"}
    /\ Balance(i) > 0

RequiresFullPayment(i) == sale[i] # "none" \/ lines[i]

\* A payment that leaves left unpaid: never less than nothing, and nothing
\* at all when goods go out with it.
PaymentInParts(i, left) == left >= 0
PaymentAllowed(i, left) == left >= 0 /\ (RequiresFullPayment(i) => left = 0)

\* ensure_invoice_sale: a sale row exists once an invoice has product lines.
EnsuredSale(s, hasLines) == IF hasLines /\ s = "none" THEN "open" ELSE s

\* complete_invoice_sale: ensure_invoice_sale finds no sale to complete when
\* the product lines were edited away, whatever row an earlier save left.
CompletedSale(i) == IF lines[i] THEN "deducted" ELSE sale[i]

\* Requests do not overlap: a request that has checked must write first.
Quiet == Overlap \/ \A q \in Requests : req[q] = Idle

-----------------------------------------------------------------------------
(* create_document for an invoice: a draft or issued invoice with its sale. *)
CreateInvoice(i, t, st, hasLines) ==
    /\ Quiet
    /\ status[i] = "absent"
    /\ status' = [status EXCEPT ![i] = st]
    /\ total' = [total EXCEPT ![i] = t]
    /\ lines' = [lines EXCEPT ![i] = hasLines]
    /\ sale' = [sale EXCEPT ![i] = EnsuredSale(@, hasLines)]
    /\ UNCHANGED <<period, replacedBy, original, receipts, notes, req>>

\* create_period reopens the period of a void invoice that nothing was paid on.
Reopenable(i) ==
    /\ status[i] = "void" /\ period[i] \in {"invoiced", "cancelled"}
    /\ ReceiptsOf(receipts, i) = {} /\ NotesOf(notes, i) = {}

\* renew: an issued service invoice i bills a period, a new one (old = NoDoc)
\* or one that the void invoice old used to bill.
CreatePeriodInvoice(i, t, old) ==
    /\ Quiet
    /\ status[i] = "absent"
    /\ old # NoDoc => Reopenable(old)
    /\ status' = [status EXCEPT ![i] = "issued"]
    /\ total' = [total EXCEPT ![i] = t]
    /\ original' = [original EXCEPT ![i] = old]
    /\ period' = [k \in Invoices |-> IF k = i THEN "invoiced"
                                    ELSE IF k = old THEN "none" ELSE period[k]]
    /\ UNCHANGED <<lines, sale, replacedBy, receipts, notes, req>>

\* renew without issuing an invoice: the reopened period of old waits, linked
\* to no invoice, for a later renewal.
ReopenPeriod(old) ==
    /\ Quiet
    /\ Reopenable(old)
    /\ period' = [period EXCEPT ![old] = "none"]
    /\ UNCHANGED <<status, total, lines, sale, replacedBy, original, receipts, notes, req>>

\* update_draft_invoice up to its status check, which takes no lock.
CheckDraftEdit(q, i) ==
    /\ Quiet
    /\ req[q] = Idle
    /\ status[i] = "draft"
    /\ req' = [req EXCEPT ![q] = [op |-> "edit", invoice |-> i, lines |-> FALSE]]
    /\ UNCHANGED <<status, total, lines, sale, period, replacedBy, original, receipts, notes>>

\* update_draft_invoice, its transaction: the lines are replaced and total and
\* status overwritten.  Lines of a completed sale are protected (PROTECT
\* foreign keys), so the transaction fails on them.
WriteDraftEdit(q, t, st, hasLines) ==
    LET i == req[q].invoice IN
    /\ req[q].op = "edit"
    /\ sale[i] # "deducted"
    /\ status' = [status EXCEPT ![i] = st]
    /\ total' = [total EXCEPT ![i] = t]
    /\ lines' = [lines EXCEPT ![i] = hasLines]
    /\ req' = [req EXCEPT ![q] = Idle]
    /\ UNCHANGED <<sale, period, replacedBy, original, receipts, notes>>

\* The request ends without a write: its transaction failed.
AbandonRequest(q) ==
    /\ req[q] # Idle
    /\ req' = [req EXCEPT ![q] = Idle]
    /\ UNCHANGED <<status, total, lines, sale, period, replacedBy, original, receipts, notes>>

\* void_invoice: refused for an invoice that bills a subscription period.
VoidInvoice(i) ==
    /\ Quiet
    /\ period[i] = "none"
    /\ CanVoid(i)
    /\ status' = [status EXCEPT ![i] = "void"]
    /\ UNCHANGED <<total, lines, sale, period, replacedBy, original, receipts, notes, req>>

\* void_subscription_invoice: the invoice and its period end together.
VoidSubscriptionInvoice(i) ==
    /\ Quiet
    /\ period[i] = "invoiced"
    /\ CanVoid(i)
    /\ status' = [status EXCEPT ![i] = "void"]
    /\ period' = [period EXCEPT ![i] = "cancelled"]
    /\ UNCHANGED <<total, lines, sale, replacedBy, original, receipts, notes, req>>

\* reissue_invoice up to its transaction: no lock, and the lines are read here.
CheckReissue(q, i) ==
    /\ Quiet
    /\ req[q] = Idle
    /\ CanReissue(i)
    /\ req' = [req EXCEPT ![q] = [op |-> "reissue", invoice |-> i, lines |-> lines[i]]]
    /\ UNCHANGED <<status, total, lines, sale, period, replacedBy, original, receipts, notes>>

\* reissue_invoice, its transaction: a replacement draft j with the lines read
\* (their total under today's tax rate), the original superseded whatever its
\* status is by now, and the periods it still links moved to the replacement.
WriteReissue(q, j, t) ==
    LET i == req[q].invoice IN
    /\ req[q].op = "reissue"
    /\ status[j] = "absent"
    /\ status' = [status EXCEPT ![j] = "draft", ![i] = "superseded"]
    /\ total' = [total EXCEPT ![j] = t]
    /\ lines' = [lines EXCEPT ![j] = req[q].lines]
    /\ sale' = [sale EXCEPT ![j] = EnsuredSale(@, req[q].lines)]
    /\ replacedBy' = [replacedBy EXCEPT ![i] = j]
    /\ original' = [original EXCEPT ![j] = i]
    /\ period' = [period EXCEPT ![i] = "none",
                                ![j] = IF period[i] = "none" THEN "none" ELSE "invoiced"]
    /\ req' = [req EXCEPT ![q] = Idle]
    /\ UNCHANGED <<receipts, notes>>

-----------------------------------------------------------------------------
\* The status and the period state the settlement rows call for, each after
\* a form of it that gets the order of its cases or its reversal wrong.
StatusByPaymentFirst(rs, ns, i) ==
    IF Paid(rs, i) > 0 THEN "partially_paid"
    ELSE IF Remaining(rs, ns, i) = 0 THEN "paid"
    ELSE "issued"
SettledStatus(rs, ns, i) ==
    IF Remaining(rs, ns, i) = 0 THEN "paid"
    ELSE IF Paid(rs, i) > 0 THEN "partially_paid"
    ELSE "issued"

PeriodStaysPaid(rs, ns, i) ==
    IF period[i] # "none" /\ Remaining(rs, ns, i) = 0 THEN "paid" ELSE period[i]
SettledPeriod(rs, ns, i) ==
    IF period[i] = "none" THEN "none"
    ELSE IF Remaining(rs, ns, i) = 0 THEN "paid"
    ELSE IF period[i] = "paid" THEN "invoiced"
    ELSE period[i]

\* _sync_invoice_after_credit_change, on the credit notes as just written.
SyncAfterCredit(ns, i) ==
    /\ notes' = ns
    /\ status' = [status EXCEPT ![i] = SettledStatus(receipts, ns, i)]
    /\ period' = [period EXCEPT ![i] = SettledPeriod(receipts, ns, i)]

\* The total a note is stored with.  Its subtotal is found by trial for the amount
\* asked, with tax rounded half to even, and the tax is then computed again, rounded
\* half up (SalePricing has the arithmetic): a cent less or more than was asked.
NoteTotals(asked) == { t \in (asked - Cent)..(asked + Cent) : t > 0 }

\* create_credit_note: the amount asked is checked, the total t found for it is stored.
CreateCreditNote(n, i, asked, t) ==
    /\ Quiet
    /\ notes[n] = NoNote
    /\ CanCreateCreditNote(i)
    /\ asked > 0 /\ asked <= Balance(i)
    /\ t \in NoteTotals(asked)
    /\ SyncAfterCredit([notes EXCEPT ![n] =
           [invoice |-> i, amount |-> t, status |-> "issued"]], i)
    /\ UNCHANGED <<total, lines, sale, replacedBy, original, receipts, req>>

\* void_credit_note
VoidCreditNote(n) ==
    LET i == notes[n].invoice IN
    /\ Quiet
    /\ notes[n].status = "issued"
    /\ status[i] \notin {"void", "superseded"}
    /\ SyncAfterCredit([notes EXCEPT ![n].status = "void"], i)
    /\ UNCHANGED <<total, lines, sale, replacedBy, original, receipts, req>>

\* create_receipt_from_invoice.  A reference that is already on a receipt
\* answers with that receipt or an error, and changes nothing.
ReferenceUnused(ref) == ref = NoRef \/ \A r \in Receipts : receipts[r].ref # ref

RegisterPayment(r, i, a, ref) ==
    LET rs == [receipts EXCEPT ![r] = [invoice |-> i, amount |-> a, ref |-> ref]]
        left == Balance(i) - a
    IN
    /\ Quiet
    /\ receipts[r] = NoReceipt
    /\ ReferenceUnused(ref)
    /\ CanRegisterPayment(i)
    /\ a > 0 /\ PaymentAllowed(i, left)
    /\ receipts' = rs
    /\ sale' = [sale EXCEPT ![i] = IF RequiresFullPayment(i) THEN CompletedSale(i) ELSE @]
    /\ status' = [status EXCEPT ![i] = IF left > 0 THEN "partially_paid" ELSE "paid"]
    /\ period' = [period EXCEPT ![i] = IF left = 0 /\ @ # "none" THEN "paid" ELSE @]
    /\ UNCHANGED <<total, lines, replacedBy, original, notes, req>>

-----------------------------------------------------------------------------
Next ==
    \/ \E i \in Invoices, t \in Amounts, st \in {"draft", "issued"}, b \in BOOLEAN :
           CreateInvoice(i, t, st, b)
    \/ \E i \in Invoices, t \in Amounts, old \in Invoices \cup {NoDoc} :
           CreatePeriodInvoice(i, t, old)
    \/ \E old \in Invoices : ReopenPeriod(old)
    \/ \E q \in Requests, i \in Invoices : CheckDraftEdit(q, i)
    \/ \E q \in Requests, t \in Amounts, st \in {"draft", "issued"}, b \in BOOLEAN :
           WriteDraftEdit(q, t, st, b)
    \/ \E q \in Requests : AbandonRequest(q)
    \/ \E i \in Invoices : VoidInvoice(i)
    \/ \E i \in Invoices : VoidSubscriptionInvoice(i)
    \/ \E q \in Requests, i \in Invoices : CheckReissue(q, i)
    \/ \E q \in Requests, j \in Invoices, t \in Amounts : WriteReissue(q, j, t)
    \/ \E n \in Notes, i \in Invoices, asked \in Amounts :
           \E t \in NoteTotals(asked) : CreateCreditNote(n, i, asked, t)
    \/ \E n \in Notes : VoidCreditNote(n)
    \/ \E r \in Receipts, i \in Invoices, a \in Amounts, ref \in Refs \cup {NoRef} :
           RegisterPayment(r, i, a, ref)

Spec == Init /\ [][Next]_vars

-----------------------------------------------------------------------------
(* Properties that hold however requests interleave.                        *)

\* A void invoice carries no receipt and no issued credit note: a payment, a
\* credit note and a void that race for one invoice are decided by its row
\* lock, and neither order leaves money on a void invoice (billing/services.py:1640).
VoidCarriesNoMoney ==
    \A i \in Invoices : status[i] = "void" =>
        Paid(receipts, i) = 0 /\ Credited(notes, i) = 0

\* The status a settlement writes is the one its rows justify: paid means
\* nothing is left to pay, partially paid means some money came and some is
\* still owed.  Stale draft edits overwrite the status, never forge it.
SettlementStatusIsEarned ==
    \A i \in Invoices :
        /\ status[i] = "paid" => Balance(i) = 0
        /\ status[i] = "partially_paid" => Paid(receipts, i) > 0 /\ Balance(i) > 0

\* Stock leaves only in the step that settles the invoice completely:
\* "full payment" before stock is deducted (README.md:142).
StockLeavesOnFullPayment ==
    [][\A i \in Invoices : sale'[i] = "deducted" /\ sale[i] # "deducted" =>
          status'[i] = "paid" /\ Balance(i)' = 0]_vars

-----------------------------------------------------------------------------
(* Properties of requests that do not overlap.                              *)

\* Money received never exceeds the invoice total, and with the issued credit notes it
\* exceeds it by one cent at most, however many notes are issued, voided and issued
\* again: the cent of a note whose total was rounded up is spent once.
NoOverSettlement ==
    \A i \in Invoices :
        /\ Paid(receipts, i) <= total[i]
        /\ Paid(receipts, i) + Credited(notes, i) <= total[i] + Cent

\* The whole status, not only what a settlement wrote, agrees with the rows.
StatusMatchesRows ==
    \A i \in Invoices :
        /\ status[i] \in {"absent", "draft", "void", "superseded"} =>
               ReceiptsOf(receipts, i) = {} /\ NotesOf(notes, i) = {}
        /\ status[i] = "issued" => ReceiptsOf(receipts, i) = {} /\
                                   (Balance(i) > 0 \/ total[i] = 0)
        /\ status[i] = "partially_paid" => Paid(receipts, i) > 0 /\ Balance(i) > 0
        /\ status[i] = "paid" => Balance(i) = 0

\* Invoice and billing period cannot diverge: a linked period is paid exactly
\* while its invoice is settled and cancelled exactly when it is void
\* (docs/paid_service_coverage_resolution_2026-08-13.md:22).
CoverageFollowsInvoice ==
    \A i \in Invoices : period[i] # "none" =>
        /\ period[i] = "paid" <=> status[i] = "paid"
        /\ period[i] = "cancelled" <=> status[i] = "void"
        /\ status[i] \notin {"absent", "superseded"}

\* A debt is never billed by two replacements: original_invoice names an
\* invoice from one replacement only, and one that is void or superseded, in
\* the latter case by that very replacement.
ReplacedOnce ==
    \A i \in Invoices :
        /\ status[i] = "superseded" <=> replacedBy[i] # NoDoc
        /\ replacedBy[i] # NoDoc => original[replacedBy[i]] = i
        /\ \A j, k \in Invoices : original[j] = i /\ original[k] = i => j = k
        /\ \A j \in Invoices : original[j] = i =>
               status[i] = "void" \/ replacedBy[i] = j

\* A payment reference, the client's idempotency key, is on one receipt only,
\* so a retried payment is never counted twice.
OneReceiptPerReference ==
    \A r, s \in Receipts : receipts[r].ref = receipts[s].ref /\ r # s =>
        receipts[r].ref = NoRef

\* What the settlement rows say, the status, the period and the references agree
\* after every sequence of payments, credit notes, voids, edits and reissues: the
\* status is stored by each handler, not computed from the rows.
SettlementIsSound ==
    TypeOK /\ StatusMatchesRows /\ CoverageFollowsInvoice /\ OneReceiptPerReference

\* Void and superseded are final, and a paid invoice stops being paid only
\* when one of its credit notes is voided.
ClosedStaysClosed ==
    [][\A i \in Invoices :
          /\ status[i] \in {"void", "superseded"} => status'[i] = status[i]
          /\ status[i] = "paid" /\ status'[i] # "paid" =>
                Credited(notes', i) < Credited(notes, i)]_vars
=============================================================================
