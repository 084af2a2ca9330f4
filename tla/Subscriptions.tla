---------------------------- MODULE Subscriptions ----------------------------
(***************************************************************************)
(* SubscriptionService of billing/services.py: the months a subscription is *)
(* billed for, the invoices that bill them, and the two summaries that are   *)
(* stored beside them: the status of the subscription and the date it is     *)
(* paid through.                                                            *)
(*                                                                          *)
(* Dates are months, periods start on a first and end on a last of month.   *)
(* What is owed is left to InvoiceLedger: an invoice here is issued, partly  *)
(* paid or settled, with or without a receipt and an issued credit note.     *)
(*                                                                          *)
(* A request record holds what a handler has read and not yet used: the      *)
(* active subscription (renew), the absence of open invoices                 *)
(* (cancel_subscription), an invoice (reissue, draft edit), or the last paid *)
(* month, which a credit note computes without locking the subscription.     *)
(***************************************************************************)
EXTENDS Integers, FiniteSets, FiniteSetsExt

CONSTANTS
    Subs,       \* subscriptions
    Invoices,   \* ids of service invoices
    Requests,   \* requests that may be between a read and its write
    Horizon,    \* last month a period may start in
    MaxMonths,  \* most months a period may cover, free months included
    None,       \* a null foreign key
    Overlap     \* TRUE: requests interleave (gunicorn runs several workers)

ASSUME Calendar == Horizon \in Nat \ {0} /\ MaxMonths \in Nat \ {0}
ASSUME NullKey == None \notin Invoices \cup Subs
ASSUME OverlapFlag == Overlap \in BOOLEAN

VARIABLES
    status,       \* CustomerSubscription.status
    paidThrough,  \* CustomerSubscription.paid_through_date, 0 for null
    period,       \* the SubscriptionPeriod of each subscription and first month
    invoice,      \* invoice rows
    req           \* requests between their read and their write

vars == <<status, paidThrough, period, invoice, req>>

Starts  == 1..Horizon
Lengths == 1..MaxMonths
Ends    == 0..(Horizon + MaxMonths - 1)

\* The period of a subscription that starts in a month is unique by constraint.
Period  == [status : {"absent", "pending", "invoiced", "paid", "cancelled"},
            last : Ends, invoice : Invoices \cup {None}]
Invoice == [status : {"absent", "draft", "issued", "partially_paid", "paid",
                      "void", "superseded"},
            receipt : BOOLEAN, credit : BOOLEAN]
\* through is what a credit change is about to store as paid through.
Request == [op : {"idle", "renew", "cancel", "reissue", "edit", "credit", "uncredit"},
            sub : Subs \cup {None}, invoice : Invoices \cup {None},
            settles : BOOLEAN, through : [Subs -> Ends]]

NoPeriod  == [status |-> "absent", last |-> 0, invoice |-> None]
NoInvoice == [status |-> "absent", receipt |-> FALSE, credit |-> FALSE]
Idle      == [op |-> "idle", sub |-> None, invoice |-> None, settles |-> FALSE,
              through |-> [s \in Subs |-> 0]]

TypeOK ==
    /\ status \in [Subs -> {"active", "cancelled"}]
    /\ paidThrough \in [Subs -> Ends]
    /\ period \in [Subs -> [Starts -> Period]]
    /\ invoice \in [Invoices -> Invoice]
    /\ req \in [Requests -> Request]

Init ==
    /\ status = [s \in Subs |-> "active"]
    /\ paidThrough = [s \in Subs |-> 0]
    /\ period = [s \in Subs |-> [m \in Starts |-> NoPeriod]]
    /\ invoice = [i \in Invoices |-> NoInvoice]
    /\ req = [q \in Requests |-> Idle]

\* Requests do not overlap: a request that has read must write first.
Quiet == Overlap \/ \A q \in Requests : req[q] = Idle

\* A credit change keeps the invoice row locked until it commits.
Unlocked(i) == \A q \in Requests : req[q].op \in {"credit", "uncredit"} => req[q].invoice # i

-----------------------------------------------------------------------------
(* Periods and the months they cover.                                       *)

\* The last month of a period of n months from m on.
EndOf(m, n) == m + n - 1

Linked(s, i) == {m \in Starts : period[s][m].invoice = i}

\* create_period: the months asked for meet no period that is not cancelled.
MonthsFree(s, first, last) ==
    \A m \in Starts : period[s][m].status \notin {"absent", "cancelled"} =>
        m > last \/ period[s][m].last < first

\* The last paid month, from the period rows; 0 when nothing is paid.
LastPaid(p) == Max({0} \cup {p[m].last : m \in {n \in Starts : p[n].status = "paid"}})

Untouched(i) == invoice[i].status = "issued" /\ ~invoice[i].receipt /\ ~invoice[i].credit

-----------------------------------------------------------------------------
(* Renewal.                                                                 *)

\* renew finds the subscription active, without a lock ...
ReadRenew(q, s) ==
    /\ Quiet
    /\ req[q] = Idle
    /\ status[s] = "active"
    /\ req' = [req EXCEPT ![q] = [Idle EXCEPT !.op = "renew", !.sub = s]]
    /\ UNCHANGED <<status, paidThrough, period, invoice>>

\* A period is billed anew when it is new and free, when it waits for an
\* invoice, or when its invoice is void and nothing was ever paid or credited.
\* An invoiced or paid one is returned as it is.
Billable(s, m, last) ==
    LET p == period[s][m] IN
    \/ p.status = "absent" /\ MonthsFree(s, m, last)
    \/ p.status = "pending"
    \/ p.status = "cancelled" /\ p.invoice = None
    \/ /\ p.status \in {"cancelled", "invoiced"} /\ p.invoice # None
       /\ invoice[p.invoice] = [NoInvoice EXCEPT !.status = "void"]

\* ... and create_period, with the subscription row locked by now, makes or
\* reopens the period of months m on.  create_invoice_for_period then bills it
\* by i, unless the request asked for no invoice (i = None).
WriteRenew(q, m, months, i) ==
    LET s == req[q].sub
        last == EndOf(m, months)
    IN
    /\ req[q].op = "renew"
    /\ i # None => invoice[i].status = "absent"
    /\ Billable(s, m, last)
    /\ period' = [period EXCEPT ![s][m] =
           [status |-> IF i = None THEN "pending" ELSE "invoiced",
            last |-> IF @.status = "pending" THEN @.last ELSE last,
            invoice |-> i]]
    /\ invoice' = [k \in Invoices |-> IF k = i THEN [NoInvoice EXCEPT !.status = "issued"]
                                               ELSE invoice[k]]
    /\ req' = [req EXCEPT ![q] = Idle]
    /\ UNCHANGED <<status, paidThrough>>

-----------------------------------------------------------------------------
(* Settlement.                                                              *)

\* The periods that invoice i bills are paid, or are not paid any more.
SettledPeriods(i, settles) ==
    [s \in Subs |-> [m \in Starts |->
        LET p == period[s][m] IN
        IF p.invoice = i /\ settles THEN [p EXCEPT !.status = "paid"]
        ELSE IF p.invoice = i /\ p.status = "paid" THEN [p EXCEPT !.status = "invoiced"]
        ELSE p]]

Payable(i) == invoice[i].status \in {"issued", "partially_paid"} /\ Unlocked(i)

\* A receipt for less than the balance leaves periods as they are.
PayInPart(i) ==
    /\ Quiet
    /\ Payable(i)
    /\ invoice' = [invoice EXCEPT ![i].status = "partially_paid", ![i].receipt = TRUE]
    /\ UNCHANGED <<status, paidThrough, period, req>>

\* A receipt for the balance: the periods are paid, and paid_through_date is
\* raised, under the lock of the subscription row, where they reach further.
ThroughOverwritten(s, i) ==
    IF Linked(s, i) = {} THEN paidThrough[s] ELSE Max({period[s][m].last : m \in Linked(s, i)})
RaisedThrough(s, i) == Max({paidThrough[s]} \cup {period[s][m].last : m \in Linked(s, i)})

PayInFull(i) ==
    /\ Quiet
    /\ Payable(i)
    /\ invoice' = [invoice EXCEPT ![i].status = "paid", ![i].receipt = TRUE]
    /\ period' = SettledPeriods(i, TRUE)
    /\ paidThrough' = [s \in Subs |-> RaisedThrough(s, i)]
    /\ UNCHANGED <<status, req>>

\* The invoice status that _sync_invoice_after_credit_change computes.
SettledStatus(i, settles) ==
    IF settles THEN "paid" ELSE IF invoice[i].receipt THEN "partially_paid" ELSE "issued"

\* A credit note is created, for the whole balance or not, or voided: the
\* transaction has the invoice locked and has read the last paid month of the
\* subscriptions it bills, its own changes included.  One note at a time.
ReadCredit(q, i, op, settles) ==
    /\ Quiet
    /\ req[q] = Idle
    /\ Unlocked(i)
    /\ \/ op = "credit" /\ Payable(i) /\ ~invoice[i].credit
       \/ /\ op = "uncredit" /\ ~settles /\ invoice[i].credit
          /\ invoice[i].status \notin {"void", "superseded"}
    /\ req' = [req EXCEPT ![q] = [op |-> op, sub |-> None, invoice |-> i, settles |-> settles,
           through |-> [s \in Subs |-> LastPaid(SettledPeriods(i, settles)[s])]]]
    /\ UNCHANGED <<status, paidThrough, period, invoice>>

\* What the transaction stores and commits as paid through.
StoredThrough(q, s) ==
    IF Linked(s, req[q].invoice) = {} THEN paidThrough[s] ELSE req[q].through[s]

WriteCredit(q) ==
    LET i == req[q].invoice IN
    /\ req[q].op \in {"credit", "uncredit"}
    /\ invoice' = [invoice EXCEPT ![i].status = SettledStatus(i, req[q].settles),
                                  ![i].credit = (req[q].op = "credit")]
    /\ period' = SettledPeriods(i, req[q].settles)
    /\ paidThrough' = [s \in Subs |-> StoredThrough(q, s)]
    /\ req' = [req EXCEPT ![q] = Idle]
    /\ UNCHANGED status

-----------------------------------------------------------------------------
(* Void, reissue and draft edits.                                           *)

\* void_subscription_invoice: the invoice and its period end together.
VoidSubscriptionInvoice(s, m) ==
    LET i == period[s][m].invoice IN
    /\ Quiet
    /\ period[s][m].status = "invoiced" /\ i # None
    /\ Untouched(i) /\ Unlocked(i)
    /\ invoice' = [invoice EXCEPT ![i].status = "void"]
    /\ period' = [period EXCEPT ![s][m].status = "cancelled"]
    /\ UNCHANGED <<status, paidThrough, req>>

\* reissue_invoice up to its transaction.
PaidReissuable(i) == invoice[i].status \in {"issued", "partially_paid", "paid"}
Reissuable(i) == Untouched(i)
CheckReissue(q, i) ==
    /\ Quiet
    /\ req[q] = Idle
    /\ Reissuable(i)
    /\ req' = [req EXCEPT ![q] = [Idle EXCEPT !.op = "reissue", !.invoice = i]]
    /\ UNCHANGED <<status, paidThrough, period, invoice>>

\* Its transaction: the periods go over from invoice i to the replacement j.
NotMoved(p, j) == [p EXCEPT !.status = "invoiced"]
Moved(p, j) == [p EXCEPT !.invoice = j, !.status = "invoiced"]
WriteReissue(q, j) ==
    LET i == req[q].invoice IN
    /\ req[q].op = "reissue"
    /\ Unlocked(i)
    /\ invoice[j].status = "absent"
    /\ invoice' = [invoice EXCEPT ![i].status = "superseded",
                                  ![j] = [NoInvoice EXCEPT !.status = "draft"]]
    /\ period' = [s \in Subs |-> [m \in Starts |->
           IF period[s][m].invoice = i THEN Moved(period[s][m], j) ELSE period[s][m]]]
    /\ req' = [req EXCEPT ![q] = Idle]
    /\ UNCHANGED <<status, paidThrough>>

\* update_draft_invoice up to its transaction.
CheckDraftEdit(q, i) ==
    /\ Quiet
    /\ req[q] = Idle
    /\ invoice[i].status = "draft"
    /\ req' = [req EXCEPT ![q] = [Idle EXCEPT !.op = "edit", !.invoice = i]]
    /\ UNCHANGED <<status, paidThrough, period, invoice>>

\* Its transaction: the periods get the months of the edited line, whichever
\* other periods they meet.  No line is left for the period: they stay.
WriteDraftEdit(q, months, st) ==
    LET i == req[q].invoice IN
    /\ req[q].op = "edit"
    /\ Unlocked(i)
    /\ invoice' = [invoice EXCEPT ![i].status = st]
    /\ period' = [s \in Subs |-> [m \in Starts |->
           IF period[s][m].invoice = i /\ months > 0
           THEN [period[s][m] EXCEPT !.last = EndOf(m, months)] ELSE period[s][m]]]
    /\ req' = [req EXCEPT ![q] = Idle]
    /\ UNCHANGED <<status, paidThrough>>

-----------------------------------------------------------------------------
(* Cancellation.                                                            *)

NoOpenInvoice(s) == \A m \in Starts : period[s][m].status # "invoiced"

\* cancel_subscription, and the package assignment that drops a subscription,
\* look for open invoices and cancel later, the subscription not locked.
CheckCancel(q, s) ==
    /\ Quiet
    /\ req[q] = Idle
    /\ status[s] = "active"
    /\ NoOpenInvoice(s)
    /\ req' = [req EXCEPT ![q] = [Idle EXCEPT !.op = "cancel", !.sub = s]]
    /\ UNCHANGED <<status, paidThrough, period, invoice>>

WriteCancel(q) ==
    /\ req[q].op = "cancel"
    /\ status' = [status EXCEPT ![req[q].sub] = "cancelled"]
    /\ req' = [req EXCEPT ![q] = Idle]
    /\ UNCHANGED <<paidThrough, period, invoice>>

\* change_service_package: the agreement gives way to another one, and nobody asks
\* what is still open on it.
ChangePackage(s) ==
    /\ Quiet
    /\ status[s] = "active"
    /\ status' = [status EXCEPT ![s] = "cancelled"]
    /\ UNCHANGED <<paidThrough, period, invoice, req>>

\* A request that has read ends without writing: refused, or rolled back.
AbandonRequest(q) ==
    /\ req[q] # Idle
    /\ req' = [req EXCEPT ![q] = Idle]
    /\ UNCHANGED <<status, paidThrough, period, invoice>>

-----------------------------------------------------------------------------
\* Steps that write no lines of invoices and no dates of agreements.
PlainStep ==
    \/ \E q \in Requests, s \in Subs : ReadRenew(q, s)
    \/ \E i \in Invoices : PayInPart(i)
    \/ \E i \in Invoices : PayInFull(i)
    \/ \E q \in Requests, i \in Invoices, op \in {"credit", "uncredit"}, b \in BOOLEAN :
           ReadCredit(q, i, op, b)
    \/ \E q \in Requests : WriteCredit(q)
    \/ \E s \in Subs, m \in Starts : VoidSubscriptionInvoice(s, m)
    \/ \E q \in Requests, i \in Invoices : CheckReissue(q, i)
    \/ \E q \in Requests, i \in Invoices : CheckDraftEdit(q, i)
    \/ \E q \in Requests, s \in Subs : CheckCancel(q, s)
    \/ \E q \in Requests : WriteCancel(q)
    \/ \E q \in Requests : AbandonRequest(q)

Next ==
    \/ PlainStep
    \/ \E q \in Requests, m \in Starts, n \in Lengths, i \in Invoices \cup {None} :
           WriteRenew(q, m, n, i)
    \/ \E q \in Requests, j \in Invoices : WriteReissue(q, j)
    \/ \E q \in Requests, n \in Lengths \cup {0}, st \in {"draft", "issued"} :
           WriteDraftEdit(q, n, st)
    \/ \E s \in Subs : ChangePackage(s)

Spec == Init /\ [][Next]_vars

-----------------------------------------------------------------------------
(* Properties that hold however requests interleave.                        *)

\* An invoice bills one period at most, and the periods never go on pointing to
\* an invoice that ended: the period of a void invoice is cancelled, that of a
\* superseded invoice went over to its replacement.
LinksAreSound ==
    \A s \in Subs, m \in Starts : LET p == period[s][m] IN p.invoice # None =>
        /\ invoice[p.invoice].status \notin {"absent", "superseded"}
        /\ invoice[p.invoice].status = "void" => p.status = "cancelled"
        /\ \A t \in Subs, n \in Starts : period[t][n].invoice = p.invoice => t = s /\ n = m

-----------------------------------------------------------------------------
(* Properties of requests that do not overlap.                              *)

\* The stored summary paid_through_date is the end of the last paid period:
\* receipts in any order only raise it, a voided credit note takes it back.
PaidThroughIsLastPaid == \A s \in Subs : paidThrough[s] = LastPaid(period[s])

\* "Reissued subscription invoices retain and update the linked period rather
\* than creating untraceable coverage"
\* (docs/paid_service_coverage_resolution_2026-08-13.md:21): every invoice that
\* is not void or superseded bills a period, and the two agree.
CoverageIsTraceable ==
    /\ \A i \in Invoices : invoice[i].status \in {"draft", "issued", "partially_paid", "paid"} =>
          \E s \in Subs, m \in Starts : period[s][m].invoice = i
    /\ \A s \in Subs, m \in Starts : LET p == period[s][m] IN
          /\ p.status \in {"absent", "pending"} <=> p.invoice = None
          /\ p.status = "paid" => invoice[p.invoice].status = "paid"
          /\ p.status = "cancelled" => invoice[p.invoice].status = "void"
          /\ p.status = "invoiced" =>
                invoice[p.invoice].status \in {"draft", "issued", "partially_paid"}

\* Coverage that was paid for is kept, months and all, unless a credit note
\* that settled it is voided.
CoverageIsKept ==
    [][\A s \in Subs, m \in Starts : LET p == period[s][m] IN
          p.status = "paid" => \/ period'[s][m] = p
                               \/ invoice[p.invoice].credit /\ ~invoice'[p.invoice].credit]_vars

-----------------------------------------------------------------------------
(* What documents and messages promise.                                     *)

\* "New billing periods are rejected when they overlap any non-cancelled
\* period, preventing accidental double billing."
\* (docs/paid_service_coverage_resolution_2026-08-13.md:34)
MonthsBilledOnce ==
    \A s \in Subs : \A m, n \in Starts :
        /\ m < n
        /\ period[s][m].status \notin {"absent", "cancelled"}
        /\ period[s][n].status \notin {"absent", "cancelled"}
        => period[s][m].last < n
=============================================================================
