---------------------------- MODULE CustomerWorklist ----------------------------
(***************************************************************************)
(* What the customer list and the customer page say of a customer's            *)
(* subscriptions (customers/views.py; billing/subscription_reporting.py;        *)
(* paid_service_coverage of billing/services.py).                             *)
(*                                                                          *)
(* Subs are the agreements of one customer.  Beside the rows of Subscriptions   *)
(* they read what those leave out: the months that the recurring line of an      *)
(* invoice says, the balance of an invoice, and the dates of an agreement, which  *)
(* may begin and end in the middle of a month, so that coverage is in half        *)
(* months.  Today lies in a month t; the selected month is t as well.  Cash,       *)
(* contacts and search are left out.                                           *)
(***************************************************************************)
EXTENDS Subscriptions, Sequences, SequencesExt

VARIABLES
    said,         \* months an invoice's recurring line says, 0: those of its period
    unowed,       \* invoices that finance counts no balance of for subscriptions
    from, upto    \* start_date and end_date of agreements

lineVars == <<said, unowed>>
dateVars == <<from, upto>>
workVars == <<vars, lineVars, dateVars>>

FirstHalf(m) == 2 * m - 1
LastHalf(m) == 2 * m
NoEnd == LastHalf(Horizon + MaxMonths)
Halves == 1..NoEnd

WorkTypeOK ==
    /\ said \in [Invoices -> {0} \cup Lengths] /\ unowed \in SUBSET Invoices
    /\ from \in [Subs -> Halves] /\ upto \in [Subs -> Halves]

WorkInit ==
    /\ Init
    /\ said = [i \in Invoices |-> 0] /\ unowed = {}
    /\ from \in [Subs -> FirstHalf(1)..LastHalf(Horizon)] /\ upto = [s \in Subs |-> NoEnd]

--------------------------------------------------------------------------------
(* The steps of Subscriptions with the rows they write beside its own. *)

\* The line says the months of the period.  A fee or a discount may leave nothing to pay.
Renew(q, m, n, i) ==
    /\ WriteRenew(q, m, n, i)
    /\ \E free \in BOOLEAN : unowed' = IF free THEN unowed \cup ({i} \ {None}) ELSE unowed
    /\ UNCHANGED <<said, dateVars>>

\* The lines are copied.
Reissue(q, j) ==
    LET i == req[q].invoice IN
    /\ WriteReissue(q, j)
    /\ said' = [said EXCEPT ![j] = said[i]]
    /\ unowed' = IF i \in unowed THEN unowed \cup {j} ELSE unowed
    /\ UNCHANGED dateVars

\* The period takes its months from one line (_subscription_invoice_item_for_period)
\* and the list reads them from another: the first that recurs monthly.
EditLines(q, n, st, months) ==
    LET i == req[q].invoice IN
    /\ WriteDraftEdit(q, n, st)
    /\ said' = [said EXCEPT ![i] = months]
    /\ \E free \in BOOLEAN : unowed' = IF free THEN unowed \cup {i} ELSE unowed \ {i}
    /\ UNCHANGED dateVars

\* change_service_package: the agreement ends the day before the change takes effect.
EndForChange(s) ==
    /\ ChangePackage(s)
    /\ \E h \in from[s]..(NoEnd - 1) : upto' = [upto EXCEPT ![s] = h]
    /\ UNCHANGED <<lineVars, from>>

WorkNext ==
    \/ PlainStep /\ UNCHANGED <<lineVars, dateVars>>
    \/ \E q \in Requests, m \in Starts, n \in Lengths, i \in Invoices \cup {None} :
           Renew(q, m, n, i)
    \/ \E q \in Requests, j \in Invoices : Reissue(q, j)
    \/ \E q \in Requests, n \in Lengths \cup {0}, st \in {"draft", "issued"},
          months \in Lengths \cup {0} : EditLines(q, n, st, months)
    \/ \E s \in Subs : EndForChange(s)

WorkSpec == WorkInit /\ [][WorkNext]_workVars

--------------------------------------------------------------------------------
Active == { s \in Subs : status[s] = "active" }

Open(s, m) == period[s][m].status = "invoiced"
Settled(s, m) == period[s][m].status = "paid"
Covers(s, m, t) == m <= t /\ t <= period[s][m].last
Live(s, m) == period[s][m].status \notin {"absent", "cancelled"}

--------------------------------------------------------------------------------
(* Coverage that is paid. *)

\* The end of a paid period by the line of its invoice, and a line that says more.
LineEnd(s, m) ==
    LET months == said[period[s][m].invoice]
    IN  IF months = 0 THEN period[s][m].last ELSE EndOf(m, months)
SaysMore(s) == \E m \in Starts : Settled(s, m) /\ LineEnd(s, m) > period[s][m].last

\* _subscription_paid_through_date: the stored date, or a paid line that ends later.
PaidThroughDate(s) ==
    Max({paidThrough[s]} \cup { LineEnd(s, m) : m \in { n \in Starts : Settled(s, n) } })
\* _customer_paid_through_date.
ThroughOf(S) == Max({0} \cup { PaidThroughDate(s) : s \in S })

\* _paid_ranges_for_subscription: clipped to the agreement, of agreements S.
PaidRanges(S) ==
    UNION { { [start |-> Max({FirstHalf(m), from[s]}),
               end |-> Min({LastHalf(period[s][m].last), upto[s]})] :
              m \in { n \in Starts : Settled(s, n) } } : s \in S }
Earlier(a, b) == a.start < b.start \/ (a.start = b.start /\ a.end < b.end)

\* _merge_paid_coverage_ranges: ranges in order of their start, those that are clipped
\* away left out, each joined to the window before it when nothing lies between.
Joined(windows, range) ==
    IF range.start > range.end THEN windows
    ELSE IF windows # <<>> /\ range.start <= Last(windows).end + 1
    THEN Append(Front(windows),
                [start |-> Last(windows).start, end |-> Max({Last(windows).end, range.end})])
    ELSE Append(windows, [start |-> range.start, end |-> range.end])
PaidWindows(S) == FoldLeft(Joined, <<>>, SetToSortSeq(PaidRanges(S), Earlier))

--------------------------------------------------------------------------------
(* Queues of the list. *)

InQueue(t, st) == \E s \in Subs, m \in Starts :
    period[s][m].status = st /\ period[s][m].invoice # None /\ Covers(s, m, t)
UnpaidQueue(t) == InQueue(t, "invoiced")
PaidQueue(t) == InQueue(t, "paid")

\* _due_soon_customer_ids: nothing open, and the last paid month is this one.
DueSoonIfAnyEnds(t) == \E s \in Active : PaidThroughDate(s) = t
DueSoon(t) == ThroughOf(Active) = t
DueQueue(t) ==
    /\ \A s \in Subs, m \in Starts : ~Open(s, m)
    /\ DueSoon(t)

--------------------------------------------------------------------------------
(* Debts: the balances of subscription_snapshot, through the periods that are not    *)
(* cancelled, of which the list counts those above nothing.                       *)

Unsettled(i) == invoice[i].status \in {"issued", "partially_paid"}
Owed(i) == Unsettled(i) /\ i \notin unowed
Owing == { i \in Invoices : Owed(i) /\ \E s \in Subs : \E m \in Linked(s, i) : Live(s, m) }

--------------------------------------------------------------------------------
(* The badge of the customer. *)

ByDate(through, t) ==
    IF through < t THEN "expired" ELSE IF through = t THEN "due soon" ELSE "paid"

\* _enrich_customers, for finance.
FinanceBadge(t) ==
    IF Active # {} /\ ~\E s \in Subs, m \in Starts : Live(s, m) /\ Covers(s, m, t) THEN "no billing"
    ELSE IF Owing # {} THEN "unpaid"
    ELSE IF ThroughOf(Subs) > 0 THEN ByDate(ThroughOf(Subs), t)
    ELSE IF Active # {} THEN "not paid" ELSE "no subscription"

\* _enrich_customers_for_sales: no amounts, the stored dates only.
StoredThroughOf == Max({0} \cup { paidThrough[s] : s \in Subs })
SalesBadge(t) ==
    IF \E s \in Subs, m \in Starts : Open(s, m) THEN "unpaid"
    ELSE IF StoredThroughOf > 0 THEN ByDate(StoredThroughOf, t)
    ELSE IF Active # {} THEN "not paid" ELSE "no subscription"

\* _attach_site_summary, for the site of agreement s.
SiteState(s, t) ==
    IF s \notin Active THEN "no subscription"
    ELSE IF \E m \in Starts : Open(s, m) /\ period[s][m].invoice \in Owing THEN "unpaid"
    ELSE IF PaidThroughDate(s) > 0 THEN ByDate(PaidThroughDate(s), t)
    ELSE "not paid"

--------------------------------------------------------------------------------
(* The queues of a month do not send two people after one customer: who is due soon   *)
(* has nothing open ("so queues never overlap", customers/views.py:315) and is not     *)
(* called unpaid or expired by finance.  Unless a paid line says more months than its   *)
(* period, which the queue believes ("accounts for paid legacy invoices"), he is paid   *)
(* this month to its end, and sales say as much.  A badge says "paid" of him only by a   *)
(* cancelled agreement that was paid further.                                        *)
QueuesDoNotOverlap ==
    \A t \in Starts : DueQueue(t) =>
        /\ \A u \in Starts : ~UnpaidQueue(u)
        /\ FinanceBadge(t) \in {"due soon", "paid", "no billing"}
        /\ FinanceBadge(t) = "paid" => ThroughOf(Subs \ Active) > t
        /\ (\A s \in Active : ~SaysMore(s)) =>
               PaidQueue(t) /\ FinanceBadge(t) # "no billing" /\ SalesBadge(t) \in {"due soon", "paid"}

(* Finance, which reads balances, and sales, who read periods, are told of the same     *)
(* debts but for two: a draft that a reissue left, and an invoice nothing is due on,      *)
(* which is open to sales for good.  With nothing open both see the same date, stored     *)
(* or computed, or finance a later one by a paid line that says more than its period.     *)
BadgesAgree ==
    /\ { period[p[1]][p[2]].invoice : p \in { q \in Subs \X Starts : Open(q[1], q[2]) } }
         = Owing \cup { i \in Invoices : /\ invoice[i].status = "draft" \/ (Unsettled(i) /\ i \in unowed)
                                         /\ \E s \in Subs : Linked(s, i) # {} }
    /\ \A t \in Starts :
          (\A s \in Subs, m \in Starts : ~Open(s, m)) =>
              \/ FinanceBadge(t) \in {SalesBadge(t), "no billing"}
              \/ ThroughOf(Subs) > StoredThroughOf /\ \E s \in Subs : SaysMore(s)
    /\ \A s \in Subs, t \in Starts : SiteState(s, t) = "unpaid" => FinanceBadge(t) \in {"unpaid", "no billing"}

\* What is paid of the agreements S in half a month: "a calendar-month invoice never
\* claims service before the agreement started or after it ended"
\* (docs/paid_service_coverage_resolution_2026-08-13.md:29).
Served(S, h) ==
    \E s \in S : /\ h \in from[s]..upto[s]
                 /\ \E m \in Starts : Settled(s, m) /\ h \in FirstHalf(m)..LastHalf(period[s][m].last)

(* The windows of paid service on the customer page ("continuous, financially settled    *)
(* service-coverage interval") are what is paid within the agreements, whole, apart and   *)
(* in order.  They never end after the date the customer is paid through, and at it        *)
(* unless that date is past the agreement, or a line says more.                         *)
WindowsAreCoverage ==
    \A S \in SUBSET Subs : LET w == PaidWindows(S) IN
        /\ UNION { w[k].start..w[k].end : k \in DOMAIN w } = { h \in Halves : Served(S, h) }
        /\ \A k \in DOMAIN w : w[k].start <= w[k].end /\ (k > 1 => w[k].start > w[k-1].end + 1)
        /\ w # <<>> => Last(w).end <= LastHalf(ThroughOf(S))
        /\ (\A s \in S : ~SaysMore(s) /\ from[s] <= LastHalf(paidThrough[s]) /\ upto[s] = NoEnd) =>
               S = {} \/ (w # <<>> /\ Last(w).end = LastHalf(ThroughOf(S)))

(* What the customer list and page show is true of the periods and invoices, for requests   *)
(* that do not overlap.                                                               *)
WorklistsAreTrue ==
    QueuesDoNotOverlap /\ BadgesAgree /\ WindowsAreCoverage
================================================================================
