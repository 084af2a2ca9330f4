------------------------- MODULE SubscriptionsProofs -------------------------
(***************************************************************************)
(* Proofs about Subscriptions, and what CustomerWorklist says of them, for  *)
(* any calendar and any set of ids.                                         *)
(***************************************************************************)
EXTENDS CustomerWorklist, WellFoundedInduction, TLAPS

-----------------------------------------------------------------------------
(* The last of a set of months.                                             *)

\* A nonempty set of months has a last one.
LEMMA LastMonth ==
    ASSUME NEW S \in SUBSET Ends, S # {}
    PROVE  Max(S) \in S /\ \A x \in S : x <= Max(S)
<1> DEFINE K == Horizon + MaxMonths
           T == {K - x : x \in S}
           R == OpToRel(<, Nat)
<1>1. K \in Nat /\ \A x \in S : x \in Nat /\ x < K
  BY Calendar DEF Ends
<1>2. T \subseteq Nat /\ T # {}
  BY <1>1
<1>3. \E a \in T : \A b \in T : ~(<<b, a>> \in R)
  BY <1>2, NatLessThanWellFounded, WFMin
<1>4. PICK a \in T : \A b \in T : ~(<<b, a>> \in R)
  BY <1>3
<1>5. \A b \in T : ~(b < a)
  BY <1>2, <1>4 DEF OpToRel
<1>6. PICK y \in S : a = K - y
  BY <1>4
<1>7. \A x \in S : y >= x
  BY <1>1, <1>5, <1>6
<1>8. \E z \in S : \A x \in S : z >= x
  BY <1>7
<1>9. Max(S) \in S /\ \A x \in S : Max(S) >= x
  BY <1>8 DEF Max
<1> QED BY <1>9, <1>1

\* The last month of a period is a month of the calendar.
LEMMA EndTyped ==
    ASSUME NEW m \in Starts, NEW n \in Lengths
    PROVE  EndOf(m, n) \in Ends
  BY Calendar DEF EndOf, Starts, Lengths, Ends

LEMMA ZeroIsEnd == 0 \in Ends
  BY Calendar DEF Ends

\* The ends of a set of periods are months of the calendar.
LEMMA EndsOfTyped ==
    ASSUME NEW p \in [Starts -> Period], NEW M \in SUBSET Starts
    PROVE  {p[m].last : m \in M} \in SUBSET Ends
<1>1. \A m \in M : p[m].last \in Ends
  BY DEF Period
<1> QED BY <1>1

\* What LastPaid is: a month no paid period ends after, zero or the end of one.
LEMMA LastPaidIs ==
    ASSUME NEW p \in [Starts -> Period]
    PROVE  /\ LastPaid(p) \in Ends
           /\ \A m \in Starts : p[m].status = "paid" => p[m].last <= LastPaid(p)
           /\ \/ LastPaid(p) = 0
              \/ \E m \in Starts : p[m].status = "paid" /\ p[m].last = LastPaid(p)
<1> DEFINE P == {n \in Starts : p[n].status = "paid"}
           E == {0} \cup {p[m].last : m \in P}
<1>1. P \in SUBSET Starts
  OBVIOUS
<1>2. E \in SUBSET Ends /\ E # {}
  BY <1>1, EndsOfTyped, ZeroIsEnd
<1>3. Max(E) \in E /\ \A x \in E : x <= Max(E)
  BY <1>2, LastMonth
<1>4. LastPaid(p) = Max(E)
  BY DEF LastPaid
<1>5. \A m \in P : p[m].last \in E
  OBVIOUS
<1> QED BY <1>2, <1>3, <1>4, <1>5

\* What a receipt raises paid_through_date to.
LEMMA RaisedIs ==
    ASSUME TypeOK, NEW s \in Subs, NEW i \in Invoices
    PROVE  /\ RaisedThrough(s, i) \in Ends
           /\ paidThrough[s] <= RaisedThrough(s, i)
           /\ \A m \in Linked(s, i) : period[s][m].last <= RaisedThrough(s, i)
           /\ \/ RaisedThrough(s, i) = paidThrough[s]
              \/ \E m \in Linked(s, i) : period[s][m].last = RaisedThrough(s, i)
<1> DEFINE E == {paidThrough[s]} \cup {period[s][m].last : m \in Linked(s, i)}
<1>1. Linked(s, i) \in SUBSET Starts /\ period[s] \in [Starts -> Period] /\ paidThrough[s] \in Ends
  BY DEF Linked, TypeOK
<1>2. E \in SUBSET Ends /\ E # {}
  BY <1>1, EndsOfTyped
<1>3. Max(E) \in E /\ \A x \in E : x <= Max(E)
  BY <1>2, LastMonth
<1>4. RaisedThrough(s, i) = Max(E)
  BY DEF RaisedThrough
<1> QED BY <1>2, <1>3, <1>4

-----------------------------------------------------------------------------
(* Types.                                                                   *)

LEMMA Constants ==
    /\ NoPeriod \in Period
    /\ NoInvoice \in Invoice
    /\ Idle \in Request
<1>1. NoPeriod \in Period
  BY ZeroIsEnd DEF NoPeriod, Period
<1>2. NoInvoice \in Invoice
  BY DEF NoInvoice, Invoice
<1>3. Idle \in Request
  BY ZeroIsEnd DEF Idle, Request
<1> QED BY <1>1, <1>2, <1>3

\* Settling an invoice touches the status of the periods it bills only.
LEMMA SettledIs ==
    ASSUME TypeOK, NEW i \in Invoices, NEW b \in BOOLEAN
    PROVE  /\ SettledPeriods(i, b) \in [Subs -> [Starts -> Period]]
           /\ \A s \in Subs, m \in Starts :
                 LET p == period[s][m]
                     z == SettledPeriods(i, b)[s][m]
                 IN  /\ z.last = p.last /\ z.invoice = p.invoice
                     /\ z.status = IF p.invoice = i /\ b THEN "paid"
                                   ELSE IF p.invoice = i /\ p.status = "paid" THEN "invoiced"
                                   ELSE p.status
<1> SUFFICES ASSUME NEW s \in Subs, NEW m \in Starts
             PROVE  LET p == period[s][m]
                        z == SettledPeriods(i, b)[s][m]
                    IN  /\ z \in Period
                        /\ z.last = p.last /\ z.invoice = p.invoice
                        /\ z.status = IF p.invoice = i /\ b THEN "paid"
                                      ELSE IF p.invoice = i /\ p.status = "paid" THEN "invoiced"
                                      ELSE p.status
  BY DEF SettledPeriods
<1>1. period[s][m] \in Period
  BY DEF TypeOK
<1>2. SettledPeriods(i, b)[s][m] =
         IF period[s][m].invoice = i /\ b THEN [period[s][m] EXCEPT !.status = "paid"]
         ELSE IF period[s][m].invoice = i /\ period[s][m].status = "paid"
              THEN [period[s][m] EXCEPT !.status = "invoiced"]
              ELSE period[s][m]
  BY DEF SettledPeriods
<1> QED BY <1>1, <1>2 DEF Period

LEMMA PaidIs ==
    ASSUME TypeOK, NEW i \in Invoices
    PROVE  \A s \in Subs, m \in Starts :
              LET p == period[s][m]
                  z == SettledPeriods(i, TRUE)[s][m]
              IN  /\ z.last = p.last /\ z.invoice = p.invoice
                  /\ z.status = IF p.invoice = i THEN "paid" ELSE p.status
<1> TAKE s \in Subs, m \in Starts
<1>1. period[s][m] \in Period
  BY DEF TypeOK
<1>2. SettledPeriods(i, TRUE)[s][m] =
         IF period[s][m].invoice = i THEN [period[s][m] EXCEPT !.status = "paid"]
         ELSE period[s][m]
  BY DEF SettledPeriods
<1> QED BY <1>1, <1>2 DEF Period

\* A request that goes back to idle leaves well typed requests.
LEMMA ReqTyped ==
    ASSUME TypeOK, NEW q \in Requests, NEW r \in Request, req' = [req EXCEPT ![q] = r]
    PROVE  req' \in [Requests -> Request]
  BY DEF TypeOK

\* A request between its read and its write names what it read.
NamesIts(r) ==
    /\ r.op \in {"renew", "cancel"} => r.sub \in Subs
    /\ r.op \in {"reissue", "edit", "credit", "uncredit"} => r.invoice \in Invoices

Named == \A q \in Requests : NamesIts(req[q])

\* Each action keeps the types.
LEMMA TypeStep == TypeOK /\ Named /\ [Next]_vars => TypeOK'
<1> SUFFICES ASSUME TypeOK, Named, [Next]_vars PROVE TypeOK'
  OBVIOUS
<1> USE Constants
<1>1. ASSUME NEW q \in Requests, NEW s \in Subs, ReadRenew(q, s) PROVE TypeOK'
  <2>1. [Idle EXCEPT !.op = "renew", !.sub = s] \in Request
    BY DEF Idle, Request
  <2> QED BY <1>1, <2>1, ReqTyped DEF ReadRenew, TypeOK
<1>2. ASSUME NEW q \in Requests, NEW m \in Starts, NEW n \in Lengths,
             NEW i \in Invoices \cup {None}, WriteRenew(q, m, n, i) PROVE TypeOK'
  <2> DEFINE s == req[q].sub
             new == [status |-> IF i = None THEN "pending" ELSE "invoiced",
                     last |-> IF period[s][m].status = "pending" THEN period[s][m].last
                              ELSE EndOf(m, n),
                     invoice |-> i]
  <2>1. period' = [period EXCEPT ![s][m] = new]
    BY <1>2 DEF WriteRenew
  <2>2. s \in Subs => new \in Period
    BY EndTyped DEF Period, TypeOK
  <2>3. period' \in [Subs -> [Starts -> Period]]
    BY <2>1, <2>2 DEF TypeOK
  <2>4. invoice' \in [Invoices -> Invoice]
    BY <1>2 DEF WriteRenew, TypeOK, Invoice, NoInvoice
  <2> QED BY <1>2, <2>3, <2>4, ReqTyped DEF WriteRenew, TypeOK
<1>3. ASSUME NEW i \in Invoices, PayInPart(i) PROVE TypeOK'
  BY <1>3 DEF PayInPart, TypeOK, Invoice
<1>4. ASSUME NEW i \in Invoices, PayInFull(i) PROVE TypeOK'
  <2>1. invoice' \in [Invoices -> Invoice]
    BY <1>4 DEF PayInFull, TypeOK, Invoice
  <2>2. period' \in [Subs -> [Starts -> Period]]
    BY <1>4, SettledIs DEF PayInFull
  <2>3. paidThrough' \in [Subs -> Ends]
    BY <1>4, RaisedIs DEF PayInFull
  <2> QED BY <1>4, <2>1, <2>2, <2>3 DEF PayInFull, TypeOK
<1>5. ASSUME NEW q \in Requests, NEW i \in Invoices, NEW op \in {"credit", "uncredit"},
             NEW b \in BOOLEAN, ReadCredit(q, i, op, b) PROVE TypeOK'
  <2>1. \A s \in Subs : LastPaid(SettledPeriods(i, b)[s]) \in Ends
    BY SettledIs, LastPaidIs
  <2> DEFINE r == [op |-> op, sub |-> None, invoice |-> i, settles |-> b,
                   through |-> [s \in Subs |-> LastPaid(SettledPeriods(i, b)[s])]]
  <2>2. r \in Request
    BY <2>1 DEF Request
  <2>3. req' = [req EXCEPT ![q] = r]
    BY <1>5 DEF ReadCredit
  <2>4. req' \in [Requests -> Request]
    BY <2>2, <2>3, ReqTyped
  <2> QED BY <1>5, <2>4 DEF ReadCredit, TypeOK
<1>6. ASSUME NEW q \in Requests, WriteCredit(q) PROVE TypeOK'
  <2> DEFINE i == req[q].invoice
  <2>1. req[q] \in Request /\ i \in Invoices
    BY <1>6 DEF TypeOK, Named, NamesIts, WriteCredit
  <2>2. invoice' \in [Invoices -> Invoice]
    BY <1>6, <2>1 DEF WriteCredit, TypeOK, Invoice, SettledStatus
  <2>3. period' \in [Subs -> [Starts -> Period]]
    BY <1>6, <2>1, SettledIs DEF WriteCredit, Request
  <2>4. paidThrough' \in [Subs -> Ends]
    BY <1>6, <2>1 DEF WriteCredit, StoredThrough, TypeOK, Request
  <2> QED BY <1>6, <2>2, <2>3, <2>4, ReqTyped DEF WriteCredit, TypeOK
<1>7. ASSUME NEW s \in Subs, NEW m \in Starts, VoidSubscriptionInvoice(s, m) PROVE TypeOK'
  <2>1. invoice' \in [Invoices -> Invoice]
    BY <1>7 DEF VoidSubscriptionInvoice, TypeOK, Invoice
  <2>2. period' \in [Subs -> [Starts -> Period]]
    <3>1. [period[s][m] EXCEPT !.status = "cancelled"] \in Period
      <4>1. period[s][m] \in Period
        BY DEF TypeOK
      <4> QED BY <4>1 DEF Period
    <3>2. period' = [period EXCEPT ![s][m] = [period[s][m] EXCEPT !.status = "cancelled"]]
      BY <1>7 DEF VoidSubscriptionInvoice, TypeOK
    <3> QED BY <3>1, <3>2 DEF TypeOK
  <2> QED BY <1>7, <2>1, <2>2 DEF VoidSubscriptionInvoice, TypeOK
<1>8. ASSUME NEW q \in Requests, NEW i \in Invoices, CheckReissue(q, i) PROVE TypeOK'
  <2>1. [Idle EXCEPT !.op = "reissue", !.invoice = i] \in Request
    BY DEF Idle, Request
  <2> QED BY <1>8, <2>1, ReqTyped DEF CheckReissue, TypeOK
<1>9. ASSUME NEW q \in Requests, NEW j \in Invoices, WriteReissue(q, j) PROVE TypeOK'
  <2>1. req[q].invoice \in Invoices
    BY <1>9 DEF Named, NamesIts, WriteReissue
  <2>2. invoice' \in [Invoices -> Invoice]
    BY <1>9, <2>1 DEF WriteReissue, TypeOK, Invoice, NoInvoice
  <2>3. \A p \in Period : Moved(p, j) \in Period
    BY DEF Moved, Period
  <2>4. period' \in [Subs -> [Starts -> Period]]
    BY <1>9, <2>3 DEF WriteReissue, TypeOK
  <2> QED BY <1>9, <2>2, <2>4, ReqTyped DEF WriteReissue, TypeOK
<1>10. ASSUME NEW q \in Requests, NEW i \in Invoices, CheckDraftEdit(q, i) PROVE TypeOK'
  <2>1. [Idle EXCEPT !.op = "edit", !.invoice = i] \in Request
    BY DEF Idle, Request
  <2> QED BY <1>10, <2>1, ReqTyped DEF CheckDraftEdit, TypeOK
<1>11. ASSUME NEW q \in Requests, NEW n \in Lengths \cup {0}, NEW st \in {"draft", "issued"},
              WriteDraftEdit(q, n, st) PROVE TypeOK'
  <2>1. invoice' \in [Invoices -> Invoice]
    BY <1>11 DEF WriteDraftEdit, TypeOK, Invoice
  <2>2. \A m \in Starts, p \in Period : n > 0 => [p EXCEPT !.last = EndOf(m, n)] \in Period
    BY EndTyped, Calendar DEF Period, Lengths
  <2>3. period' \in [Subs -> [Starts -> Period]]
    BY <1>11, <2>2 DEF WriteDraftEdit, TypeOK
  <2> QED BY <1>11, <2>1, <2>3, ReqTyped DEF WriteDraftEdit, TypeOK
<1>12. ASSUME NEW q \in Requests, NEW s \in Subs, CheckCancel(q, s) PROVE TypeOK'
  <2>1. [Idle EXCEPT !.op = "cancel", !.sub = s] \in Request
    BY DEF Idle, Request
  <2> QED BY <1>12, <2>1, ReqTyped DEF CheckCancel, TypeOK
<1>13. ASSUME NEW q \in Requests, WriteCancel(q) PROVE TypeOK'
  BY <1>13, ReqTyped DEF WriteCancel, TypeOK
<1>14. ASSUME NEW q \in Requests, AbandonRequest(q) PROVE TypeOK'
  BY <1>14, ReqTyped DEF AbandonRequest, TypeOK
<1>15. CASE UNCHANGED vars
  BY <1>15 DEF vars, TypeOK
<1>16. ASSUME NEW s \in Subs, ChangePackage(s) PROVE TypeOK'
  BY <1>16 DEF ChangePackage, TypeOK
<1> QED BY <1>1, <1>2, <1>3, <1>4, <1>5, <1>6, <1>7, <1>8, <1>9, <1>10, <1>11, <1>12, <1>13,
           <1>14, <1>15, <1>16 DEF Next, PlainStep

LEMMA ReqNamed ==
    ASSUME TypeOK, Named, NEW q \in Requests, NEW r, NamesIts(r), req' = [req EXCEPT ![q] = r]
    PROVE  Named'
<1> SUFFICES ASSUME NEW k \in Requests PROVE NamesIts(req'[k])
  BY DEF Named, NamesIts
<1>1. req'[k] = req[k] \/ req'[k] = r
  BY DEF TypeOK
<1> QED BY <1>1 DEF Named

\* The requests that are under way still name what they are about.
LEMMA NamedStep == TypeOK /\ Named /\ [Next]_vars => Named'
<1> SUFFICES ASSUME TypeOK, Named, [Next]_vars PROVE Named'
  OBVIOUS
<1>1. NamesIts(Idle)
  BY DEF NamesIts, Idle
<1>2. ASSUME NEW q \in Requests, NEW s \in Subs, ReadRenew(q, s) \/ CheckCancel(q, s) PROVE Named'
  <2>1. \A op \in {"renew", "cancel"} : NamesIts([Idle EXCEPT !.op = op, !.sub = s])
    BY DEF NamesIts, Idle
  <2>2. CASE ReadRenew(q, s)
    BY <2>1, <2>2, ReqNamed DEF ReadRenew
  <2>3. CASE CheckCancel(q, s)
    BY <2>1, <2>3, ReqNamed DEF CheckCancel
  <2> QED BY <1>2, <2>2, <2>3
<1>3. ASSUME NEW q \in Requests, NEW i \in Invoices, CheckReissue(q, i) \/ CheckDraftEdit(q, i)
      PROVE Named'
  <2>1. \A op \in {"reissue", "edit"} : NamesIts([Idle EXCEPT !.op = op, !.invoice = i])
    BY DEF NamesIts, Idle
  <2>2. CASE CheckReissue(q, i)
    BY <2>1, <2>2, ReqNamed DEF CheckReissue
  <2>3. CASE CheckDraftEdit(q, i)
    BY <2>1, <2>3, ReqNamed DEF CheckDraftEdit
  <2> QED BY <1>3, <2>2, <2>3
<1>4. ASSUME NEW q \in Requests, NEW i \in Invoices, NEW op \in {"credit", "uncredit"},
             NEW b \in BOOLEAN, ReadCredit(q, i, op, b) PROVE Named'
  <2> DEFINE r == [op |-> op, sub |-> None, invoice |-> i, settles |-> b,
                   through |-> [s \in Subs |-> LastPaid(SettledPeriods(i, b)[s])]]
  <2>1. NamesIts(r)
    BY DEF NamesIts
  <2>2. req' = [req EXCEPT ![q] = r]
    BY <1>4 DEF ReadCredit
  <2> HIDE DEF r
  <2> QED BY <2>1, <2>2, ReqNamed
<1>5. ASSUME NEW q \in Requests, req' = [req EXCEPT ![q] = Idle] PROVE Named'
  BY <1>1, <1>5, ReqNamed
<1>6. CASE \/ \E q \in Requests, m \in Starts, n \in Lengths, i \in Invoices \cup {None} :
                 WriteRenew(q, m, n, i)
           \/ \E q \in Requests, j \in Invoices : WriteReissue(q, j)
           \/ \E q \in Requests, n \in Lengths \cup {0}, st \in {"draft", "issued"} :
                 WriteDraftEdit(q, n, st)
           \/ \E q \in Requests : WriteCredit(q) \/ WriteCancel(q) \/ AbandonRequest(q)
  BY <1>5, <1>6 DEF WriteRenew, WriteReissue, WriteDraftEdit, WriteCredit, WriteCancel,
                    AbandonRequest
<1>7. CASE \/ UNCHANGED vars
           \/ \E s \in Subs : ChangePackage(s)
           \/ \E i \in Invoices : PayInPart(i) \/ PayInFull(i)
           \/ \E s \in Subs, m \in Starts : VoidSubscriptionInvoice(s, m)
  BY <1>7 DEF vars, ChangePackage, PayInPart, PayInFull, VoidSubscriptionInvoice, Named
<1> QED BY <1>2, <1>3, <1>4, <1>6, <1>7 DEF Next, PlainStep

\* Every reachable state of the subscriptions is well typed, for any calendar,
\* any set of ids and any interleaving: so is every date that
\* _sync_invoice_after_credit_change and create_receipt_from_invoice store.
THEOREM TypeCorrect == Spec => []TypeOK
<1>1. Init => TypeOK /\ Named
  BY Constants, ZeroIsEnd DEF Init, TypeOK, Named, NamesIts, Idle
<1>2. TypeOK /\ Named /\ [Next]_vars => (TypeOK /\ Named)'
  BY TypeStep, NamedStep
<1> QED BY <1>1, <1>2, PTL DEF Spec

-----------------------------------------------------------------------------
(* What each handler does to periods and invoices.                          *)

LEMMA RenewDoes ==
    ASSUME TypeOK, Named, NEW q \in Requests, NEW m \in Starts, NEW n \in Lengths,
           NEW i \in Invoices \cup {None}, WriteRenew(q, m, n, i)
    PROVE  /\ req[q].sub \in Subs
           /\ Billable(req[q].sub, m, EndOf(m, n))
           /\ \A t \in Subs, l \in Starts :
                 IF t = req[q].sub /\ l = m
                 THEN /\ period'[t][l].invoice = i
                      /\ period'[t][l].status = IF i = None THEN "pending" ELSE "invoiced"
                 ELSE period'[t][l] = period[t][l]
           /\ \A k \in Invoices :
                 IF k = i THEN /\ invoice[k].status = "absent"
                               /\ invoice'[k].status = "issued" /\ ~invoice'[k].credit
                          ELSE invoice'[k] = invoice[k]
<1> DEFINE s == req[q].sub
           new == [status |-> IF i = None THEN "pending" ELSE "invoiced",
                   last |-> IF period[s][m].status = "pending" THEN period[s][m].last
                            ELSE EndOf(m, n),
                   invoice |-> i]
<1>1. period' = [period EXCEPT ![s][m] = new] /\ s \in Subs
  BY DEF WriteRenew, Named, NamesIts
<1>2. \A t \in Subs, l \in Starts : period'[t][l] = IF t = s /\ l = m THEN new ELSE period[t][l]
  BY <1>1 DEF TypeOK
<1>3. \A k \in Invoices : IF k = i THEN /\ invoice[k].status = "absent"
                                        /\ invoice'[k].status = "issued" /\ ~invoice'[k].credit
                                   ELSE invoice'[k] = invoice[k]
  BY NullKey DEF WriteRenew, NoInvoice
<1>4. new.invoice = i /\ new.status = IF i = None THEN "pending" ELSE "invoiced"
  OBVIOUS
<1>5. Billable(s, m, EndOf(m, n))
  BY DEF WriteRenew
<1> HIDE DEF new
<1> QED BY <1>1, <1>2, <1>3, <1>4, <1>5

LEMMA PartDoes ==
    ASSUME TypeOK, NEW i \in Invoices, PayInPart(i)
    PROVE  /\ period' = period /\ paidThrough' = paidThrough
           /\ invoice[i].status \in {"issued", "partially_paid"}
           /\ \A k \in Invoices :
                 /\ invoice'[k].status = IF k = i THEN "partially_paid" ELSE invoice[k].status
                 /\ invoice'[k].credit = invoice[k].credit
  BY DEF PayInPart, Payable, TypeOK, Invoice

LEMMA FullDoes ==
    ASSUME TypeOK, NEW i \in Invoices, PayInFull(i)
    PROVE  /\ period' = SettledPeriods(i, TRUE)
           /\ invoice[i].status \in {"issued", "partially_paid"}
           /\ \A k \in Invoices :
                 /\ invoice'[k].status = IF k = i THEN "paid" ELSE invoice[k].status
                 /\ invoice'[k].credit = invoice[k].credit
  BY DEF PayInFull, Payable, TypeOK, Invoice

LEMMA CreditDoes ==
    ASSUME TypeOK, Named, NEW q \in Requests, WriteCredit(q)
    PROVE  /\ req[q].invoice \in Invoices /\ req[q].settles \in BOOLEAN
           /\ period' = SettledPeriods(req[q].invoice, req[q].settles)
           /\ \A k \in Invoices :
                 IF k = req[q].invoice
                 THEN /\ invoice'[k].credit = (req[q].op = "credit")
                      /\ IF req[q].settles THEN invoice'[k].status = "paid"
                         ELSE invoice'[k].status \in {"partially_paid", "issued"}
                 ELSE invoice'[k] = invoice[k]
<1>1. req[q].invoice \in Invoices /\ req[q].settles \in BOOLEAN
  BY DEF WriteCredit, Named, NamesIts, TypeOK, Request
<1>2. period' = SettledPeriods(req[q].invoice, req[q].settles)
  BY DEF WriteCredit
<1> QED BY <1>1, <1>2, ZenonT(60) DEF WriteCredit, SettledStatus, TypeOK, Invoice

LEMMA VoidDoes ==
    ASSUME TypeOK, NEW s \in Subs, NEW m \in Starts, VoidSubscriptionInvoice(s, m)
    PROVE  /\ period[s][m].invoice \in Invoices
           /\ period[s][m].status = "invoiced"
           /\ ~invoice[period[s][m].invoice].credit
           /\ \A k \in Invoices :
                 /\ invoice'[k].status = IF k = period[s][m].invoice THEN "void"
                                                                     ELSE invoice[k].status
                 /\ invoice'[k].credit = invoice[k].credit
           /\ \A t \in Subs, l \in Starts :
                 IF t = s /\ l = m THEN /\ period'[t][l].invoice = period[t][l].invoice
                                        /\ period'[t][l].status = "cancelled"
                                   ELSE period'[t][l] = period[t][l]
<1>0. period[s][m] \in Period
  BY DEF TypeOK
<1>1. period[s][m].invoice \in Invoices
  BY <1>0 DEF VoidSubscriptionInvoice, Period
<1>2. \A k \in Invoices :
         /\ invoice'[k].status = IF k = period[s][m].invoice THEN "void" ELSE invoice[k].status
         /\ invoice'[k].credit = invoice[k].credit
  BY <1>1 DEF VoidSubscriptionInvoice, TypeOK, Invoice
<1>3. period' = [period EXCEPT ![s][m] = [period[s][m] EXCEPT !.status = "cancelled"]]
  BY DEF VoidSubscriptionInvoice, TypeOK
<1>4. \A t \in Subs, l \in Starts :
         period'[t][l] = IF t = s /\ l = m THEN [period[s][m] EXCEPT !.status = "cancelled"]
                                           ELSE period[t][l]
  BY <1>3 DEF TypeOK
<1>5. LET z == [period[s][m] EXCEPT !.status = "cancelled"] IN
      z.invoice = period[s][m].invoice /\ z.status = "cancelled"
  BY <1>0 DEF Period
<1>6. period[s][m].status = "invoiced" /\ ~invoice[period[s][m].invoice].credit
  BY DEF VoidSubscriptionInvoice, Untouched
<1> QED BY <1>1, <1>2, <1>4, <1>5, <1>6

LEMMA ReissueDoes ==
    ASSUME TypeOK, Named, NEW q \in Requests, NEW j \in Invoices, WriteReissue(q, j)
    PROVE  /\ req[q].invoice \in Invoices
           /\ req[q].op = "reissue"
           /\ invoice[j].status = "absent"
           /\ paidThrough' = paidThrough
           /\ \A k \in Invoices :
                 /\ invoice'[k].status = IF k = j THEN "draft"
                                         ELSE IF k = req[q].invoice THEN "superseded"
                                         ELSE invoice[k].status
                 /\ invoice'[k].credit = (k # j /\ invoice[k].credit)
           /\ \A s \in Subs, m \in Starts :
                 IF period[s][m].invoice = req[q].invoice
                 THEN period'[s][m].invoice = j /\ period'[s][m].status = "invoiced"
                 ELSE period'[s][m] = period[s][m]
<1>1. req[q].invoice \in Invoices
  BY DEF WriteReissue, Named, NamesIts
<1>2. \A k \in Invoices :
         /\ invoice'[k].status = IF k = j THEN "draft"
                                 ELSE IF k = req[q].invoice THEN "superseded"
                                 ELSE invoice[k].status
         /\ invoice'[k].credit = (k # j /\ invoice[k].credit)
  BY <1>1 DEF WriteReissue, TypeOK, Invoice, NoInvoice
<1>3. \A s \in Subs, m \in Starts :
         period'[s][m] = IF period[s][m].invoice = req[q].invoice THEN Moved(period[s][m], j)
                                                                  ELSE period[s][m]
  BY DEF WriteReissue
<1>4. \A p \in Period : Moved(p, j).invoice = j /\ Moved(p, j).status = "invoiced"
  BY DEF Moved, Period
<1>5. \A s \in Subs, m \in Starts : period[s][m] \in Period
  BY DEF TypeOK
<1>6. req[q].op = "reissue" /\ invoice[j].status = "absent" /\ paidThrough' = paidThrough
  BY DEF WriteReissue
<1> QED BY <1>1, <1>2, <1>3, <1>4, <1>5, <1>6

LEMMA EditDoes ==
    ASSUME TypeOK, Named, NEW q \in Requests, NEW n \in Lengths \cup {0},
           NEW st \in {"draft", "issued"}, WriteDraftEdit(q, n, st)
    PROVE  /\ req[q].invoice \in Invoices
           /\ req[q].op = "edit"
           /\ paidThrough' = paidThrough
           /\ \A k \in Invoices :
                 /\ invoice'[k].status = IF k = req[q].invoice THEN st ELSE invoice[k].status
                 /\ invoice'[k].credit = invoice[k].credit
           /\ \A s \in Subs, m \in Starts :
                 /\ period'[s][m].invoice = period[s][m].invoice
                 /\ period'[s][m].status = period[s][m].status
                 /\ period[s][m].invoice # req[q].invoice => period'[s][m] = period[s][m]
<1>1. req[q].invoice \in Invoices
  BY DEF WriteDraftEdit, Named, NamesIts
<1>2. \A k \in Invoices :
         /\ invoice'[k].status = IF k = req[q].invoice THEN st ELSE invoice[k].status
         /\ invoice'[k].credit = invoice[k].credit
  BY <1>1 DEF WriteDraftEdit, TypeOK, Invoice
<1>3. \A s \in Subs, m \in Starts : period[s][m] \in Period
  BY DEF TypeOK
<1>4. \A s \in Subs, m \in Starts :
         /\ period'[s][m].invoice = period[s][m].invoice
         /\ period'[s][m].status = period[s][m].status
         /\ period[s][m].invoice # req[q].invoice => period'[s][m] = period[s][m]
  BY <1>3 DEF WriteDraftEdit, Period
<1> QED BY <1>1, <1>2, <1>4 DEF WriteDraftEdit

-----------------------------------------------------------------------------
(* Links are kept.                                                          *)

LinkInv == TypeOK /\ Named /\ LinksAreSound

\* A step that moves no link and ends no linked invoice keeps the links sound.
LEMMA LinksStay ==
    ASSUME LinkInv,
           \A s \in Subs, m \in Starts : period'[s][m].invoice = period[s][m].invoice,
           \A s \in Subs, m \in Starts : LET k == period[s][m].invoice IN k # None =>
               \/ invoice'[k].status \notin {"absent", "superseded", "void"}
               \/ /\ invoice'[k].status = invoice[k].status
                  /\ period'[s][m].status = period[s][m].status
               \/ invoice'[k].status = "void" /\ period'[s][m].status = "cancelled"
    PROVE  LinksAreSound'
  BY DEF LinkInv, LinksAreSound

LEMMA LinkStep == LinkInv /\ [Next]_vars => LinksAreSound'
<1> SUFFICES ASSUME LinkInv, [Next]_vars PROVE LinksAreSound'
  OBVIOUS
<1> USE DEF LinkInv
<1>0. \A s \in Subs, m \in Starts : period[s][m].invoice \in Invoices \cup {None}
  BY DEF TypeOK, Period
<1>1. ASSUME NEW q \in Requests, NEW m \in Starts, NEW n \in Lengths,
             NEW i \in Invoices \cup {None}, WriteRenew(q, m, n, i) PROVE LinksAreSound'
  <2> DEFINE s == req[q].sub
  <2>2. \A t \in Subs, l \in Starts :
           IF t = s /\ l = m
           THEN period'[t][l].invoice = i /\ period'[t][l].status # "cancelled"
           ELSE period'[t][l] = period[t][l]
    BY <1>1, RenewDoes
  <2>3. \A k \in Invoices : IF k = i THEN invoice[k].status = "absent" /\ invoice'[k].status = "issued"
                                     ELSE invoice'[k] = invoice[k]
    BY <1>1, RenewDoes
  <2>4. \A t \in Subs, l \in Starts : period[t][l].invoice # None => period[t][l].invoice # i
    BY <1>0, <2>3 DEF LinksAreSound
  <2> SUFFICES ASSUME NEW t \in Subs, NEW l \in Starts, period'[t][l].invoice # None
               PROVE  LET p == period'[t][l] IN
                      /\ invoice'[p.invoice].status \notin {"absent", "superseded"}
                      /\ invoice'[p.invoice].status = "void" => p.status = "cancelled"
                      /\ \A u \in Subs, k \in Starts :
                            period'[u][k].invoice = p.invoice => u = t /\ k = l
    BY DEF LinksAreSound
  <2> HIDE DEF s
  <2>6. CASE t = s /\ l = m
    BY <1>0, <2>2, <2>3, <2>4, <2>6, NullKey
  <2>7. CASE ~(t = s /\ l = m)
    BY <1>0, <2>2, <2>3, <2>4, <2>7 DEF LinksAreSound
  <2> QED BY <2>6, <2>7
<1>2. ASSUME NEW i \in Invoices, PayInPart(i) PROVE LinksAreSound'
  <2>1. \A s \in Subs, m \in Starts :
           /\ period'[s][m].invoice = period[s][m].invoice
           /\ period'[s][m].status = period[s][m].status
    BY <1>2, PartDoes
  <2>2. \A k \in Invoices : invoice'[k].status = IF k = i THEN "partially_paid" ELSE invoice[k].status
    BY <1>2, PartDoes
  <2> QED BY <1>0, <2>1, <2>2, LinksStay
<1>3. ASSUME NEW i \in Invoices, PayInFull(i) PROVE LinksAreSound'
  <2>1. \A k \in Invoices : invoice'[k].status = IF k = i THEN "paid" ELSE invoice[k].status
    BY <1>3, FullDoes
  <2>2. \A s \in Subs, m \in Starts :
           /\ period'[s][m].invoice = period[s][m].invoice
           /\ period[s][m].invoice # i => period'[s][m].status = period[s][m].status
    <3>1. period' = SettledPeriods(i, TRUE)
      BY <1>3, FullDoes
    <3> QED BY <3>1, SettledIs, ZenonT(60)
  <2> QED BY <1>0, <2>1, <2>2, LinksStay
<1>4. ASSUME NEW q \in Requests, WriteCredit(q) PROVE LinksAreSound'
  <2> DEFINE i == req[q].invoice
  <2>1. \A k \in Invoices : IF k = i THEN invoice'[k].status \in {"paid", "partially_paid", "issued"}
                                     ELSE invoice'[k].status = invoice[k].status
    BY <1>4, CreditDoes
  <2>2. \A s \in Subs, m \in Starts :
           /\ period'[s][m].invoice = period[s][m].invoice
           /\ period[s][m].invoice # i => period'[s][m].status = period[s][m].status
    <3>1. /\ i \in Invoices /\ req[q].settles \in BOOLEAN
          /\ period' = SettledPeriods(i, req[q].settles)
      BY <1>4, CreditDoes
    <3>2. PICK b \in BOOLEAN : b = req[q].settles /\ period' = SettledPeriods(i, b)
      BY <3>1
    <3> HIDE DEF i
    <3> QED BY <3>1, <3>2, SettledIs
  <2> HIDE DEF i
  <2> QED BY <1>0, <2>1, <2>2, LinksStay
<1>5. ASSUME NEW s \in Subs, NEW m \in Starts, VoidSubscriptionInvoice(s, m) PROVE LinksAreSound'
  <2> DEFINE i == period[s][m].invoice
  <2>1. i \in Invoices /\ \A k \in Invoices :
           invoice'[k].status = IF k = i THEN "void" ELSE invoice[k].status
    BY <1>5, VoidDoes
  <2>2. \A t \in Subs, l \in Starts :
           /\ period'[t][l].invoice = period[t][l].invoice
           /\ period'[t][l].status = IF t = s /\ l = m THEN "cancelled" ELSE period[t][l].status
    BY <1>5, VoidDoes
  <2>3. \A t \in Subs, l \in Starts : period[t][l].invoice = i <=> t = s /\ l = m
    BY <2>1, NullKey DEF LinksAreSound
  <2> HIDE DEF i
  <2> QED BY <1>0, <2>1, <2>2, <2>3, LinksStay
<1>6. ASSUME NEW q \in Requests, NEW j \in Invoices, WriteReissue(q, j) PROVE LinksAreSound'
  <2> DEFINE i == req[q].invoice
  <2>1. i \in Invoices /\ invoice[j].status = "absent"
    BY <1>6, ReissueDoes
  <2>2. \A k \in Invoices : invoice'[k].status = IF k = j THEN "draft"
                                                ELSE IF k = i THEN "superseded" ELSE invoice[k].status
    BY <1>6, ReissueDoes
  <2>3. \A s \in Subs, m \in Starts :
           IF period[s][m].invoice = i THEN period'[s][m].invoice = j
                                       ELSE period'[s][m] = period[s][m]
    BY <1>6, ReissueDoes
  <2>5. \A s \in Subs, m \in Starts : period[s][m].invoice # j
    BY <2>1, NullKey DEF LinksAreSound
  <2> HIDE DEF i
  <2> SUFFICES ASSUME NEW t \in Subs, NEW l \in Starts, period'[t][l].invoice # None
               PROVE  LET p == period'[t][l] IN
                      /\ invoice'[p.invoice].status \notin {"absent", "superseded"}
                      /\ invoice'[p.invoice].status = "void" => p.status = "cancelled"
                      /\ \A u \in Subs, k \in Starts :
                            period'[u][k].invoice = p.invoice => u = t /\ k = l
    BY DEF LinksAreSound
  <2>6. CASE period[t][l].invoice = i
    <3>1. period'[t][l].invoice = j
      BY <1>0, <2>3, <2>6
    <3>2. invoice'[j].status = "draft"
      BY <2>2
    <3>3. ASSUME NEW u \in Subs, NEW k \in Starts, period'[u][k].invoice = j
          PROVE  u = t /\ k = l
      <4>1. period[u][k].invoice = i
        BY <2>3, <2>5, <3>3
      <4> QED BY <2>1, <2>6, <4>1, NullKey DEF LinksAreSound
    <3> QED BY <3>1, <3>2, <3>3
  <2>7. CASE period[t][l].invoice # i
    <3>1. period'[t][l] = period[t][l] /\ period[t][l].invoice \in Invoices \ {i, j}
      BY <1>0, <2>3, <2>5, <2>7
    <3>2. invoice'[period[t][l].invoice].status = invoice[period[t][l].invoice].status
      BY <2>2, <3>1
    <3>3. ASSUME NEW u \in Subs, NEW k \in Starts, period'[u][k].invoice = period[t][l].invoice
          PROVE  u = t /\ k = l
      <4>1. period[u][k].invoice = period[t][l].invoice
        BY <1>0, <2>3, <3>1, <3>3
      <4> QED BY <3>1, <4>1, NullKey DEF LinksAreSound
    <3> QED BY <3>1, <3>2, <3>3, NullKey DEF LinksAreSound
  <2> QED BY <2>6, <2>7
<1>7. ASSUME NEW q \in Requests, NEW n \in Lengths \cup {0}, NEW st \in {"draft", "issued"},
             WriteDraftEdit(q, n, st) PROVE LinksAreSound'
  <2> DEFINE i == req[q].invoice
  <2>1. \A k \in Invoices : invoice'[k].status = IF k = i THEN st ELSE invoice[k].status
    BY <1>7, EditDoes
  <2>2. \A s \in Subs, m \in Starts :
           /\ period'[s][m].invoice = period[s][m].invoice
           /\ period'[s][m].status = period[s][m].status
    BY <1>7, EditDoes
  <2> HIDE DEF i
  <2> QED BY <1>0, <2>1, <2>2, LinksStay
<1>8. CASE \/ UNCHANGED vars
           \/ \E s \in Subs : ChangePackage(s)
           \/ \E q \in Requests, s \in Subs : ReadRenew(q, s) \/ CheckCancel(q, s)
           \/ \E q \in Requests, i \in Invoices : CheckReissue(q, i) \/ CheckDraftEdit(q, i)
           \/ \E q \in Requests, i \in Invoices, op \in {"credit", "uncredit"}, b \in BOOLEAN :
                 ReadCredit(q, i, op, b)
           \/ \E q \in Requests : WriteCancel(q) \/ AbandonRequest(q)
  <2>1. period' = period /\ invoice' = invoice
    BY <1>8 DEF vars, ChangePackage, ReadRenew, CheckCancel, CheckReissue, CheckDraftEdit, ReadCredit,
                WriteCancel, AbandonRequest
  <2> QED BY <2>1 DEF LinksAreSound
<1> QED BY <1>1, <1>2, <1>3, <1>4, <1>5, <1>6, <1>7, <1>8 DEF Next, PlainStep

\* An invoice bills one period at most, the period of a void invoice is
\* cancelled and no period points to a superseded one, however renewals, draft
\* edits, reissues, payments and credit notes of several requests interleave:
\* the links that void_subscription_invoice and reissue_invoice keep.
THEOREM LinksHold == Spec => []LinksAreSound
<1>1. Init => LinkInv
  <2>1. Init => TypeOK /\ Named
    BY Constants, ZeroIsEnd DEF Init, TypeOK, Named, NamesIts, Idle
  <2>2. Init => LinksAreSound
    BY DEF Init, LinksAreSound, NoPeriod
  <2> QED BY <2>1, <2>2 DEF LinkInv
<1>2. LinkInv /\ [Next]_vars => LinkInv'
  BY TypeStep, NamedStep, LinkStep DEF LinkInv
<1>3. LinkInv => LinksAreSound
  BY DEF LinkInv
<1> QED BY <1>1, <1>2, <1>3, PTL DEF Spec

-----------------------------------------------------------------------------
(* Requests that do not overlap.                                            *)

\* One request at most is between its read and its write.
Exclusive == \A q, r \in Requests : req[q] # Idle /\ req[r] # Idle => q = r

\* What it has read is still so: nothing else ran since.
Fresh(r) ==
    /\ r.op = "edit" => invoice[r.invoice].status = "draft"
    /\ r.op = "reissue" => Untouched(r.invoice)
    /\ r.op = "credit" => invoice[r.invoice].status \in {"issued", "partially_paid"}
    /\ r.op = "uncredit" => /\ ~r.settles
                            /\ invoice[r.invoice].credit
                            /\ invoice[r.invoice].status \in {"issued", "partially_paid", "paid"}
    /\ r.op \in {"credit", "uncredit"} =>
          r.through = [s \in Subs |-> LastPaid(SettledPeriods(r.invoice, r.settles)[s])]

HeldIsFresh == \A q \in Requests : Fresh(req[q])

\* A credit note stands on an invoice that is open or settled.
CreditedIsLive ==
    \A i \in Invoices : invoice[i].credit =>
        invoice[i].status \in {"issued", "partially_paid", "paid"}

SerialInv ==
    /\ LinkInv
    /\ Exclusive
    /\ HeldIsFresh
    /\ CreditedIsLive
    /\ CoverageIsTraceable
    /\ PaidThroughIsLastPaid

\* The bookkeeping of reads and writes when nothing runs in between.
LEMMA SerialStep ==
    ASSUME Overlap = FALSE, TypeOK, Exclusive, [Next]_vars
    PROVE  \/ req' = req /\ period' = period /\ invoice' = invoice
           \/ \A k \in Requests : req'[k] = Idle
           \/ /\ \A k \in Requests : req[k] = Idle
              /\ period' = period /\ invoice' = invoice
              /\ \/ \E q \in Requests, s \in Subs : ReadRenew(q, s) \/ CheckCancel(q, s)
                 \/ \E q \in Requests, i \in Invoices : CheckReissue(q, i) \/ CheckDraftEdit(q, i)
                 \/ \E q \in Requests, i \in Invoices, op \in {"credit", "uncredit"}, b \in BOOLEAN :
                       ReadCredit(q, i, op, b)
<1>1. ASSUME NEW q \in Requests, req[q] # Idle, req' = [req EXCEPT ![q] = Idle]
      PROVE  \A k \in Requests : req'[k] = Idle
  BY <1>1 DEF Exclusive, TypeOK
<1>2. Idle.op = "idle"
  BY DEF Idle
<1>3. CASE \/ \E q \in Requests, m \in Starts, n \in Lengths, i \in Invoices \cup {None} :
                 WriteRenew(q, m, n, i)
           \/ \E q \in Requests, j \in Invoices : WriteReissue(q, j)
           \/ \E q \in Requests, n \in Lengths \cup {0}, st \in {"draft", "issued"} :
                 WriteDraftEdit(q, n, st)
           \/ \E q \in Requests : WriteCredit(q) \/ WriteCancel(q) \/ AbandonRequest(q)
  <2>1. \E q \in Requests : req[q] # Idle /\ req' = [req EXCEPT ![q] = Idle]
    BY <1>2, <1>3 DEF WriteRenew, WriteReissue, WriteDraftEdit, WriteCredit, WriteCancel,
                      AbandonRequest
  <2> QED BY <1>1, <2>1
<1>4. CASE \/ \E i \in Invoices : PayInPart(i) \/ PayInFull(i)
           \/ \E s \in Subs, m \in Starts : VoidSubscriptionInvoice(s, m)
  BY <1>4 DEF PayInPart, PayInFull, VoidSubscriptionInvoice, Quiet
<1>5. CASE \/ UNCHANGED vars
           \/ \E s \in Subs : ChangePackage(s)
  BY <1>5 DEF vars, ChangePackage
<1>6. CASE \/ \E q \in Requests, s \in Subs : ReadRenew(q, s) \/ CheckCancel(q, s)
           \/ \E q \in Requests, i \in Invoices : CheckReissue(q, i) \/ CheckDraftEdit(q, i)
           \/ \E q \in Requests, i \in Invoices, op \in {"credit", "uncredit"}, b \in BOOLEAN :
                 ReadCredit(q, i, op, b)
  <2>1. (\A k \in Requests : req[k] = Idle) /\ period' = period /\ invoice' = invoice
    BY <1>6 DEF ReadRenew, CheckCancel, CheckReissue, CheckDraftEdit, ReadCredit, Quiet
  <2> QED BY <1>6, <2>1
<1> QED BY <1>3, <1>4, <1>5, <1>6 DEF Next, PlainStep

\* What a read finds is fresh.
LEMMA ReadIsFresh ==
    ASSUME TypeOK, CreditedIsLive,
           \/ \E q \in Requests, s \in Subs : ReadRenew(q, s) \/ CheckCancel(q, s)
           \/ \E q \in Requests, i \in Invoices : CheckReissue(q, i) \/ CheckDraftEdit(q, i)
           \/ \E q \in Requests, i \in Invoices, op \in {"credit", "uncredit"}, b \in BOOLEAN :
                 ReadCredit(q, i, op, b)
    PROVE  \E q \in Requests, r \in Request : Fresh(r) /\ req' = [req EXCEPT ![q] = r]
<1>1. ASSUME NEW q \in Requests, NEW s \in Subs, ReadRenew(q, s) \/ CheckCancel(q, s)
      PROVE  \E r \in Request : Fresh(r) /\ req' = [req EXCEPT ![q] = r]
  <2>1. \A op \in {"renew", "cancel"} : LET r == [Idle EXCEPT !.op = op, !.sub = s] IN
           r \in Request /\ Fresh(r)
    BY ZeroIsEnd DEF Idle, Request, Fresh
  <2>2. CASE ReadRenew(q, s)
    BY <2>1, <2>2 DEF ReadRenew
  <2>3. CASE CheckCancel(q, s)
    BY <2>1, <2>3 DEF CheckCancel
  <2> QED BY <1>1, <2>2, <2>3
<1>2. ASSUME NEW q \in Requests, NEW i \in Invoices, CheckReissue(q, i) \/ CheckDraftEdit(q, i)
      PROVE  \E r \in Request : Fresh(r) /\ req' = [req EXCEPT ![q] = r]
  <2>1. \A op \in {"reissue", "edit"} : LET r == [Idle EXCEPT !.op = op, !.invoice = i] IN
           r \in Request /\ r.op = op /\ r.invoice = i
    BY ZeroIsEnd DEF Idle, Request
  <2>2. CASE CheckReissue(q, i)
    <3> DEFINE r == [Idle EXCEPT !.op = "reissue", !.invoice = i]
    <3>1. r \in Request /\ r.op = "reissue" /\ r.invoice = i
      BY <2>1
    <3>2. Untouched(i) /\ req' = [req EXCEPT ![q] = r]
      BY <2>2 DEF CheckReissue, Reissuable
    <3> HIDE DEF r
    <3>3. Fresh(r)
      BY <3>1, <3>2 DEF Fresh
    <3> QED BY <3>1, <3>2, <3>3
  <2>3. CASE CheckDraftEdit(q, i)
    <3> DEFINE r == [Idle EXCEPT !.op = "edit", !.invoice = i]
    <3>1. r \in Request /\ r.op = "edit" /\ r.invoice = i
      BY <2>1
    <3>2. invoice[i].status = "draft" /\ req' = [req EXCEPT ![q] = r]
      BY <2>3 DEF CheckDraftEdit
    <3> HIDE DEF r
    <3>3. Fresh(r)
      BY <3>1, <3>2 DEF Fresh
    <3> QED BY <3>1, <3>2, <3>3
  <2> QED BY <1>2, <2>2, <2>3
<1>3. ASSUME NEW q \in Requests, NEW i \in Invoices, NEW op \in {"credit", "uncredit"},
             NEW b \in BOOLEAN, ReadCredit(q, i, op, b)
      PROVE  \E r \in Request : Fresh(r) /\ req' = [req EXCEPT ![q] = r]
  <2> DEFINE f == [s \in Subs |-> LastPaid(SettledPeriods(i, b)[s])]
             r == [op |-> op, sub |-> None, invoice |-> i, settles |-> b, through |-> f]
  <2>1. f \in [Subs -> Ends]
    BY SettledIs, LastPaidIs
  <2>2. f = [s \in Subs |-> LastPaid(SettledPeriods(i, b)[s])]
    OBVIOUS
  <2>3. req' = [req EXCEPT ![q] = r]
    BY <1>3 DEF ReadCredit
  <2> HIDE DEF f
  <2>4. r \in Request
    BY <2>1 DEF Request
  <2>5. op = "credit" => invoice[i].status \in {"issued", "partially_paid"}
    BY <1>3 DEF ReadCredit, Payable
  <2>6. op = "uncredit" => /\ ~b /\ invoice[i].credit
                           /\ invoice[i].status \in {"issued", "partially_paid", "paid"}
    BY <1>3 DEF ReadCredit, CreditedIsLive
  <2>7. Fresh(r)
    BY <2>2, <2>5, <2>6 DEF Fresh
  <2> QED BY <2>3, <2>4, <2>7
<1> QED BY <1>1, <1>2, <1>3

\* Exclusive requests and fresh reads are kept.
LEMMA FreshStep ==
    ASSUME Overlap = FALSE, SerialInv, [Next]_vars
    PROVE  Exclusive' /\ HeldIsFresh'
<1>1. TypeOK /\ Exclusive /\ HeldIsFresh /\ CreditedIsLive
  BY DEF SerialInv, LinkInv
<1>2. ASSUME period' = period, invoice' = invoice, NEW r, Fresh(r) PROVE Fresh(r)'
  BY <1>2 DEF Fresh, Untouched, SettledPeriods
<1>3. CASE req' = req /\ period' = period /\ invoice' = invoice
  <2>1. Exclusive'
    BY <1>1, <1>3 DEF Exclusive
  <2>2. HeldIsFresh'
    BY <1>1, <1>2, <1>3 DEF HeldIsFresh
  <2> QED BY <2>1, <2>2
<1>4. CASE \A k \in Requests : req'[k] = Idle
  <2>1. Idle.op = "idle"
    BY DEF Idle
  <2> QED BY <1>4, <2>1 DEF Exclusive, HeldIsFresh, Fresh
<1>5. CASE /\ \A k \in Requests : req[k] = Idle
           /\ period' = period /\ invoice' = invoice
           /\ \E q \in Requests, r \in Request : Fresh(r) /\ req' = [req EXCEPT ![q] = r]
  <2>1. PICK q \in Requests, r \in Request : Fresh(r) /\ req' = [req EXCEPT ![q] = r]
    BY <1>5
  <2>2. \A k \in Requests : req'[k] = IF k = q THEN r ELSE Idle
    BY <1>1, <1>5, <2>1 DEF TypeOK
  <2>3. Exclusive'
    BY <2>2 DEF Exclusive
  <2>4. Fresh(r)'
    BY <1>2, <1>5, <2>1
  <2>5. ASSUME NEW k \in Requests PROVE Fresh(req[k])'
    <3>1. CASE k = q
      <4>1. req'[k] = r
        BY <2>2, <3>1
      <4> QED BY <2>4, <4>1 DEF Fresh
    <3>2. CASE k # q
      <4>1. req'[k].op = "idle"
        BY <2>2, <3>2 DEF Idle
      <4> QED BY <4>1 DEF Fresh
    <3> QED BY <3>1, <3>2
  <2> QED BY <2>3, <2>5 DEF HeldIsFresh
<1> QED BY <1>1, <1>3, <1>4, <1>5, SerialStep, ReadIsFresh

-----------------------------------------------------------------------------
(* Coverage stays traceable, paid coverage stays, and so does what is stored *)
(* as paid through.                                                         *)

\* The two halves of CoverageIsTraceable.
InvoicesBill ==
    \A i \in Invoices : invoice[i].status \in {"draft", "issued", "partially_paid", "paid"} =>
        \E s \in Subs, m \in Starts : period[s][m].invoice = i

Agrees(p) ==
    /\ p.status \in {"absent", "pending"} <=> p.invoice = None
    /\ p.status = "paid" => invoice[p.invoice].status = "paid"
    /\ p.status = "cancelled" => invoice[p.invoice].status = "void"
    /\ p.status = "invoiced" => invoice[p.invoice].status \in {"draft", "issued", "partially_paid"}

PeriodsAgree == \A s \in Subs, m \in Starts : Agrees(period[s][m])

LEMMA TraceHalves == CoverageIsTraceable <=> InvoicesBill /\ PeriodsAgree
  BY DEF CoverageIsTraceable, InvoicesBill, PeriodsAgree, Agrees

Traced == CreditedIsLive /\ InvoicesBill /\ PeriodsAgree

\* A period that a step leaves alone, of an invoice whose status it leaves.
LEMMA AgreesStill ==
    ASSUME NEW s \in Subs, NEW m \in Starts, Agrees(period[s][m]),
           period'[s][m].invoice = period[s][m].invoice,
           period'[s][m].status = period[s][m].status,
           invoice'[period[s][m].invoice].status = invoice[period[s][m].invoice].status
           \/ period[s][m].invoice = None
    PROVE  Agrees(period[s][m])'
  BY DEF Agrees

LEMMA PeriodTyped == TypeOK => \A s \in Subs, m \in Starts :
    /\ period[s][m].invoice \in Invoices \cup {None}
    /\ period[s][m].status \in {"absent", "pending", "invoiced", "paid", "cancelled"}
  BY DEF TypeOK, Period

LEMMA TraceStep ==
    ASSUME SerialInv, [Next]_vars
    PROVE  Traced'
<1>0. /\ TypeOK /\ Named /\ LinksAreSound /\ HeldIsFresh
      /\ CreditedIsLive /\ InvoicesBill /\ PeriodsAgree
  BY TraceHalves DEF SerialInv, LinkInv
<1>a. \A s \in Subs, m \in Starts :
         /\ period[s][m].invoice \in Invoices \cup {None}
         /\ period[s][m].status \in {"absent", "pending", "invoiced", "paid", "cancelled"}
         /\ Agrees(period[s][m])
  BY <1>0, PeriodTyped DEF PeriodsAgree
<1>1. ASSUME NEW q \in Requests, NEW m \in Starts, NEW n \in Lengths,
             NEW i \in Invoices \cup {None}, WriteRenew(q, m, n, i) PROVE Traced'
  <2> DEFINE s == req[q].sub
  <2>1. s \in Subs /\ Billable(s, m, EndOf(m, n))
    BY <1>0, <1>1, RenewDoes
  <2>2. \A t \in Subs, l \in Starts :
           IF t = s /\ l = m THEN /\ period'[t][l].invoice = i
                                  /\ period'[t][l].status = IF i = None THEN "pending" ELSE "invoiced"
                             ELSE period'[t][l] = period[t][l]
    BY <1>0, <1>1, RenewDoes
  <2>3. \A k \in Invoices :
           IF k = i THEN /\ invoice[k].status = "absent"
                         /\ invoice'[k].status = "issued" /\ ~invoice'[k].credit
                    ELSE invoice'[k] = invoice[k]
    BY <1>0, <1>1, RenewDoes
  <2>4. period[s][m].invoice # None => invoice[period[s][m].invoice].status = "void"
    BY <1>a, <2>1, NullKey, ZenonT(60) DEF Billable, Agrees, NoInvoice
  <2> HIDE DEF s
  <2>5. CreditedIsLive'
    BY <1>0, <2>3 DEF CreditedIsLive
  <2>6. InvoicesBill'
    <3> SUFFICES ASSUME NEW k \in Invoices,
                        invoice'[k].status \in {"draft", "issued", "partially_paid", "paid"}
                 PROVE  \E t \in Subs, l \in Starts : period'[t][l].invoice = k
      BY DEF InvoicesBill
    <3>1. CASE k = i
      BY <2>1, <2>2, <3>1
    <3>2. CASE k # i
      <4>1. PICK t \in Subs, l \in Starts : period[t][l].invoice = k
        BY <1>0, <2>3, <3>2 DEF InvoicesBill
      <4>2. ~(t = s /\ l = m)
        BY <2>3, <2>4, <3>2, <4>1, NullKey
      <4> QED BY <2>2, <4>1, <4>2
    <3> QED BY <3>1, <3>2
  <2>7. PeriodsAgree'
    <3> SUFFICES ASSUME NEW t \in Subs, NEW l \in Starts PROVE Agrees(period[t][l])'
      BY DEF PeriodsAgree
    <3>1. CASE t = s /\ l = m
      BY <2>2, <2>3, <3>1, NullKey DEF Agrees
    <3>2. CASE ~(t = s /\ l = m)
      <4>1. period'[t][l] = period[t][l]
        BY <2>2, <3>2
      <4>2. period[t][l].invoice # None =>
               invoice'[period[t][l].invoice] = invoice[period[t][l].invoice]
        BY <1>0, <1>a, <2>3 DEF LinksAreSound
      <4> QED BY <1>a, <4>1, <4>2, AgreesStill
    <3> QED BY <3>1, <3>2
  <2> QED BY <2>5, <2>6, <2>7 DEF Traced
<1>2. ASSUME NEW i \in Invoices, PayInPart(i) PROVE Traced'
  <2>1. /\ period' = period /\ invoice[i].status \in {"issued", "partially_paid"}
        /\ \A k \in Invoices :
              /\ invoice'[k].status = IF k = i THEN "partially_paid" ELSE invoice[k].status
              /\ invoice'[k].credit = invoice[k].credit
    BY <1>0, <1>2, PartDoes
  <2>2. CreditedIsLive'
    BY <1>0, <2>1 DEF CreditedIsLive
  <2>3. InvoicesBill'
    BY <1>0, <2>1 DEF InvoicesBill
  <2>4. PeriodsAgree'
    <3> SUFFICES ASSUME NEW t \in Subs, NEW l \in Starts PROVE Agrees(period[t][l])'
      BY DEF PeriodsAgree
    <3> QED BY <1>a, <2>1 DEF Agrees
  <2> QED BY <2>2, <2>3, <2>4 DEF Traced
<1>3. ASSUME NEW i \in Invoices, PayInFull(i) PROVE Traced'
  <2>1. /\ period' = SettledPeriods(i, TRUE) /\ invoice[i].status \in {"issued", "partially_paid"}
        /\ \A k \in Invoices :
              /\ invoice'[k].status = IF k = i THEN "paid" ELSE invoice[k].status
              /\ invoice'[k].credit = invoice[k].credit
    BY <1>0, <1>3, FullDoes
  <2>2. \A t \in Subs, l \in Starts :
           /\ period'[t][l].invoice = period[t][l].invoice
           /\ period'[t][l].status = IF period[t][l].invoice = i THEN "paid" ELSE period[t][l].status
    BY <1>0, <2>1, PaidIs, ZenonT(60)
  <2>3. CreditedIsLive'
    BY <1>0, <2>1 DEF CreditedIsLive
  <2>4. InvoicesBill'
    <3> SUFFICES ASSUME NEW k \in Invoices,
                        invoice'[k].status \in {"draft", "issued", "partially_paid", "paid"}
                 PROVE  \E t \in Subs, l \in Starts : period'[t][l].invoice = k
      BY DEF InvoicesBill
    <3>1. PICK t \in Subs, l \in Starts : period[t][l].invoice = k
      BY <1>0, <2>1 DEF InvoicesBill
    <3> QED BY <2>2, <3>1
  <2>5. PeriodsAgree'
    <3> SUFFICES ASSUME NEW t \in Subs, NEW l \in Starts PROVE Agrees(period[t][l])'
      BY DEF PeriodsAgree
    <3>1. CASE period[t][l].invoice = i
      BY <2>1, <2>2, <3>1, NullKey, ZenonT(60) DEF Agrees
    <3>2. CASE period[t][l].invoice # i
      BY <1>a, <2>1, <2>2, <3>2, AgreesStill
    <3> QED BY <3>1, <3>2
  <2> QED BY <2>3, <2>4, <2>5 DEF Traced
<1>4. ASSUME NEW q \in Requests, WriteCredit(q) PROVE Traced'
  <2> DEFINE i == req[q].invoice
             b == req[q].settles
  <2>1. /\ i \in Invoices /\ b \in BOOLEAN
        /\ period' = SettledPeriods(i, b)
        /\ \A k \in Invoices :
              IF k = i THEN IF b THEN invoice'[k].status = "paid"
                            ELSE invoice'[k].status \in {"partially_paid", "issued"}
              ELSE invoice'[k] = invoice[k]
    BY <1>0, <1>4, CreditDoes
  <2>2. invoice[i].status \in {"issued", "partially_paid", "paid"}
    BY <1>0, <1>4 DEF WriteCredit, HeldIsFresh, Fresh
  <2> HIDE DEF i, b
  <2>3. \A t \in Subs, l \in Starts :
           /\ period'[t][l].invoice = period[t][l].invoice
           /\ period'[t][l].status = IF period[t][l].invoice = i /\ b THEN "paid"
                                     ELSE IF period[t][l].invoice = i /\ period[t][l].status = "paid"
                                          THEN "invoiced" ELSE period[t][l].status
    BY <1>0, <2>1, SettledIs
  <2>4. CreditedIsLive'
    BY <1>0, <2>1 DEF CreditedIsLive
  <2>5. InvoicesBill'
    BY <1>0, <2>1, <2>2, <2>3 DEF InvoicesBill
  <2>6. PeriodsAgree'
    <3> SUFFICES ASSUME NEW t \in Subs, NEW l \in Starts PROVE Agrees(period[t][l])'
      BY DEF PeriodsAgree
    <3>1. CASE period[t][l].invoice = i
      <4>1. period[t][l].status \in {"paid", "invoiced"}
        BY <1>a, <2>1, <2>2, <3>1, NullKey DEF Agrees
      <4>2. period'[t][l].invoice = i /\ period'[t][l].status = IF b THEN "paid" ELSE "invoiced"
        BY <2>3, <3>1, <4>1
      <4> QED BY <2>1, <4>2, NullKey DEF Agrees
    <3>2. CASE period[t][l].invoice # i
      BY <1>a, <2>1, <2>3, <3>2, AgreesStill
    <3> QED BY <3>1, <3>2
  <2> QED BY <2>4, <2>5, <2>6 DEF Traced
<1>5. ASSUME NEW s \in Subs, NEW m \in Starts, VoidSubscriptionInvoice(s, m) PROVE Traced'
  <2> DEFINE i == period[s][m].invoice
  <2>1. /\ i \in Invoices /\ ~invoice[i].credit
        /\ \A k \in Invoices :
              /\ invoice'[k].status = IF k = i THEN "void" ELSE invoice[k].status
              /\ invoice'[k].credit = invoice[k].credit
    BY <1>0, <1>5, VoidDoes
  <2>2. \A t \in Subs, l \in Starts :
           IF t = s /\ l = m THEN /\ period'[t][l].invoice = period[t][l].invoice
                                  /\ period'[t][l].status = "cancelled"
                             ELSE period'[t][l] = period[t][l]
    BY <1>0, <1>5, VoidDoes
  <2>3. \A t \in Subs, l \in Starts : period[t][l].invoice = i <=> t = s /\ l = m
    BY <1>0, <2>1, NullKey DEF LinksAreSound
  <2> HIDE DEF i
  <2>4. CreditedIsLive'
    BY <1>0, <2>1 DEF CreditedIsLive
  <2>5. InvoicesBill'
    BY <1>0, <2>1, <2>2 DEF InvoicesBill
  <2>6. PeriodsAgree'
    <3> SUFFICES ASSUME NEW t \in Subs, NEW l \in Starts PROVE Agrees(period[t][l])'
      BY DEF PeriodsAgree
    <3>1. CASE t = s /\ l = m
      BY <2>1, <2>2, <2>3, <3>1, NullKey DEF Agrees
    <3>2. CASE ~(t = s /\ l = m)
      BY <1>a, <2>1, <2>2, <2>3, <3>2, AgreesStill
    <3> QED BY <3>1, <3>2
  <2> QED BY <2>4, <2>5, <2>6 DEF Traced
<1>6. ASSUME NEW q \in Requests, NEW j \in Invoices, WriteReissue(q, j) PROVE Traced'
  <2> DEFINE i == req[q].invoice
  <2>1. /\ i \in Invoices /\ invoice[j].status = "absent"
        /\ \A k \in Invoices :
              /\ invoice'[k].status = IF k = j THEN "draft"
                                      ELSE IF k = i THEN "superseded" ELSE invoice[k].status
              /\ invoice'[k].credit = (k # j /\ invoice[k].credit)
    BY <1>0, <1>6, ReissueDoes
  <2>2. \A t \in Subs, l \in Starts :
           IF period[t][l].invoice = i
           THEN period'[t][l].invoice = j /\ period'[t][l].status = "invoiced"
           ELSE period'[t][l] = period[t][l]
    BY <1>0, <1>6, ReissueDoes
  <2>3. invoice[i].status = "issued" /\ ~invoice[i].credit
    BY <1>0, <1>6 DEF WriteReissue, HeldIsFresh, Fresh, Untouched
  <2>4. \A t \in Subs, l \in Starts : period[t][l].invoice # j
    BY <1>0, <2>1, NullKey DEF LinksAreSound
  <2> HIDE DEF i
  <2>5. CreditedIsLive'
    BY <1>0, <2>1, <2>3 DEF CreditedIsLive
  <2>6. InvoicesBill'
    <3> SUFFICES ASSUME NEW k \in Invoices,
                        invoice'[k].status \in {"draft", "issued", "partially_paid", "paid"}
                 PROVE  \E t \in Subs, l \in Starts : period'[t][l].invoice = k
      BY DEF InvoicesBill
    <3>1. CASE k = j
      <4>1. PICK t \in Subs, l \in Starts : period[t][l].invoice = i
        BY <1>0, <2>1, <2>3 DEF InvoicesBill
      <4> QED BY <2>2, <3>1, <4>1
    <3>2. CASE k # j
      <4>1. k # i /\ invoice'[k].status = invoice[k].status
        BY <2>1, <3>2
      <4>2. PICK t \in Subs, l \in Starts : period[t][l].invoice = k
        BY <1>0, <4>1 DEF InvoicesBill
      <4> QED BY <2>2, <4>1, <4>2
    <3> QED BY <3>1, <3>2
  <2>7. PeriodsAgree'
    <3> SUFFICES ASSUME NEW t \in Subs, NEW l \in Starts PROVE Agrees(period[t][l])'
      BY DEF PeriodsAgree
    <3>1. CASE period[t][l].invoice = i
      BY <2>1, <2>2, <3>1, NullKey DEF Agrees
    <3>2. CASE period[t][l].invoice # i
      BY <1>a, <2>1, <2>2, <2>4, <3>2, AgreesStill
    <3> QED BY <3>1, <3>2
  <2> QED BY <2>5, <2>6, <2>7 DEF Traced
<1>7. ASSUME NEW q \in Requests, NEW n \in Lengths \cup {0}, NEW st \in {"draft", "issued"},
             WriteDraftEdit(q, n, st) PROVE Traced'
  <2> DEFINE i == req[q].invoice
  <2>1. /\ i \in Invoices
        /\ \A k \in Invoices :
              /\ invoice'[k].status = IF k = i THEN st ELSE invoice[k].status
              /\ invoice'[k].credit = invoice[k].credit
    BY <1>0, <1>7, EditDoes
  <2>2. \A t \in Subs, l \in Starts :
           /\ period'[t][l].invoice = period[t][l].invoice
           /\ period'[t][l].status = period[t][l].status
    BY <1>0, <1>7, EditDoes
  <2>3. invoice[i].status = "draft"
    BY <1>0, <1>7 DEF WriteDraftEdit, HeldIsFresh, Fresh
  <2> HIDE DEF i
  <2>4. CreditedIsLive'
    BY <1>0, <2>1, <2>3 DEF CreditedIsLive
  <2>5. InvoicesBill'
    BY <1>0, <2>1, <2>2, <2>3 DEF InvoicesBill
  <2>6. PeriodsAgree'
    <3> SUFFICES ASSUME NEW t \in Subs, NEW l \in Starts PROVE Agrees(period[t][l])'
      BY DEF PeriodsAgree
    <3>1. CASE period[t][l].invoice = i
      BY <1>a, <2>1, <2>2, <2>3, <3>1, NullKey DEF Agrees
    <3>2. CASE period[t][l].invoice # i
      BY <1>a, <2>1, <2>2, <3>2, AgreesStill
    <3> QED BY <3>1, <3>2
  <2> QED BY <2>4, <2>5, <2>6 DEF Traced
<1>8. CASE \/ UNCHANGED vars
           \/ \E s \in Subs : ChangePackage(s)
           \/ \E q \in Requests, s \in Subs : ReadRenew(q, s) \/ CheckCancel(q, s)
           \/ \E q \in Requests, i \in Invoices : CheckReissue(q, i) \/ CheckDraftEdit(q, i)
           \/ \E q \in Requests, i \in Invoices, op \in {"credit", "uncredit"}, b \in BOOLEAN :
                 ReadCredit(q, i, op, b)
           \/ \E q \in Requests : WriteCancel(q) \/ AbandonRequest(q)
  <2>1. period' = period /\ invoice' = invoice
    BY <1>8 DEF vars, ChangePackage, ReadRenew, CheckCancel, CheckReissue, CheckDraftEdit, ReadCredit,
                WriteCancel, AbandonRequest
  <2> QED BY <1>0, <2>1 DEF Traced, CreditedIsLive, InvoicesBill, PeriodsAgree, Agrees
<1> QED BY <1>1, <1>2, <1>3, <1>4, <1>5, <1>6, <1>7, <1>8 DEF Next, PlainStep

\* The last paid month is the one month that LastPaidIs describes.
LEMMA LastPaidUnique ==
    ASSUME NEW p \in [Starts -> Period], NEW x \in Ends,
           \A m \in Starts : p[m].status = "paid" => p[m].last <= x,
           x = 0 \/ \E m \in Starts : p[m].status = "paid" /\ p[m].last = x
    PROVE  x = LastPaid(p)
<1>1. LastPaid(p) \in Int /\ x \in Int /\ 0 <= x /\ 0 <= LastPaid(p)
  BY LastPaidIs DEF Ends
<1>2. LastPaid(p) <= x
  BY LastPaidIs, <1>1
<1>3. x <= LastPaid(p)
  BY LastPaidIs, <1>1
<1> QED BY <1>1, <1>2, <1>3

\* It depends on the paid periods only.
LEMMA LastPaidSame ==
    ASSUME NEW p \in [Starts -> Period], NEW z \in [Starts -> Period],
           \A m \in Starts : p[m].status = "paid" \/ z[m].status = "paid" => z[m] = p[m]
    PROVE  LastPaid(z) = LastPaid(p)
<1>1. LastPaid(p) \in Ends
  BY LastPaidIs
<1>2. \A m \in Starts : z[m].status = "paid" => z[m].last <= LastPaid(p)
  BY LastPaidIs
<1>3. LastPaid(p) = 0 \/ \E m \in Starts : z[m].status = "paid" /\ z[m].last = LastPaid(p)
  BY LastPaidIs
<1> QED BY <1>1, <1>2, <1>3, LastPaidUnique

\* A step that touches no paid coverage.
Alone ==
    /\ paidThrough' = paidThrough
    /\ \A s \in Subs, m \in Starts :
          period[s][m].status = "paid" \/ period'[s][m].status = "paid" =>
              period'[s][m] = period[s][m]

\* Only a receipt for the balance and a credit change are not such steps.
LEMMA PaidAlone ==
    ASSUME SerialInv, [Next]_vars,
           ~ \E i \in Invoices : PayInFull(i),
           ~ \E q \in Requests : WriteCredit(q)
    PROVE  Alone
<1>0. /\ TypeOK /\ Named /\ LinksAreSound /\ HeldIsFresh
      /\ CreditedIsLive /\ InvoicesBill /\ PeriodsAgree
  BY TraceHalves DEF SerialInv, LinkInv
<1>a. \A s \in Subs, m \in Starts : period[s][m].status = "paid" =>
         period[s][m].invoice \in Invoices /\ invoice[period[s][m].invoice].status = "paid"
  BY <1>0, PeriodTyped DEF PeriodsAgree, Agrees
<1>1. ASSUME NEW q \in Requests, NEW m \in Starts, NEW n \in Lengths,
             NEW i \in Invoices \cup {None}, WriteRenew(q, m, n, i) PROVE Alone
  <2> DEFINE s == req[q].sub
  <2>1. s \in Subs /\ Billable(s, m, EndOf(m, n))
    BY <1>0, <1>1, RenewDoes
  <2>2. \A t \in Subs, l \in Starts :
           IF t = s /\ l = m THEN period'[t][l].status = IF i = None THEN "pending" ELSE "invoiced"
                             ELSE period'[t][l] = period[t][l]
    BY <1>0, <1>1, RenewDoes
  <2>3. period[s][m].status # "paid"
    BY <2>1 DEF Billable
  <2>4. paidThrough' = paidThrough
    BY <1>1 DEF WriteRenew
  <2> HIDE DEF s
  <2> QED BY <2>2, <2>3, <2>4 DEF Alone
<1>2. ASSUME NEW i \in Invoices, PayInPart(i) PROVE Alone
  BY <1>0, <1>2, PartDoes DEF Alone
<1>3. ASSUME NEW s \in Subs, NEW m \in Starts, VoidSubscriptionInvoice(s, m) PROVE Alone
  <2>1. /\ period[s][m].status = "invoiced"
        /\ \A t \in Subs, l \in Starts :
              IF t = s /\ l = m THEN period'[t][l].status = "cancelled"
                                ELSE period'[t][l] = period[t][l]
    BY <1>0, <1>3, VoidDoes
  <2>2. paidThrough' = paidThrough
    BY <1>3 DEF VoidSubscriptionInvoice
  <2> QED BY <2>1, <2>2 DEF Alone
<1>4. ASSUME NEW q \in Requests, NEW j \in Invoices, WriteReissue(q, j) PROVE Alone
  <2> DEFINE i == req[q].invoice
  <2>1. /\ paidThrough' = paidThrough
        /\ \A t \in Subs, l \in Starts :
              IF period[t][l].invoice = i THEN period'[t][l].status = "invoiced"
                                          ELSE period'[t][l] = period[t][l]
    BY <1>0, <1>4, ReissueDoes
  <2>2. invoice[i].status = "issued"
    BY <1>0, <1>4 DEF WriteReissue, HeldIsFresh, Fresh, Untouched
  <2> HIDE DEF i
  <2> QED BY <1>a, <2>1, <2>2 DEF Alone
<1>5. ASSUME NEW q \in Requests, NEW n \in Lengths \cup {0}, NEW st \in {"draft", "issued"},
             WriteDraftEdit(q, n, st) PROVE Alone
  <2> DEFINE i == req[q].invoice
  <2>1. /\ paidThrough' = paidThrough
        /\ \A t \in Subs, l \in Starts :
              /\ period'[t][l].status = period[t][l].status
              /\ period[t][l].invoice # i => period'[t][l] = period[t][l]
    BY <1>0, <1>5, EditDoes
  <2>2. invoice[i].status = "draft"
    BY <1>0, <1>5 DEF WriteDraftEdit, HeldIsFresh, Fresh
  <2> HIDE DEF i
  <2> QED BY <1>a, <2>1, <2>2 DEF Alone
<1>6. CASE \/ UNCHANGED vars
           \/ \E s \in Subs : ChangePackage(s)
           \/ \E q \in Requests, s \in Subs : ReadRenew(q, s) \/ CheckCancel(q, s)
           \/ \E q \in Requests, i \in Invoices : CheckReissue(q, i) \/ CheckDraftEdit(q, i)
           \/ \E q \in Requests, i \in Invoices, op \in {"credit", "uncredit"}, b \in BOOLEAN :
                 ReadCredit(q, i, op, b)
           \/ \E q \in Requests : WriteCancel(q) \/ AbandonRequest(q)
  <2>1. period' = period /\ paidThrough' = paidThrough
    BY <1>6 DEF vars, ChangePackage, ReadRenew, CheckCancel, CheckReissue, CheckDraftEdit, ReadCredit,
                WriteCancel, AbandonRequest
  <2> QED BY <2>1 DEF Alone
<1> QED BY <1>1, <1>2, <1>3, <1>4, <1>5, <1>6 DEF Next, PlainStep

\* A receipt for the balance raises paid_through_date to the last paid month.
LEMMA ThroughRaised ==
    ASSUME SerialInv, TypeOK', NEW i \in Invoices, PayInFull(i)
    PROVE  PaidThroughIsLastPaid'
<1>0. TypeOK /\ PeriodsAgree /\ PaidThroughIsLastPaid
  BY TraceHalves DEF SerialInv, LinkInv
<1>1. /\ period' = SettledPeriods(i, TRUE)
      /\ invoice[i].status \in {"issued", "partially_paid"}
  BY <1>0, FullDoes
<1>2. \A s \in Subs, m \in Starts :
         /\ period'[s][m].last = period[s][m].last
         /\ period'[s][m].status = IF period[s][m].invoice = i THEN "paid" ELSE period[s][m].status
  BY <1>0, <1>1, PaidIs, ZenonT(60)
<1> SUFFICES ASSUME NEW s \in Subs PROVE paidThrough'[s] = LastPaid(period'[s])
  BY DEF PaidThroughIsLastPaid
<1> DEFINE x == RaisedThrough(s, i)
<1>3. paidThrough'[s] = x
  BY DEF PayInFull
<1>4. period'[s] \in [Starts -> Period] /\ period[s] \in [Starts -> Period]
  BY <1>0 DEF TypeOK
<1>5. paidThrough[s] = LastPaid(period[s])
  BY <1>0 DEF PaidThroughIsLastPaid
<1>6. /\ x \in Ends
      /\ paidThrough[s] <= x
      /\ \A m \in Linked(s, i) : period[s][m].last <= x
      /\ x = paidThrough[s] \/ \E m \in Linked(s, i) : period[s][m].last = x
  BY <1>0, RaisedIs
<1> HIDE DEF x
<1>a. \A m \in Starts : period[s][m].last \in Int
  BY <1>4 DEF Period, Ends
<1>b. LastPaid(period[s]) \in Int /\ x \in Int
  BY <1>4, <1>6, LastPaidIs DEF Ends
<1>7. ASSUME NEW m \in Starts, period'[s][m].status = "paid" PROVE period'[s][m].last <= x
  <2>1. CASE period[s][m].invoice = i
    BY <1>2, <1>6, <2>1 DEF Linked
  <2>2. CASE period[s][m].invoice # i
    <3>1. period[s][m].status = "paid" /\ period'[s][m].last = period[s][m].last
      BY <1>2, <1>7, <2>2
    <3>2. period[s][m].last <= LastPaid(period[s])
      BY <1>4, <3>1, LastPaidIs
    <3> QED BY <1>5, <1>6, <1>a, <1>b, <3>1, <3>2
  <2> QED BY <2>1, <2>2
<1>8. x = 0 \/ \E m \in Starts : period'[s][m].status = "paid" /\ period'[s][m].last = x
  <2>1. CASE x = paidThrough[s]
    <3>1. \/ LastPaid(period[s]) = 0
          \/ \E m \in Starts : period[s][m].status = "paid" /\ period[s][m].last = LastPaid(period[s])
      BY <1>4, LastPaidIs
    <3> QED BY <1>2, <1>5, <2>1, <3>1
  <2>2. CASE \E m \in Linked(s, i) : period[s][m].last = x
    BY <1>2, <2>2 DEF Linked
  <2> QED BY <1>6, <2>1, <2>2
<1>9. x = LastPaid(period'[s])
  BY <1>4, <1>6, <1>7, <1>8, LastPaidUnique
<1> QED BY <1>3, <1>9

\* A credit change stores the last paid month it has read.
LEMMA ThroughStored ==
    ASSUME SerialInv, TypeOK', NEW q \in Requests, WriteCredit(q)
    PROVE  PaidThroughIsLastPaid'
<1> DEFINE i == req[q].invoice
           b == req[q].settles
<1>0. TypeOK /\ Named /\ HeldIsFresh /\ PaidThroughIsLastPaid
  BY DEF SerialInv, LinkInv
<1>1. i \in Invoices /\ b \in BOOLEAN /\ period' = SettledPeriods(i, b)
  BY <1>0, CreditDoes
<1>2. req[q].through = [s \in Subs |-> LastPaid(SettledPeriods(i, b)[s])]
  BY <1>0 DEF HeldIsFresh, Fresh, WriteCredit
<1> SUFFICES ASSUME NEW s \in Subs PROVE paidThrough'[s] = LastPaid(period'[s])
  BY DEF PaidThroughIsLastPaid
<1>3. paidThrough'[s] = IF Linked(s, i) = {} THEN paidThrough[s] ELSE req[q].through[s]
  BY DEF WriteCredit, StoredThrough
<1>4. CASE Linked(s, i) = {}
  <2>1. \A m \in Starts : period[s][m].invoice # i
    BY <1>4 DEF Linked
  <2>2. \A m \in Starts : SettledPeriods(i, b)[s][m] = period[s][m]
    BY <2>1 DEF SettledPeriods
  <2>3. period'[s] \in [Starts -> Period] /\ period[s] \in [Starts -> Period]
    BY <1>0 DEF TypeOK
  <2>4. \A m \in Starts : period'[s][m] = period[s][m]
    BY <1>1, <2>2
  <2>5. LastPaid(period'[s]) = LastPaid(period[s])
    BY <2>3, <2>4, LastPaidSame
  <2> QED BY <1>0, <1>3, <1>4, <2>5 DEF PaidThroughIsLastPaid
<1>5. CASE Linked(s, i) # {}
  BY <1>1, <1>2, <1>3, <1>5
<1> QED BY <1>4, <1>5

LEMMA ThroughStep ==
    ASSUME SerialInv, TypeOK', [Next]_vars
    PROVE  PaidThroughIsLastPaid'
<1>1. CASE \E i \in Invoices : PayInFull(i)
  BY <1>1, ThroughRaised
<1>2. CASE \E q \in Requests : WriteCredit(q)
  BY <1>2, ThroughStored
<1>3. CASE ~(\E i \in Invoices : PayInFull(i)) /\ ~(\E q \in Requests : WriteCredit(q))
  <2> SUFFICES ASSUME NEW s \in Subs PROVE paidThrough'[s] = LastPaid(period'[s])
    BY DEF PaidThroughIsLastPaid
  <2>1. paidThrough' = paidThrough /\ \A m \in Starts :
           period[s][m].status = "paid" \/ period'[s][m].status = "paid" =>
               period'[s][m] = period[s][m]
    BY <1>3, PaidAlone DEF Alone
  <2>2. period'[s] \in [Starts -> Period] /\ period[s] \in [Starts -> Period]
    BY DEF TypeOK, SerialInv, LinkInv
  <2>3. LastPaid(period'[s]) = LastPaid(period[s])
    BY <2>1, <2>2, LastPaidSame
  <2> QED BY <2>1, <2>3 DEF SerialInv, PaidThroughIsLastPaid
<1> QED BY <1>1, <1>2, <1>3

LEMMA SerialInvariant == ASSUME Overlap = FALSE PROVE Spec => []SerialInv
<1>1. Init => SerialInv
  <2> SUFFICES ASSUME Init PROVE SerialInv
    OBVIOUS
  <2>1. TypeOK /\ Named
    BY Constants, ZeroIsEnd DEF Init, TypeOK, Named, NamesIts, Idle
  <2>2. LinksAreSound /\ CreditedIsLive /\ CoverageIsTraceable
    BY DEF Init, LinksAreSound, CreditedIsLive, CoverageIsTraceable, NoPeriod, NoInvoice
  <2>3. Exclusive /\ HeldIsFresh
    BY DEF Init, Exclusive, HeldIsFresh, Fresh, Idle
  <2>4. PaidThroughIsLastPaid
    <3> SUFFICES ASSUME NEW s \in Subs PROVE LastPaid(period[s]) = 0
      BY DEF PaidThroughIsLastPaid, Init
    <3>1. period[s] \in [Starts -> Period] /\ \A m \in Starts : period[s][m].status = "absent"
      BY <2>1 DEF TypeOK, Init, NoPeriod
    <3> QED BY <3>1, LastPaidIs
  <2> QED BY <2>1, <2>2, <2>3, <2>4 DEF SerialInv, LinkInv
<1>2. SerialInv /\ [Next]_vars => SerialInv'
  <2> SUFFICES ASSUME SerialInv, [Next]_vars PROVE SerialInv'
    OBVIOUS
  <2>1. TypeOK' /\ Named' /\ LinksAreSound'
    BY TypeStep, NamedStep, LinkStep DEF SerialInv, LinkInv
  <2>2. Exclusive' /\ HeldIsFresh'
    BY FreshStep
  <2>3. Traced'
    BY TraceStep
  <2>4. CreditedIsLive' /\ CoverageIsTraceable'
    BY <2>3, TraceHalves DEF Traced, CoverageIsTraceable, InvoicesBill, PeriodsAgree, Agrees
  <2>5. PaidThroughIsLastPaid'
    BY <2>1, ThroughStep
  <2> QED BY <2>1, <2>2, <2>4, <2>5 DEF SerialInv, LinkInv
<1> QED BY <1>1, <1>2, PTL DEF Spec

\* While requests do not overlap, the date that create_receipt_from_invoice
\* raises and _sync_invoice_after_credit_change recomputes is the end of the
\* last paid period, whatever was paid, credited, voided or reissued before.
THEOREM PaidThroughCorrect ==
    ASSUME Overlap = FALSE PROVE Spec => []PaidThroughIsLastPaid
<1>1. SerialInv => PaidThroughIsLastPaid
  BY DEF SerialInv
<1> QED BY <1>1, SerialInvariant, PTL

\* While requests do not overlap, every live invoice bills a period and every
\* period agrees with the invoice that reissue, renewal and void left it.
THEOREM CoverageTraceable ==
    ASSUME Overlap = FALSE PROVE Spec => []CoverageIsTraceable
<1>1. SerialInv => CoverageIsTraceable
  BY DEF SerialInv
<1> QED BY <1>1, SerialInvariant, PTL

\* While requests do not overlap, no renewal, edit, reissue, void or payment
\* takes back or moves coverage that was paid for.
THEOREM CoverageKept ==
    ASSUME Overlap = FALSE PROVE Spec => CoverageIsKept
<1> DEFINE Kept == \A s \in Subs, m \in Starts : LET p == period[s][m] IN
                      p.status = "paid" => \/ period'[s][m] = p
                                           \/ invoice[p.invoice].credit /\ ~invoice'[p.invoice].credit
<1>1. SerialInv /\ [Next]_vars => Kept
  <2> SUFFICES ASSUME SerialInv, [Next]_vars PROVE Kept
    OBVIOUS
  <2>0. /\ TypeOK /\ Named /\ HeldIsFresh /\ PeriodsAgree
    BY TraceHalves DEF SerialInv, LinkInv
  <2>a. \A s \in Subs, m \in Starts :
           /\ period[s][m] \in Period
           /\ period[s][m].status = "paid" =>
                 period[s][m].invoice \in Invoices /\ invoice[period[s][m].invoice].status = "paid"
    BY <2>0, PeriodTyped, SMTT(30) DEF PeriodsAgree, Agrees, TypeOK
  <2>1. ASSUME NEW i \in Invoices, PayInFull(i) PROVE Kept
    <3>1. period' = SettledPeriods(i, TRUE) /\ invoice[i].status \in {"issued", "partially_paid"}
      BY <2>0, <2>1, FullDoes
    <3>2. \A s \in Subs, m \in Starts : period[s][m].invoice # i => period'[s][m] = period[s][m]
      BY <3>1 DEF SettledPeriods
    <3> QED BY <2>a, <3>1, <3>2
  <2>2. ASSUME NEW q \in Requests, WriteCredit(q) PROVE Kept
    <3> DEFINE i == req[q].invoice
    <3>1. /\ i \in Invoices /\ period' = SettledPeriods(i, req[q].settles)
          /\ invoice'[i].credit = (req[q].op = "credit")
      BY <2>0, <2>2, CreditDoes
    <3>2. \A s \in Subs, m \in Starts : period[s][m].invoice # i => period'[s][m] = period[s][m]
      BY <3>1 DEF SettledPeriods
    <3>3. CASE req[q].op = "credit"
      <4>1. invoice[i].status \in {"issued", "partially_paid"}
        BY <2>0, <3>3 DEF HeldIsFresh, Fresh
      <4> HIDE DEF i
      <4> QED BY <2>a, <3>2, <4>1
    <3>4. CASE req[q].op = "uncredit"
      <4>1. invoice[i].credit /\ ~invoice'[i].credit
        BY <2>0, <3>1, <3>4 DEF HeldIsFresh, Fresh
      <4> HIDE DEF i
      <4> QED BY <3>2, <4>1
    <3> QED BY <2>2, <3>3, <3>4 DEF WriteCredit
  <2>3. CASE ~(\E i \in Invoices : PayInFull(i)) /\ ~(\E q \in Requests : WriteCredit(q))
    BY <2>3, PaidAlone DEF Alone
  <2> HIDE DEF Kept
  <2> QED BY <2>1, <2>2, <2>3
<1> HIDE DEF Kept
<1>2. Spec => [][Kept]_vars
  BY <1>1, SerialInvariant, PTL DEF Spec
<1> QED BY <1>2 DEF CoverageIsKept, Kept

-----------------------------------------------------------------------------
(* What the customer list says follows from the invariant of the serial          *)
(* specification, but for one fact about periods: they do not end before they     *)
(* start.                                                                    *)

PeriodsRun == \A s \in Subs, m \in Starts : period[s][m].status # "absent" => m <= period[s][m].last

LEMMA RunsOn ==
    ASSUME NEW m \in Starts, NEW n \in Lengths
    PROVE  m <= EndOf(m, n)
BY DEF Starts, Lengths, EndOf

\* A step that keeps the months of the periods there are.
LEMMA RunsStill ==
    ASSUME PeriodsRun,
           \A s \in Subs, m \in Starts : /\ period'[s][m].last = period[s][m].last
                                         /\ period[s][m].status = "absent"
                                               => period'[s][m].status = "absent"
    PROVE  PeriodsRun'
BY DEF PeriodsRun

LEMMA RunStep ==
    ASSUME TypeOK, Named, PeriodsRun, [Next]_vars,
           \A s \in Subs, m \in Starts : period[s][m].status = "absent" => period[s][m].invoice = None
    PROVE  PeriodsRun'
<1>p. \A s \in Subs, m \in Starts : period[s][m] \in Period
  BY DEF TypeOK
<1>a. \A s \in Subs, m \in Starts, i \in Invoices :
         period[s][m].status = "absent" => period[s][m].invoice # i
  BY NullKey
<1>1. CASE period' = period
  BY <1>1, RunsStill
<1>2. ASSUME NEW q \in Requests, NEW m \in Starts, NEW n \in Lengths,
             NEW i \in Invoices \cup {None}, WriteRenew(q, m, n, i)
      PROVE  PeriodsRun'
  <2> DEFINE s == req[q].sub
             last == IF period[s][m].status = "pending" THEN period[s][m].last ELSE EndOf(m, n)
  <2>1. s \in Subs
    BY <1>2, RenewDoes
  <2>2. m <= last
    BY <2>1, RunsOn DEF PeriodsRun
  <2>3. \A t \in Subs, l \in Starts :
           IF t = s /\ l = m THEN period'[t][l].last = last ELSE period'[t][l] = period[t][l]
    BY <1>2, <2>1 DEF WriteRenew, TypeOK
  <2> HIDE DEF last, s
  <2> QED BY <2>2, <2>3 DEF PeriodsRun
<1>3. ASSUME NEW i \in Invoices, NEW settles \in BOOLEAN, period' = SettledPeriods(i, settles)
      PROVE  PeriodsRun'
  <2>1. \A s \in Subs, m \in Starts :
           /\ period'[s][m].last = period[s][m].last
           /\ period[s][m].invoice # i => period'[s][m] = period[s][m]
    BY <1>3, <1>p DEF SettledPeriods, Period
  <2> QED BY <1>a, <2>1, RunsStill
<1>4. ASSUME NEW s \in Subs, NEW m \in Starts, VoidSubscriptionInvoice(s, m) PROVE PeriodsRun'
  <2>1. \A t \in Subs, l \in Starts :
           /\ period'[t][l].last = period[t][l].last
           /\ ~(t = s /\ l = m) => period'[t][l] = period[t][l]
    BY <1>4, <1>p DEF VoidSubscriptionInvoice, TypeOK, Period
  <2>2. period[s][m].status = "invoiced"
    BY <1>4, VoidDoes
  <2> QED BY <2>1, <2>2, RunsStill
<1>5. ASSUME NEW q \in Requests, NEW j \in Invoices, WriteReissue(q, j) PROVE PeriodsRun'
  <2>1. req[q].invoice \in Invoices
    BY <1>5, ReissueDoes
  <2>2. \A s \in Subs, m \in Starts :
           /\ period'[s][m].last = period[s][m].last
           /\ period[s][m].invoice # req[q].invoice => period'[s][m] = period[s][m]
    BY <1>5, <1>p DEF WriteReissue, Moved, Period
  <2> QED BY <1>a, <2>1, <2>2, RunsStill
<1>6. ASSUME NEW q \in Requests, NEW n \in Lengths \cup {0}, NEW st \in {"draft", "issued"},
             WriteDraftEdit(q, n, st)
      PROVE  PeriodsRun'
  <2>1. \A s \in Subs, m \in Starts :
           /\ period'[s][m].status = period[s][m].status
           /\ \/ period'[s][m].last = period[s][m].last
              \/ n > 0 /\ period'[s][m].last = EndOf(m, n)
    BY <1>6, <1>p DEF WriteDraftEdit, Period
  <2>2. n > 0 => n \in Lengths
    OBVIOUS
  <2> QED BY <2>1, <2>2, RunsOn DEF PeriodsRun
<1>7. ASSUME NEW i \in Invoices, PayInFull(i) PROVE PeriodsRun'
  BY <1>3, <1>7, FullDoes
<1>8. ASSUME NEW q \in Requests, WriteCredit(q) PROVE PeriodsRun'
  BY <1>3, <1>8, CreditDoes
<1>9. ASSUME NEW q \in Requests, NEW s \in Subs, ReadRenew(q, s) \/ CheckCancel(q, s)
      PROVE  PeriodsRun'
  BY <1>1, <1>9 DEF ReadRenew, CheckCancel
<1>10. ASSUME NEW q \in Requests, WriteCancel(q) \/ AbandonRequest(q) PROVE PeriodsRun'
  BY <1>1, <1>10 DEF WriteCancel, AbandonRequest
<1>11. ASSUME NEW i \in Invoices, PayInPart(i) PROVE PeriodsRun'
  BY <1>1, <1>11 DEF PayInPart
<1>12. ASSUME NEW q \in Requests, NEW i \in Invoices, CheckReissue(q, i) \/ CheckDraftEdit(q, i)
       PROVE  PeriodsRun'
  BY <1>1, <1>12 DEF CheckReissue, CheckDraftEdit
<1>13. ASSUME NEW q \in Requests, NEW i \in Invoices, NEW op \in {"credit", "uncredit"},
              NEW b \in BOOLEAN, ReadCredit(q, i, op, b)
       PROVE  PeriodsRun'
  BY <1>1, <1>13 DEF ReadCredit
<1>14. ASSUME NEW s \in Subs, ChangePackage(s) PROVE PeriodsRun'
  BY <1>1, <1>14 DEF ChangePackage
<1> QED BY <1>1, <1>2, <1>4, <1>5, <1>6, <1>7, <1>8, <1>9, <1>10, <1>11, <1>12, <1>13, <1>14
     DEF Next, PlainStep, vars

-----------------------------------------------------------------------------
LinesTyped == said \in [Invoices -> {0} \cup Lengths]

\* What the lists rest on.
Records == TypeOK /\ LinesTyped /\ PeriodsAgree /\ PaidThroughIsLastPaid

LEMMA LineEndTyped ==
    ASSUME Records, NEW s \in Subs, NEW m \in Starts, Settled(s, m)
    PROVE  LineEnd(s, m) \in Ends
<1>1. period[s][m].last \in Ends /\ period[s][m].invoice \in Invoices \cup {None}
  BY DEF Records, TypeOK, Period
<1>2. period[s][m].invoice # None
  BY DEF Records, PeriodsAgree, Agrees, Settled
<1>3. said[period[s][m].invoice] \in {0} \cup Lengths
  BY <1>1, <1>2 DEF Records, LinesTyped
<1> QED BY <1>1, <1>3, EndTyped DEF LineEnd

\* The date of a subscription is the stored one, or a later one by a line that says more.
LEMMA DateIs ==
    ASSUME Records, NEW s \in Subs
    PROVE  /\ PaidThroughDate(s) \in Ends /\ paidThrough[s] \in Ends
           /\ paidThrough[s] <= PaidThroughDate(s)
           /\ ~SaysMore(s) => PaidThroughDate(s) = paidThrough[s]
<1> DEFINE D == {paidThrough[s]} \cup { LineEnd(s, m) : m \in { n \in Starts : Settled(s, n) } }
<1>1. paidThrough[s] \in Ends /\ period[s] \in [Starts -> Period]
  BY DEF Records, TypeOK
<1>2. D \in SUBSET Ends /\ D # {}
  BY <1>1, LineEndTyped
<1>3. Max(D) \in D /\ \A x \in D : x <= Max(D)
  BY <1>2, LastMonth
<1>4. ASSUME ~SaysMore(s), NEW x \in D PROVE x <= paidThrough[s]
  <2>1. CASE x = paidThrough[s]
    BY <1>1, <2>1 DEF Ends
  <2>2. ASSUME NEW m \in Starts, Settled(s, m), x = LineEnd(s, m) PROVE x <= paidThrough[s]
    <3>1. x \in Ends /\ period[s][m].last \in Ends
      BY <1>1, <2>2, LineEndTyped DEF Period
    <3>2. ~(x > period[s][m].last)
      BY <1>4, <2>2 DEF SaysMore
    <3>3. period[s][m].last <= LastPaid(period[s])
      BY <1>1, <2>2, LastPaidIs DEF Settled
    <3>4. LastPaid(period[s]) = paidThrough[s]
      BY DEF Records, PaidThroughIsLastPaid
    <3> QED BY <1>1, <3>1, <3>2, <3>3, <3>4 DEF Ends
  <2> QED BY <2>1, <2>2
<1>5. paidThrough[s] \in D /\ PaidThroughDate(s) = Max(D)
  BY DEF PaidThroughDate
<1> HIDE DEF D
<1>6. PaidThroughDate(s) \in Ends /\ paidThrough[s] <= PaidThroughDate(s)
  BY <1>2, <1>3, <1>5
<1>7. ASSUME ~SaysMore(s) PROVE PaidThroughDate(s) = paidThrough[s]
  <2>1. PaidThroughDate(s) <= paidThrough[s]
    BY <1>3, <1>4, <1>5, <1>7
  <2> QED BY <1>1, <1>6, <2>1 DEF Ends
<1> QED BY <1>1, <1>6, <1>7

\* The date of some agreements: none ends later, and one ends then, or it is zero.
LEMMA ThroughIs ==
    ASSUME Records, NEW S \in SUBSET Subs
    PROVE  /\ ThroughOf(S) \in Ends
           /\ \A s \in S : PaidThroughDate(s) <= ThroughOf(S)
           /\ ThroughOf(S) = 0 \/ \E s \in S : PaidThroughDate(s) = ThroughOf(S)
<1> DEFINE D == {0} \cup { PaidThroughDate(s) : s \in S }
<1>1. D \in SUBSET Ends /\ D # {}
  BY ZeroIsEnd, DateIs
<1>2. ThroughOf(S) = Max(D)
  BY DEF ThroughOf
<1>3. Max(D) \in D /\ \A x \in D : x <= Max(D)
  BY <1>1, LastMonth
<1>4. \A s \in S : PaidThroughDate(s) \in D
  OBVIOUS
<1> QED BY <1>1, <1>2, <1>3, <1>4

LEMMA StoredIs ==
    ASSUME Records
    PROVE  /\ StoredThroughOf \in Ends
           /\ \A s \in Subs : paidThrough[s] <= StoredThroughOf
           /\ StoredThroughOf = 0 \/ \E s \in Subs : paidThrough[s] = StoredThroughOf
<1> DEFINE D == {0} \cup { paidThrough[s] : s \in Subs }
<1>1. D \in SUBSET Ends /\ D # {}
  BY ZeroIsEnd DEF Records, TypeOK
<1>2. StoredThroughOf = Max(D)
  BY DEF StoredThroughOf
<1>3. Max(D) \in D /\ \A x \in D : x <= Max(D)
  BY <1>1, LastMonth
<1>4. \A s \in Subs : paidThrough[s] \in D
  OBVIOUS
<1> QED BY <1>1, <1>2, <1>3, <1>4

\* Finance sees the date of sales, or a later one by a line that says more.
LEMMA DatesDiffer ==
    ASSUME Records
    PROVE  \/ ThroughOf(Subs) = StoredThroughOf
           \/ ThroughOf(Subs) > StoredThroughOf /\ \E s \in Subs : SaysMore(s)
<1>1. ThroughOf(Subs) \in Nat /\ StoredThroughOf \in Nat
  BY ThroughIs, StoredIs, Calendar DEF Ends
<1>2. ThroughOf(Subs) >= StoredThroughOf
  <2>1. CASE StoredThroughOf = 0
    BY <1>1, <2>1
  <2>2. ASSUME NEW s \in Subs, paidThrough[s] = StoredThroughOf
        PROVE  ThroughOf(Subs) >= StoredThroughOf
    <3>1. /\ PaidThroughDate(s) \in Nat
          /\ paidThrough[s] <= PaidThroughDate(s) /\ PaidThroughDate(s) <= ThroughOf(Subs)
      BY DateIs, ThroughIs, Calendar DEF Ends
    <3> QED BY <1>1, <2>2, <3>1
  <2> QED BY <2>1, <2>2, StoredIs
<1>3. ASSUME ThroughOf(Subs) > StoredThroughOf PROVE \E s \in Subs : SaysMore(s)
  <2>1. PICK s \in Subs : PaidThroughDate(s) = ThroughOf(Subs)
    BY <1>1, <1>3, ThroughIs
  <2>2. paidThrough[s] <= StoredThroughOf /\ paidThrough[s] \in Nat
    BY StoredIs, DateIs, Calendar DEF Ends
  <2>3. paidThrough[s] # PaidThroughDate(s)
    BY <1>1, <1>3, <2>1, <2>2
  <2> QED BY <2>3, DateIs
<1> QED BY <1>1, <1>2, <1>3

\* An open period bills an invoice that is unsettled, or is a draft.
LEMMA OpenIsOwed ==
    ASSUME TypeOK, PeriodsAgree, NEW s \in Subs, NEW m \in Starts, Open(s, m)
    PROVE  LET i == period[s][m].invoice IN
           /\ i \in Invoices /\ m \in Linked(s, i) /\ Live(s, m)
           /\ Unsettled(i) \/ invoice[i].status = "draft"
<1>1. /\ period[s][m].invoice \in Invoices \cup {None}
      /\ period[s][m].status = "invoiced" /\ Agrees(period[s][m])
  BY PeriodTyped DEF PeriodsAgree, Open
<1> QED BY <1>1 DEF Agrees, Linked, Live, Unsettled

LEMMA OwedIsOpen ==
    ASSUME TypeOK, PeriodsAgree, NEW s \in Subs, NEW i \in Invoices, NEW m \in Linked(s, i),
           invoice[i].status \in {"draft", "issued", "partially_paid"}
    PROVE  Open(s, m)
<1>1. /\ m \in Starts /\ period[s][m].invoice = i /\ i # None
      /\ period[s][m].status \in {"absent", "pending", "invoiced", "paid", "cancelled"}
      /\ Agrees(period[s][m])
  BY PeriodTyped, NullKey DEF PeriodsAgree, Linked
<1> QED BY <1>1 DEF Agrees, Open

AllClear == \A s \in Subs, m \in Starts : ~Open(s, m)

LEMMA ClearOwesNothing ==
    ASSUME TypeOK, PeriodsAgree, AllClear
    PROVE  Owing = {}
BY OwedIsOpen DEF AllClear, Owing, Owed, Unsettled, Linked

LEMMA BadgesHold ==
    ASSUME Records
    PROVE  BadgesAgree
<1>0. TypeOK /\ PeriodsAgree
  BY DEF Records
<1> DEFINE Billed == { period[p[1]][p[2]].invoice : p \in { p \in Subs \X Starts : Open(p[1], p[2]) } }
           Apart(i) == invoice[i].status = "draft" \/ (Unsettled(i) /\ i \in unowed)
           Others == { i \in Invoices : Apart(i) /\ \E s \in Subs : Linked(s, i) # {} }
<1>1. Billed \subseteq Owing \cup Others
  <2> SUFFICES ASSUME NEW s \in Subs, NEW m \in Starts, Open(s, m)
               PROVE  period[s][m].invoice \in Owing \cup Others
    OBVIOUS
  <2> DEFINE i == period[s][m].invoice
  <2>1. /\ i \in Invoices /\ m \in Linked(s, i) /\ Live(s, m)
        /\ Unsettled(i) \/ invoice[i].status = "draft"
    BY <1>0, OpenIsOwed
  <2> HIDE DEF i
  <2>2. i \in Owing \cup Others
    BY <2>1 DEF Owing, Owed
  <2> QED BY <2>2 DEF i
<1>2. ASSUME NEW i \in Owing \cup Others PROVE i \in Billed
  <2>1. PICK s \in Subs, m \in Starts : m \in Linked(s, i)
    BY DEF Owing, Linked
  <2>2. i \in Invoices /\ invoice[i].status \in {"draft", "issued", "partially_paid"}
    BY DEF Owing, Owed, Unsettled
  <2>3. Open(s, m) /\ period[s][m].invoice = i
    BY <1>0, <2>1, <2>2, OwedIsOpen DEF Linked
  <2> DEFINE p == <<s, m>>
  <2>4. p \in { q \in Subs \X Starts : Open(q[1], q[2]) } /\ period[p[1]][p[2]].invoice = i
    BY <2>3
  <2> HIDE DEF p
  <2> QED BY <2>4
<1>3. { period[p[1]][p[2]].invoice : p \in { q \in Subs \X Starts : Open(q[1], q[2]) } }
         = Owing \cup Others
  BY <1>1, <1>2
<1>4. ASSUME NEW t \in Starts, AllClear, ThroughOf(Subs) = StoredThroughOf
      PROVE  FinanceBadge(t) \in {SalesBadge(t), "no billing"}
  BY <1>0, <1>4, ClearOwesNothing DEF AllClear, FinanceBadge, SalesBadge
<1>5. ASSUME NEW t \in Starts, AllClear
      PROVE  \/ FinanceBadge(t) \in {SalesBadge(t), "no billing"}
             \/ ThroughOf(Subs) > StoredThroughOf /\ \E s \in Subs : SaysMore(s)
  BY <1>4, <1>5, DatesDiffer
<1>6. ASSUME NEW s \in Subs, NEW t \in Starts, SiteState(s, t) = "unpaid"
      PROVE  FinanceBadge(t) \in {"unpaid", "no billing"}
  BY <1>6 DEF SiteState, ByDate, FinanceBadge
<1> QED BY <1>3, <1>5, <1>6 DEF BadgesAgree, AllClear

LEMMA DateNotPast ==
    ASSUME NEW through \in Nat, NEW day \in Nat, through >= day
    PROVE  ByDate(through, day) = IF through = day THEN "due soon" ELSE "paid"
<1>1. ~(through < day)
  OBVIOUS
<1> QED BY <1>1, Zenon DEF ByDate

LEMMA QueuesHold ==
    ASSUME Records, PeriodsRun
    PROVE  QueuesDoNotOverlap
<1> SUFFICES ASSUME NEW t \in Starts, DueQueue(t)
             PROVE  /\ \A u \in Starts : ~UnpaidQueue(u)
                    /\ FinanceBadge(t) \in {"due soon", "paid", "no billing"}
                    /\ FinanceBadge(t) = "paid" => ThroughOf(Subs \ Active) > t
                    /\ (\A s \in Active : ~SaysMore(s)) =>
                          PaidQueue(t) /\ FinanceBadge(t) # "no billing"
                          /\ SalesBadge(t) \in {"due soon", "paid"}
  BY DEF QueuesDoNotOverlap
<1>0. TypeOK /\ PeriodsAgree
  BY DEF Records
<1>1. AllClear /\ ThroughOf(Active) = t /\ Active \in SUBSET Subs /\ t \in Nat /\ t > 0
  BY DEF DueQueue, DueSoon, AllClear, Active, Starts
<1>2. \A u \in Starts : ~UnpaidQueue(u)
  BY <1>1 DEF UnpaidQueue, InQueue, AllClear, Open
<1>3. PICK s \in Active : PaidThroughDate(s) = t
  BY <1>1, ThroughIs
<1>4. Owing = {}
  BY <1>0, <1>1, ClearOwesNothing
<1>5. ThroughOf(Subs) \in Nat /\ ThroughOf(Subs) >= t
  <2>1. ThroughOf(Subs) \in Ends /\ PaidThroughDate(s) <= ThroughOf(Subs)
    BY <1>1, ThroughIs
  <2> QED BY <1>3, <2>1, Calendar DEF Ends
<1> DEFINE Billed == \E u \in Subs, m \in Starts : Live(u, m) /\ Covers(u, m, t)
<1>6. FinanceBadge(t) = IF Billed THEN ByDate(ThroughOf(Subs), t) ELSE "no billing"
  <2>1. Active # {} /\ ThroughOf(Subs) > 0
    BY <1>1, <1>3, <1>5
  <2> QED BY <1>4, <2>1, Zenon DEF FinanceBadge
<1>7. ByDate(ThroughOf(Subs), t) = IF ThroughOf(Subs) = t THEN "due soon" ELSE "paid"
  BY <1>1, <1>5, DateNotPast
<1>8. ASSUME ThroughOf(Subs) # t PROVE ThroughOf(Subs \ Active) > t
  <2>1. PICK u \in Subs : PaidThroughDate(u) = ThroughOf(Subs)
    BY <1>1, <1>5, <1>8, ThroughIs
  <2>2. u \notin Active
    <3>1. u \in Active => PaidThroughDate(u) <= t
      BY <1>1, ThroughIs
    <3> QED BY <1>1, <1>5, <1>8, <2>1, <3>1
  <2>3. /\ ThroughOf(Subs \ Active) \in Ends
        /\ PaidThroughDate(u) <= ThroughOf(Subs \ Active)
    BY <2>2, ThroughIs
  <2> QED BY <1>1, <1>5, <1>8, <2>1, <2>3, Calendar DEF Ends
<1>9. ASSUME \A u \in Active : ~SaysMore(u)
      PROVE  PaidQueue(t) /\ Billed /\ SalesBadge(t) \in {"due soon", "paid"}
  <2>1. paidThrough[s] = t /\ s \in Subs
    BY <1>1, <1>3, <1>9, DateIs
  <2>2. PICK m \in Starts : period[s][m].status = "paid" /\ period[s][m].last = t
    <3>1. period[s] \in [Starts -> Period] /\ LastPaid(period[s]) = t
      BY <2>1 DEF Records, TypeOK, PaidThroughIsLastPaid
    <3> QED BY <1>1, <3>1, LastPaidIs
  <2>3. Covers(s, m, t) /\ Live(s, m) /\ period[s][m].invoice # None
    <3>1. m <= t
      BY <2>1, <2>2 DEF PeriodsRun
    <3>2. period[s][m].invoice # None
      BY <1>0, <2>1, <2>2 DEF PeriodsAgree, Agrees
    <3> QED BY <1>1, <2>2, <3>1, <3>2 DEF Covers, Live
  <2>4. StoredThroughOf \in Nat /\ StoredThroughOf >= t
    <3>1. StoredThroughOf \in Ends /\ paidThrough[s] <= StoredThroughOf
      BY <2>1, StoredIs
    <3> QED BY <2>1, <3>1, Calendar DEF Ends
  <2>5. SalesBadge(t) = ByDate(StoredThroughOf, t)
    <3>1. StoredThroughOf > 0
      BY <1>1, <2>4
    <3> QED BY <1>1, <3>1, Zenon DEF SalesBadge, AllClear
  <2>6. SalesBadge(t) \in {"due soon", "paid"}
    BY <1>1, <2>4, <2>5, DateNotPast
  <2>7. PaidQueue(t)
    BY <2>1, <2>2, <2>3 DEF PaidQueue, InQueue
  <2> QED BY <2>1, <2>3, <2>6, <2>7
<1> HIDE DEF Billed
<1>10. /\ FinanceBadge(t) \in {"due soon", "paid", "no billing"}
       /\ FinanceBadge(t) = "paid" => ThroughOf(Subs \ Active) > t
       /\ Billed => FinanceBadge(t) # "no billing"
  BY <1>6, <1>7, <1>8
<1> QED BY <1>2, <1>9, <1>10

LEMMA LinesStep ==
    ASSUME LinesTyped, TypeOK, Named, [WorkNext]_workVars
    PROVE  LinesTyped'
<1>1. ASSUME NEW q \in Requests, NEW j \in Invoices, Reissue(q, j) PROVE LinesTyped'
  <2>1. req[q].invoice \in Invoices
    BY <1>1, ReissueDoes DEF Reissue
  <2>2. said[req[q].invoice] \in {0} \cup Lengths
    BY <2>1 DEF LinesTyped
  <2> QED BY <1>1, <2>2 DEF Reissue, LinesTyped
<1>2. ASSUME NEW q \in Requests, NEW n \in Lengths \cup {0}, NEW st \in {"draft", "issued"},
             NEW months \in Lengths \cup {0}, EditLines(q, n, st, months)
      PROVE  LinesTyped'
  BY <1>2 DEF EditLines, LinesTyped
<1>3. CASE said' = said
  BY <1>3 DEF LinesTyped
<1> QED BY <1>1, <1>2, <1>3 DEF WorkNext, Renew, EndForChange, lineVars, workVars

LEMMA WorkIsNext == [WorkNext]_workVars => [Next]_vars
BY DEF WorkNext, Next, Renew, Reissue, EditLines, EndForChange, workVars

\* While requests do not overlap, the queues of a month do not send two people
\* after one customer, and finance and sales are told of the same debts and dates
\* but for drafts, invoices nothing is due on and lines that say more than their
\* period, for any calendar and any number of agreements: two of the three parts of
\* WorklistsAreTrue (customers/views.py).
THEOREM QueuesAndBadgesTrue ==
    ASSUME Overlap = FALSE PROVE WorkSpec => [](QueuesDoNotOverlap /\ BadgesAgree)
<1>1. WorkInit => Init /\ PeriodsRun /\ LinesTyped
  BY DEF WorkInit, Init, PeriodsRun, NoPeriod, LinesTyped
<1>2. SerialInv /\ PeriodsRun /\ [Next]_vars => PeriodsRun'
  <2> SUFFICES ASSUME SerialInv, PeriodsRun, [Next]_vars PROVE PeriodsRun'
    OBVIOUS
  <2>1. TypeOK /\ Named /\ PeriodsAgree
    BY TraceHalves DEF SerialInv, LinkInv
  <2> QED BY <2>1, RunStep DEF PeriodsAgree, Agrees
<1>3. SerialInv /\ LinesTyped /\ [WorkNext]_workVars => LinesTyped'
  BY LinesStep DEF SerialInv, LinkInv
<1>4. SerialInv /\ PeriodsRun /\ LinesTyped => QueuesDoNotOverlap /\ BadgesAgree
  BY TraceHalves, QueuesHold, BadgesHold DEF SerialInv, LinkInv, Records
<1>5. WorkSpec => []SerialInv
  BY <1>1, WorkIsNext, SerialInvariant, PTL DEF WorkSpec, Spec
<1> QED BY <1>1, <1>2, <1>3, <1>4, <1>5, WorkIsNext, PTL DEF WorkSpec
=============================================================================
