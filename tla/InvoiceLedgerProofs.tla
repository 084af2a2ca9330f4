------------------------ MODULE InvoiceLedgerProofs ------------------------
(***************************************************************************)
(* Proofs about InvoiceLedger for every set of ids and every total.         *)
(***************************************************************************)
EXTENDS InvoiceReceivable, SumsTheorems

LEMMA AmountsAreNat == Amounts \subseteq Nat /\ 0..(MaxTotal + Cent) \subseteq Nat
  BY Totals DEF Amounts, Cent

\* The total of a note is positive and differs from what was asked by a cent at most.
LEMMA NoteTotalsAre ==
    ASSUME NEW asked \in Amounts, NEW t \in NoteTotals(asked)
    PROVE  t \in 0..(MaxTotal + Cent) /\ t \in Nat /\ t > 0 /\ t <= asked + Cent
  BY Totals DEF Amounts, Cent, NoteTotals

-----------------------------------------------------------------------------
(* What one row more or less does to the sums over the rows.                *)

\* The sums are numbers.
LEMMA SumsAreNat ==
    ASSUME NEW i,
           NEW rs \in [Receipts -> ReceiptRow], NEW ns \in [Notes -> NoteRow]
    PROVE  Paid(rs, i) \in Nat /\ Credited(ns, i) \in Nat
<1> DEFINE R == ReceiptsOf(rs, i)
           N == NotesOf(ns, i)
           f == [r \in Receipts |-> rs[r].amount]
           g == [n \in Notes |-> ns[n].amount]
<1>1. R \subseteq Receipts /\ N \subseteq Notes
  BY DEF ReceiptsOf, NotesOf
<1>2. IsFiniteSet(R) /\ IsFiniteSet(N)
  BY <1>1, RowIds, FS_Subset
<1>3. (\A r \in R : f[r] \in Nat) /\ (\A n \in N : g[n] \in Nat)
  BY <1>1, AmountsAreNat DEF ReceiptRow, NoteRow
<1>4. SumOf(R, f) \in Nat /\ SumOf(N, g) \in Nat
  <2> HIDE DEF R, N, f, g
  <2> QED BY <1>2, <1>3, SumType
<1> QED
  BY <1>4 DEF Paid, Credited

\* A receipt adds its amount to its invoice and nothing to the others.
LEMMA ReceiptAdds ==
    ASSUME NEW rs \in [Receipts -> ReceiptRow], NEW r \in Receipts,
           rs[r].invoice = NoDoc,
           NEW qs \in [Receipts -> ReceiptRow],
           \A x \in Receipts : x # r => qs[x] = rs[x],
           NEW i \in Invoices, qs[r].invoice = i
    PROVE  /\ Paid(qs, i) = Paid(rs, i) + qs[r].amount
           /\ \A k \in Invoices : k # i => Paid(qs, k) = Paid(rs, k)
<1> DEFINE f == [x \in Receipts |-> rs[x].amount]
           g == [x \in Receipts |-> qs[x].amount]
<1>1. qs[r].invoice = i /\ \A x \in Receipts : x # r => qs[x] = rs[x]
  OBVIOUS
<1>2. \A k \in Invoices : k # i => ReceiptsOf(qs, k) = ReceiptsOf(rs, k)
                                   /\ r \notin ReceiptsOf(rs, k)
  BY <1>1, RowIds DEF ReceiptsOf
<1>3. ReceiptsOf(qs, i) = ReceiptsOf(rs, i) \cup {r} /\ r \notin ReceiptsOf(rs, i)
  BY <1>1, RowIds DEF ReceiptsOf
<1>4. \A k : IsFiniteSet(ReceiptsOf(rs, k)) /\ ReceiptsOf(rs, k) \subseteq Receipts
  <2> SUFFICES ASSUME NEW k
               PROVE  IsFiniteSet(ReceiptsOf(rs, k)) /\ ReceiptsOf(rs, k) \subseteq Receipts
    OBVIOUS
  <2>1. ReceiptsOf(rs, k) \subseteq Receipts
    BY DEF ReceiptsOf
  <2> QED BY <2>1, RowIds, FS_Subset
<1>5. \A x \in Receipts : x # r => f[x] = g[x]
  BY <1>1
<1>6. g[r] = qs[r].amount /\ \A x \in Receipts : g[x] \in Nat
  BY <1>1, AmountsAreNat DEF ReceiptRow
<1>7. \A k \in Invoices : k # i => SumOf(ReceiptsOf(qs, k), g) = SumOf(ReceiptsOf(rs, k), f)
  <2> SUFFICES ASSUME NEW k \in Invoices, k # i
               PROVE  SumOf(ReceiptsOf(qs, k), g) = SumOf(ReceiptsOf(rs, k), f)
    OBVIOUS
  <2>1. \A x \in ReceiptsOf(rs, k) : g[x] = f[x]
    BY <1>2, <1>4, <1>5
  <2> HIDE DEF f, g
  <2>2. SumOf(ReceiptsOf(rs, k), g) = SumOf(ReceiptsOf(rs, k), f)
    BY <2>1, SumAgree
  <2> QED BY <2>2, <1>2
<1>8. SumOf(ReceiptsOf(qs, i), g) = SumOf(ReceiptsOf(rs, i), f) + g[r]
  <2> DEFINE T == ReceiptsOf(qs, i)
  <2>1. /\ IsFiniteSet(T) /\ r \in T /\ T \ {r} = ReceiptsOf(rs, i)
        /\ \A y \in T : g[y] \in Nat
    BY <1>3, <1>4, <1>6, FS_AddElement
  <2>2. \A y \in ReceiptsOf(rs, i) : g[y] = f[y]
    BY <1>3, <1>4, <1>5
  <2> HIDE DEF f, g, T
  <2>3. SumOf(T, g) = SumOf(T \ {r}, g) + g[r]
    BY <2>1, SumRemove
  <2>4. SumOf(ReceiptsOf(rs, i), g) = SumOf(ReceiptsOf(rs, i), f)
    BY <2>2, SumAgree
  <2>5. SumOf(T, g) = SumOf(ReceiptsOf(rs, i), f) + g[r]
    BY <2>1, <2>3, <2>4
  <2> QED BY <2>5 DEF T
<1> QED
  BY <1>6, <1>7, <1>8 DEF Paid

\* An issued credit note adds its amount to its invoice only.
LEMMA NoteAdds ==
    ASSUME NEW ns \in [Notes -> NoteRow], NEW n \in Notes,
           ns[n].status # "issued",
           NEW ms \in [Notes -> NoteRow],
           \A x \in Notes : x # n => ms[x] = ns[x],
           NEW i \in Invoices, ms[n].invoice = i, ms[n].status = "issued"
    PROVE  /\ Credited(ms, i) = Credited(ns, i) + ms[n].amount
           /\ \A k \in Invoices : k # i => Credited(ms, k) = Credited(ns, k)
<1> DEFINE f == [x \in Notes |-> ns[x].amount]
           g == [x \in Notes |-> ms[x].amount]
<1>1. /\ ms[n].invoice = i /\ ms[n].status = "issued"
      /\ \A x \in Notes : x # n => ms[x] = ns[x]
  OBVIOUS
<1>2. \A k \in Invoices : k # i => NotesOf(ms, k) = NotesOf(ns, k)
                                   /\ n \notin NotesOf(ns, k)
  BY <1>1 DEF NotesOf
<1>3. NotesOf(ms, i) = NotesOf(ns, i) \cup {n} /\ n \notin NotesOf(ns, i)
  BY <1>1 DEF NotesOf
<1>4. \A k : IsFiniteSet(NotesOf(ns, k)) /\ NotesOf(ns, k) \subseteq Notes
  <2> SUFFICES ASSUME NEW k
               PROVE  IsFiniteSet(NotesOf(ns, k)) /\ NotesOf(ns, k) \subseteq Notes
    OBVIOUS
  <2>1. NotesOf(ns, k) \subseteq Notes
    BY DEF NotesOf
  <2> QED BY <2>1, RowIds, FS_Subset
<1>5. \A x \in Notes : x # n => f[x] = g[x]
  BY <1>1
<1>6. g[n] = ms[n].amount /\ \A x \in Notes : g[x] \in Nat
  BY <1>1, AmountsAreNat DEF NoteRow
<1>7. \A k \in Invoices : k # i => SumOf(NotesOf(ms, k), g) = SumOf(NotesOf(ns, k), f)
  <2> SUFFICES ASSUME NEW k \in Invoices, k # i
               PROVE  SumOf(NotesOf(ms, k), g) = SumOf(NotesOf(ns, k), f)
    OBVIOUS
  <2>1. \A x \in NotesOf(ns, k) : g[x] = f[x]
    BY <1>2, <1>4, <1>5
  <2> HIDE DEF f, g
  <2>2. SumOf(NotesOf(ns, k), g) = SumOf(NotesOf(ns, k), f)
    BY <2>1, SumAgree
  <2> QED BY <2>2, <1>2
<1>8. SumOf(NotesOf(ms, i), g) = SumOf(NotesOf(ns, i), f) + g[n]
  <2> DEFINE T == NotesOf(ms, i)
  <2>1. /\ IsFiniteSet(T) /\ n \in T /\ T \ {n} = NotesOf(ns, i)
        /\ \A y \in T : g[y] \in Nat
    BY <1>3, <1>4, <1>6, FS_AddElement
  <2>2. \A y \in NotesOf(ns, i) : g[y] = f[y]
    BY <1>3, <1>4, <1>5
  <2> HIDE DEF f, g, T
  <2>3. SumOf(T, g) = SumOf(T \ {n}, g) + g[n]
    BY <2>1, SumRemove
  <2>4. SumOf(NotesOf(ns, i), g) = SumOf(NotesOf(ns, i), f)
    BY <2>2, SumAgree
  <2>5. SumOf(T, g) = SumOf(NotesOf(ns, i), f) + g[n]
    BY <2>1, <2>3, <2>4
  <2> QED BY <2>5 DEF T
<1> QED
  BY <1>6, <1>7, <1>8 DEF Credited

\* Voiding a credit note takes its amount from its invoice only.
LEMMA NoteVoids ==
    ASSUME NEW ns \in [Notes -> NoteRow], NEW n \in Notes,
           ns[n].status = "issued",
           NEW ms \in [Notes -> NoteRow], ms[n].status # "issued",
           \A x \in Notes : ms[x].amount = ns[x].amount,
           \A x \in Notes : x # n => ms[x] = ns[x]
    PROVE  /\ Credited(ns, ns[n].invoice) = Credited(ms, ns[n].invoice) + ns[n].amount
           /\ \A k : k # ns[n].invoice => Credited(ms, k) = Credited(ns, k)
<1> DEFINE f == [x \in Notes |-> ns[x].amount]
           g == [x \in Notes |-> ms[x].amount]
           i == ns[n].invoice
<1>1. /\ ms[n].status # "issued"
      /\ \A x \in Notes : ms[x].amount = ns[x].amount
      /\ \A x \in Notes : x # n => ms[x] = ns[x]
  OBVIOUS
<1>2. \A k : k # i => NotesOf(ms, k) = NotesOf(ns, k)
  BY <1>1 DEF NotesOf
<1>3. NotesOf(ms, i) = NotesOf(ns, i) \ {n} /\ n \in NotesOf(ns, i)
  BY <1>1 DEF NotesOf
<1>4. IsFiniteSet(NotesOf(ns, i)) /\ NotesOf(ns, i) \subseteq Notes
  <2>1. NotesOf(ns, i) \subseteq Notes
    BY DEF NotesOf
  <2> QED BY <2>1, RowIds, FS_Subset
<1>5. f = g
  BY <1>1
<1>6. f[n] = ns[n].amount /\ \A x \in Notes : f[x] \in Nat
  BY AmountsAreNat DEF NoteRow
<1>7. SumOf(NotesOf(ns, i), f) = SumOf(NotesOf(ns, i) \ {n}, f) + f[n]
  <2>1. \A x \in NotesOf(ns, i) : f[x] \in Nat
    BY <1>4, <1>6
  <2> HIDE DEF f, i
  <2> QED BY <2>1, <1>3, <1>4, SumRemove
<1> QED
  BY <1>1, <1>2, <1>3, <1>5, <1>6, <1>7 DEF Credited

-----------------------------------------------------------------------------
(* Type correctness.  TypeOK is inductive as it stands.                     *)

LEMMA TypeInit == Init => TypeOK
<1> SUFFICES ASSUME Init PROVE TypeOK
  OBVIOUS
<1>1. 0 \in Amounts /\ 0 \in 0..(MaxTotal + Cent)
  BY Totals DEF Amounts, Cent
<1> QED
  BY <1>1 DEF Init, TypeOK, InvoiceStatus, ReceiptRow, NoteRow, Request,
              NoReceipt, NoNote, Idle

LEMMA TypeStep == TypeOK /\ [Next]_vars => TypeOK'
<1> SUFFICES ASSUME TypeOK, [Next]_vars PROVE TypeOK'
  OBVIOUS
<1> USE DEF TypeOK, InvoiceStatus
<1>1. ASSUME NEW i \in Invoices, NEW t \in Amounts, NEW st \in {"draft", "issued"},
             NEW b \in BOOLEAN, CreateInvoice(i, t, st, b)
      PROVE  TypeOK'
  BY <1>1 DEF CreateInvoice, EnsuredSale
<1>2. ASSUME NEW i \in Invoices, NEW t \in Amounts, NEW old \in Invoices \cup {NoDoc},
      CreatePeriodInvoice(i, t, old)
      PROVE  TypeOK'
  BY <1>2 DEF CreatePeriodInvoice
<1>2a. ASSUME NEW old \in Invoices, ReopenPeriod(old)
       PROVE  TypeOK'
  BY <1>2a DEF ReopenPeriod
<1>3. ASSUME NEW q \in Requests, NEW i \in Invoices, CheckDraftEdit(q, i)
      PROVE  TypeOK'
  BY <1>3 DEF CheckDraftEdit, Request
<1>4. ASSUME NEW q \in Requests, NEW t \in Amounts, NEW st \in {"draft", "issued"},
             NEW b \in BOOLEAN, WriteDraftEdit(q, t, st, b)
      PROVE  TypeOK'
  BY <1>4 DEF WriteDraftEdit, Request, Idle
<1>5. ASSUME NEW q \in Requests, AbandonRequest(q)
      PROVE  TypeOK'
  BY <1>5 DEF AbandonRequest, Request, Idle
<1>6. ASSUME NEW i \in Invoices, VoidInvoice(i)
      PROVE  TypeOK'
  BY <1>6 DEF VoidInvoice
<1>7. ASSUME NEW i \in Invoices, VoidSubscriptionInvoice(i)
      PROVE  TypeOK'
  BY <1>7 DEF VoidSubscriptionInvoice
<1>8. ASSUME NEW q \in Requests, NEW i \in Invoices, CheckReissue(q, i)
      PROVE  TypeOK'
  BY <1>8 DEF CheckReissue, Request
<1>9. ASSUME NEW q \in Requests, NEW j \in Invoices, NEW t \in Amounts, WriteReissue(q, j, t)
      PROVE  TypeOK'
  <2>1. req[q].invoice \in Invoices \cup {NoDoc} /\ req[q].lines \in BOOLEAN
    BY DEF Request
  <2> QED BY <1>9, <2>1 DEF WriteReissue, EnsuredSale, Request, Idle
<1>10. ASSUME NEW n \in Notes, NEW i \in Invoices, NEW asked \in Amounts,
              NEW a \in NoteTotals(asked), CreateCreditNote(n, i, asked, a)
       PROVE  TypeOK'
  BY <1>10, NoteTotalsAre DEF CreateCreditNote, SyncAfterCredit, SettledStatus, SettledPeriod, NoteRow
<1>11. ASSUME NEW n \in Notes, VoidCreditNote(n)
       PROVE  TypeOK'
  BY <1>11, ZenonT(60) DEF VoidCreditNote, SyncAfterCredit, SettledStatus, SettledPeriod, NoteRow
<1>12. ASSUME NEW r \in Receipts, NEW i \in Invoices, NEW a \in Amounts,
              NEW ref \in Refs \cup {NoRef}, RegisterPayment(r, i, a, ref)
       PROVE  TypeOK'
  BY <1>12 DEF RegisterPayment, CompletedSale, ReceiptRow
<1>13. CASE UNCHANGED vars
  BY <1>13 DEF vars
<1> QED
  BY <1>1, <1>2, <1>2a, <1>3, <1>4, <1>5, <1>6, <1>7, <1>8, <1>9, <1>10, <1>11, <1>12, <1>13 DEF Next

\* Every variable of the invoice ledger keeps its type.
THEOREM TypeCorrect == Spec => []TypeOK
  BY TypeInit, TypeStep, PTL DEF Spec

-----------------------------------------------------------------------------
(* What holds however requests interleave.                                  *)

\* The statuses are earned: the invariant of overlapping requests.
Earned == VoidCarriesNoMoney /\ SettlementStatusIsEarned
OverlapInv == TypeOK /\ Earned

\* Nothing is paid or credited before there are rows.
LEMMA NoRowsNoMoney ==
    ASSUME Init
    PROVE  \A i \in Invoices : Paid(receipts, i) = 0 /\ Credited(notes, i) = 0
<1> SUFFICES ASSUME NEW i \in Invoices
             PROVE  Paid(receipts, i) = 0 /\ Credited(notes, i) = 0
  OBVIOUS
<1>1. ReceiptsOf(receipts, i) = {} /\ NotesOf(notes, i) = {}
  BY RowIds DEF Init, ReceiptsOf, NotesOf, NoReceipt, NoNote
<1> QED
  BY <1>1, SumEmpty DEF Paid, Credited

\* An amount up to the balance leaves the balance that much smaller.
LEMMA BalanceIs ==
    ASSUME TypeOK, NEW i \in Invoices
    PROVE  /\ Paid(receipts, i) \in Nat /\ Credited(notes, i) \in Nat /\ total[i] \in Nat
           /\ Balance(i) \in Nat
           /\ Balance(i) > 0 => Balance(i) = total[i] - Paid(receipts, i) - Credited(notes, i)
           /\ Balance(i) = 0 => total[i] <= Paid(receipts, i) + Credited(notes, i)
<1>1. Paid(receipts, i) \in Nat /\ Credited(notes, i) \in Nat
  BY SumsAreNat DEF TypeOK
<1>2. total[i] \in Nat
  BY AmountsAreNat DEF TypeOK
<1> QED
  BY <1>1, <1>2 DEF Balance, Remaining

\* The same of the next state.
LEMMA MoneyAfter ==
    ASSUME TypeOK', NEW i \in Invoices
    PROVE  /\ Paid(receipts', i) \in Nat /\ Credited(notes', i) \in Nat
           /\ total'[i] \in Nat /\ Balance(i)' \in Nat
<1>1. receipts' \in [Receipts -> ReceiptRow] /\ notes' \in [Notes -> NoteRow]
  BY DEF TypeOK
<1>2. Paid(receipts', i) \in Nat /\ Credited(notes', i) \in Nat
  BY <1>1, SumsAreNat
<1>3. total'[i] \in Nat
  BY AmountsAreNat DEF TypeOK
<1> QED
  BY <1>2, <1>3 DEF Balance, Remaining

\* The step of a payment: rows, sums and balances of every invoice.
LEMMA PaymentEffect ==
    ASSUME TypeOK, NEW r \in Receipts, NEW i \in Invoices, NEW a \in Amounts,
           NEW ref \in Refs \cup {NoRef}, RegisterPayment(r, i, a, ref)
    PROVE  /\ Paid(receipts', i) = Paid(receipts, i) + a
           /\ \A k \in Invoices : k # i => Paid(receipts', k) = Paid(receipts, k)
           /\ notes' = notes /\ total' = total
           /\ a \in Nat /\ a > 0 /\ Balance(i) - a >= 0
           /\ Balance(i) = total[i] - Paid(receipts, i) - Credited(notes, i)
           /\ Balance(i)' = Balance(i) - a
           /\ \A k \in Invoices : k # i => Balance(k)' = Balance(k)
<1>1. receipts[r].invoice = NoDoc /\ receipts \in [Receipts -> ReceiptRow]
  BY DEF TypeOK, RegisterPayment, NoReceipt
<1>2. /\ Paid(receipts', i) = Paid(receipts, i) + a
      /\ \A k \in Invoices : k # i => Paid(receipts', k) = Paid(receipts, k)
  <2>1. /\ receipts' \in [Receipts -> ReceiptRow]
        /\ \A x \in Receipts : x # r => receipts'[x] = receipts[x]
        /\ receipts'[r].invoice = i /\ receipts'[r].amount = a
    BY <1>1 DEF RegisterPayment, ReceiptRow
  <2> QED BY <1>1, <2>1, ReceiptAdds
<1>3. notes' = notes /\ total' = total /\ a \in Nat /\ a > 0 /\ Balance(i) - a >= 0
  BY AmountsAreNat DEF RegisterPayment, PaymentAllowed
<1>4. Balance(i) = total[i] - Paid(receipts, i) - Credited(notes, i)
  BY <1>3, BalanceIs
<1>5. Balance(i)' = Balance(i) - a
  BY <1>2, <1>3, <1>4, BalanceIs DEF Balance, Remaining
<1>6. \A k \in Invoices : k # i => Balance(k)' = Balance(k)
  BY <1>2, <1>3 DEF Balance, Remaining
<1> QED
  BY <1>2, <1>3, <1>4, <1>5, <1>6

\* The step of a new credit note.
LEMMA CreditEffect ==
    ASSUME TypeOK, NEW n \in Notes, NEW i \in Invoices, NEW asked \in Amounts,
              NEW a \in NoteTotals(asked), CreateCreditNote(n, i, asked, a)
    PROVE  /\ Credited(notes', i) = Credited(notes, i) + a
           /\ \A k \in Invoices : k # i => Credited(notes', k) = Credited(notes, k)
           /\ receipts' = receipts /\ total' = total
           /\ a \in Nat /\ a > 0 /\ a <= Balance(i) + Cent
           /\ Balance(i) = total[i] - Paid(receipts, i) - Credited(notes, i)
           /\ \A k \in Invoices : k # i => Balance(k)' = Balance(k)
<1>1. notes[n].status # "issued" /\ notes \in [Notes -> NoteRow]
  BY DEF TypeOK, CreateCreditNote, NoNote
<1>2. /\ Credited(notes', i) = Credited(notes, i) + a
      /\ \A k \in Invoices : k # i => Credited(notes', k) = Credited(notes, k)
  <2>1. /\ notes' \in [Notes -> NoteRow]
        /\ \A x \in Notes : x # n => notes'[x] = notes[x]
        /\ notes'[n].invoice = i /\ notes'[n].amount = a /\ notes'[n].status = "issued"
    BY <1>1, NoteTotalsAre DEF CreateCreditNote, SyncAfterCredit, NoteRow
  <2> QED BY <1>1, <2>1, NoteAdds
<1>3. receipts' = receipts /\ total' = total /\ a \in Nat /\ a > 0 /\ a <= asked + Cent
  BY NoteTotalsAre DEF CreateCreditNote
<1>4. asked \in Nat /\ asked > 0 /\ asked <= Balance(i)
  BY AmountsAreNat DEF CreateCreditNote
<1>6. Balance(i) = total[i] - Paid(receipts, i) - Credited(notes, i) /\ Balance(i) \in Nat
  BY <1>4, BalanceIs
<1>7. a <= Balance(i) + Cent
  BY <1>3, <1>4, <1>6 DEF Cent
<1>5. \A k \in Invoices : k # i => Balance(k)' = Balance(k)
  BY <1>2, <1>3 DEF Balance, Remaining
<1> QED
  BY <1>2, <1>3, <1>5, <1>6, <1>7

\* The step of a voided credit note.
LEMMA VoidCreditEffect ==
    ASSUME TypeOK, NEW n \in Notes, VoidCreditNote(n)
    PROVE  /\ Credited(notes, notes[n].invoice)
                = Credited(notes', notes[n].invoice) + notes[n].amount
           /\ \A k \in Invoices : k # notes[n].invoice =>
                  Credited(notes', k) = Credited(notes, k) /\ Balance(k)' = Balance(k)
           /\ receipts' = receipts /\ total' = total
           /\ notes[n].amount \in Nat /\ notes[n].invoice \in Invoices \cup {NoDoc}
<1>1. notes[n].status = "issued" /\ notes \in [Notes -> NoteRow]
  BY DEF TypeOK, VoidCreditNote
<1>2. /\ Credited(notes, notes[n].invoice)
           = Credited(notes', notes[n].invoice) + notes[n].amount
      /\ \A k : k # notes[n].invoice => Credited(notes', k) = Credited(notes, k)
  <2>1. /\ notes' \in [Notes -> NoteRow]
        /\ \A x \in Notes : notes'[x].amount = notes[x].amount
        /\ \A x \in Notes : x # n => notes'[x] = notes[x]
        /\ notes'[n].status # "issued"
    BY <1>1 DEF VoidCreditNote, SyncAfterCredit, NoteRow
  <2> QED BY <1>1, <2>1, NoteVoids
<1>3. receipts' = receipts /\ total' = total
  BY DEF VoidCreditNote
<1>4. notes[n].amount \in Nat /\ notes[n].invoice \in Invoices \cup {NoDoc}
  BY <1>1, AmountsAreNat DEF NoteRow
<1> QED
  BY <1>2, <1>3, <1>4 DEF Balance, Remaining

LEMMA OverlapInit == Init => OverlapInv
<1> SUFFICES ASSUME Init PROVE OverlapInv
  OBVIOUS
<1>1. TypeOK
  BY TypeInit
<1>2. VoidCarriesNoMoney /\ SettlementStatusIsEarned
  BY DEF Init, VoidCarriesNoMoney, SettlementStatusIsEarned
<1> QED
  BY <1>1, <1>2 DEF OverlapInv, Earned

\* A step that moves no money keeps both parts when it leaves the total and
\* the status of every invoice alone, or gives it a status no money earns.
LEMMA NoMoneyStep ==
    ASSUME OverlapInv, UNCHANGED <<receipts, notes>>,
           \A k \in Invoices :
               \/ status'[k] = status[k] /\ total'[k] = total[k]
               \/ status'[k] \in {"absent", "draft", "issued", "superseded"}
               \/ status'[k] = "void" /\ Untouched(k)
    PROVE  Earned'
<1>1. \A k \in Invoices : /\ Paid(receipts', k) = Paid(receipts, k)
                          /\ Credited(notes', k) = Credited(notes, k)
                          /\ total'[k] = total[k] => Balance(k)' = Balance(k)
  BY DEF Balance, Remaining
<1> QED
  BY <1>1 DEF OverlapInv, Earned, VoidCarriesNoMoney, SettlementStatusIsEarned, Untouched

LEMMA OverlapStep == OverlapInv /\ [Next]_vars => OverlapInv'
<1> SUFFICES ASSUME OverlapInv, [Next]_vars PROVE OverlapInv'
  OBVIOUS
<1>0. TypeOK /\ TypeOK'
  BY TypeStep DEF OverlapInv
<1>a. status \in [Invoices -> InvoiceStatus] /\ total \in [Invoices -> Amounts]
  BY <1>0 DEF TypeOK
<1>1. ASSUME NEW i \in Invoices, NEW t \in Amounts, NEW st \in {"draft", "issued"},
             NEW b \in BOOLEAN, CreateInvoice(i, t, st, b)
      PROVE  Earned'
  BY <1>1, <1>a, NoMoneyStep DEF CreateInvoice
<1>2. ASSUME NEW i \in Invoices, NEW t \in Amounts, NEW old \in Invoices \cup {NoDoc},
      CreatePeriodInvoice(i, t, old)
      PROVE  Earned'
  BY <1>2, <1>a, NoMoneyStep DEF CreatePeriodInvoice
<1>2a. ASSUME NEW old \in Invoices, ReopenPeriod(old)
       PROVE  Earned'
  BY <1>2a, NoMoneyStep DEF ReopenPeriod
<1>3. ASSUME NEW q \in Requests, NEW i \in Invoices, CheckDraftEdit(q, i)
      PROVE  Earned'
  BY <1>3, NoMoneyStep DEF CheckDraftEdit
<1>4. ASSUME NEW q \in Requests, NEW t \in Amounts, NEW st \in {"draft", "issued"},
             NEW b \in BOOLEAN, WriteDraftEdit(q, t, st, b)
      PROVE  Earned'
  BY <1>4, <1>a, NoMoneyStep DEF WriteDraftEdit
<1>5. ASSUME NEW q \in Requests, AbandonRequest(q)
      PROVE  Earned'
  BY <1>5, NoMoneyStep DEF AbandonRequest
<1>6. ASSUME NEW i \in Invoices, VoidInvoice(i)
      PROVE  Earned'
  BY <1>6, <1>a, NoMoneyStep DEF VoidInvoice, CanVoid
<1>7. ASSUME NEW i \in Invoices, VoidSubscriptionInvoice(i)
      PROVE  Earned'
  BY <1>7, <1>a, NoMoneyStep DEF VoidSubscriptionInvoice, CanVoid
<1>8. ASSUME NEW q \in Requests, NEW i \in Invoices, CheckReissue(q, i)
      PROVE  Earned'
  BY <1>8, NoMoneyStep DEF CheckReissue
<1>9. ASSUME NEW q \in Requests, NEW j \in Invoices, NEW t \in Amounts, WriteReissue(q, j, t)
      PROVE  Earned'
  BY <1>9, <1>a, NoMoneyStep DEF WriteReissue
<1>10. ASSUME NEW n \in Notes, NEW i \in Invoices, NEW asked \in Amounts,
              NEW a \in NoteTotals(asked), CreateCreditNote(n, i, asked, a)
       PROVE  Earned'
  <2>1. status[i] # "void" /\ \A k \in Invoices : k # i => status'[k] = status[k]
    BY <1>10, <1>a DEF CreateCreditNote, CanCreateCreditNote, SyncAfterCredit
  <2>2. status'[i] = SettledStatus(receipts, notes', i) /\ receipts' = receipts
        /\ total' = total
    BY <1>10, <1>a DEF CreateCreditNote, SyncAfterCredit
  <2>3. \A k \in Invoices : k # i => Balance(k)' = Balance(k)
                                     /\ Credited(notes', k) = Credited(notes, k)
    BY <1>0, <1>10, CreditEffect
  <2>4. Balance(i)' = Remaining(receipts, notes', i)
    BY <2>2 DEF Balance, Remaining
  <2>5. Paid(receipts', i) \in Nat /\ Balance(i)' \in Nat
    BY <1>0, MoneyAfter
  <2> QED BY <2>1, <2>2, <2>3, <2>4, <2>5
          DEF OverlapInv, Earned, VoidCarriesNoMoney, SettlementStatusIsEarned, SettledStatus
<1>11. ASSUME NEW n \in Notes, VoidCreditNote(n)
       PROVE  Earned'
  <2> SUFFICES ASSUME NEW k \in Invoices
               PROVE  /\ status'[k] = "void" =>
                            Paid(receipts', k) = 0 /\ Credited(notes', k) = 0
                      /\ status'[k] = "paid" => Balance(k)' = 0
                      /\ status'[k] = "partially_paid" =>
                            Paid(receipts', k) > 0 /\ Balance(k)' > 0
    BY DEF Earned, VoidCarriesNoMoney, SettlementStatusIsEarned
  <2>1. CASE k = notes[n].invoice
    <3>1. status'[k] = SettledStatus(receipts, notes', k)
          /\ receipts' = receipts /\ total' = total
      BY <1>11, <1>a, <2>1 DEF VoidCreditNote, SyncAfterCredit
    <3>2. Balance(k)' = Remaining(receipts, notes', k)
      BY <3>1 DEF Balance, Remaining
    <3>3. Paid(receipts', k) \in Nat /\ Balance(k)' \in Nat
      BY <1>0, MoneyAfter
    <3> QED BY <3>1, <3>2, <3>3 DEF SettledStatus
  <2>2. CASE k # notes[n].invoice
    <3>1. status'[k] = status[k] /\ receipts' = receipts
      BY <1>11, <1>a, <2>2 DEF VoidCreditNote, SyncAfterCredit
    <3>2. Balance(k)' = Balance(k) /\ Credited(notes', k) = Credited(notes, k)
      BY <1>0, <1>11, <2>2, VoidCreditEffect
    <3> QED BY <3>1, <3>2
            DEF OverlapInv, Earned, VoidCarriesNoMoney, SettlementStatusIsEarned
  <2> QED BY <2>1, <2>2
<1>12. ASSUME NEW r \in Receipts, NEW i \in Invoices, NEW a \in Amounts,
              NEW ref \in Refs \cup {NoRef}, RegisterPayment(r, i, a, ref)
       PROVE  Earned'
  <2>1. status[i] # "void" /\ \A k \in Invoices : k # i => status'[k] = status[k]
    BY <1>12, <1>a DEF RegisterPayment, CanRegisterPayment
  <2>2. status'[i] = IF Balance(i) - a > 0 THEN "partially_paid" ELSE "paid"
    BY <1>12, <1>a DEF RegisterPayment
  <2>3. /\ Paid(receipts', i) = Paid(receipts, i) + a /\ a \in Nat /\ a > 0
        /\ Balance(i)' = Balance(i) - a /\ Balance(i) - a >= 0 /\ notes' = notes
        /\ \A k \in Invoices : k # i => /\ Balance(k)' = Balance(k)
                                        /\ Paid(receipts', k) = Paid(receipts, k)
    BY <1>0, <1>12, PaymentEffect
  <2>4. Paid(receipts, i) \in Nat /\ Balance(i) \in Nat
    BY <1>0, BalanceIs
  <2> QED BY <2>1, <2>2, <2>3, <2>4
          DEF OverlapInv, Earned, VoidCarriesNoMoney, SettlementStatusIsEarned
<1>13. ASSUME UNCHANGED vars PROVE Earned'
  BY <1>13, NoMoneyStep DEF vars
<1>14. Earned'
  BY <1>1, <1>2, <1>2a, <1>3, <1>4, <1>5, <1>6, <1>7, <1>8, <1>9, <1>10, <1>11,
     <1>12, <1>13 DEF Next
<1> QED
  BY <1>0, <1>14 DEF OverlapInv

\* No interleaving of payments, credit notes, voids, reissues and stale draft
\* edits leaves money on a void invoice.
THEOREM VoidIsClean == Spec => []VoidCarriesNoMoney
<1>1. OverlapInv => VoidCarriesNoMoney
  BY DEF OverlapInv, Earned
<1> QED
  BY <1>1, OverlapInit, OverlapStep, PTL DEF Spec

\* Nor does any mark an invoice paid that still has something to pay.
THEOREM PaidIsEarned == Spec => []SettlementStatusIsEarned
<1>1. OverlapInv => SettlementStatusIsEarned
  BY DEF OverlapInv, Earned
<1> QED
  BY <1>1, OverlapInit, OverlapStep, PTL DEF Spec

\* Stock leaves only with the payment that settles the invoice: no other step
\* of any interleaving deducts it.
THEOREM StockWaitsForPayment == Spec => StockLeavesOnFullPayment
<1> DEFINE Step == \A i \in Invoices : sale'[i] = "deducted" /\ sale[i] # "deducted" =>
                       status'[i] = "paid" /\ Balance(i)' = 0
<1>1. ASSUME TypeOK, [Next]_vars PROVE [Step]_vars
  <2> SUFFICES ASSUME NEW i \in Invoices, sale'[i] = "deducted", sale[i] # "deducted",
                      UNCHANGED vars \/ Next
               PROVE  status'[i] = "paid" /\ Balance(i)' = 0
    BY <1>1
  <2>a. sale \in [Invoices -> {"none", "open", "deducted"}]
        /\ status \in [Invoices -> InvoiceStatus]
    BY <1>1 DEF TypeOK
  <2>1. ASSUME sale' = sale PROVE FALSE
    BY <2>1
  <2>2. ASSUME NEW k \in Invoices, NEW b, sale' = [sale EXCEPT ![k] = EnsuredSale(@, b)]
        PROVE  FALSE
    BY <2>2, <2>a DEF EnsuredSale
  <2>3. \E r \in Receipts, k \in Invoices, a \in Amounts, ref \in Refs \cup {NoRef} :
            RegisterPayment(r, k, a, ref)
    BY <2>1, <2>2 DEF vars, Next, CreateInvoice, CreatePeriodInvoice, ReopenPeriod, CheckDraftEdit,
       WriteDraftEdit, AbandonRequest, VoidInvoice, VoidSubscriptionInvoice, CheckReissue,
       WriteReissue, CreateCreditNote, VoidCreditNote
  <2>4. PICK r \in Receipts, k \in Invoices, a \in Amounts, ref \in Refs \cup {NoRef} :
            RegisterPayment(r, k, a, ref)
    BY <2>3
  <2>5. k = i /\ Balance(k) - a = 0 /\ status'[k] = "paid"
    BY <2>4, <2>a DEF RegisterPayment, PaymentAllowed
  <2>6. Balance(k)' = Balance(k) - a
    BY <1>1, <2>4, PaymentEffect
  <2> QED BY <2>5, <2>6
<1> QED
  BY <1>1, TypeInit, TypeStep, PTL DEF Spec, StockLeavesOnFullPayment

-----------------------------------------------------------------------------
(* What holds of requests that do not overlap.                              *)

\* At most one request is held between its check and its write, and what it
\* checked is still true; drafts carry no money; issued notes are worth it.
Exclusive == \A p, q \in Requests : req[p] # Idle /\ req[q] # Idle => p = q
HeldIsFresh ==
    \A q \in Requests :
        /\ req[q].op = "edit" => req[q].invoice \in Invoices
                                 /\ status[req[q].invoice] = "draft"
        /\ req[q].op = "reissue" => req[q].invoice \in Invoices
                                    /\ CanReissue(req[q].invoice)
DraftsCarryNoMoney ==
    \A i \in Invoices : status[i] \in {"absent", "draft"} =>
        Paid(receipts, i) = 0 /\ Credited(notes, i) = 0
SerialInv ==
    /\ TypeOK /\ NoOverSettlement /\ DraftsCarryNoMoney
    /\ Exclusive /\ HeldIsFresh

LEMMA SerialInit == Init => SerialInv
<1> SUFFICES ASSUME Init PROVE SerialInv
  OBVIOUS
<1>1. TypeOK /\ DraftsCarryNoMoney
  BY TypeInit, NoRowsNoMoney DEF DraftsCarryNoMoney
<1>2. NoOverSettlement
  <2>1. \A i \in Invoices : total[i] = 0
    BY DEF Init
  <2>2. \A i \in Invoices : Paid(receipts, i) = 0 /\ Credited(notes, i) = 0
    BY NoRowsNoMoney
  <2> QED BY <2>1, <2>2 DEF NoOverSettlement, Cent
<1>3. Exclusive /\ HeldIsFresh
  BY DEF Init, Idle, Exclusive, HeldIsFresh
<1> QED
  BY <1>1, <1>2, <1>3 DEF SerialInv

\* A step that moves no money keeps the sums within the totals when it only
\* revises the total of invoices that carry none.
LEMMA SerialNoMoney ==
    ASSUME SerialInv, TypeOK', UNCHANGED <<receipts, notes>>,
           \A k \in Invoices :
               /\ total'[k] = total[k] \/ status[k] \in {"absent", "draft"}
               /\ status'[k] \in {"absent", "draft"} => status[k] \in {"absent", "draft"}
    PROVE  NoOverSettlement' /\ DraftsCarryNoMoney'
<1>1. \A k \in Invoices : total'[k] \in Nat
  BY MoneyAfter
<1>2. DraftsCarryNoMoney'
  BY DEF SerialInv, DraftsCarryNoMoney
<1>3. ASSUME NEW k \in Invoices
      PROVE  /\ Paid(receipts', k) <= total'[k]
             /\ Paid(receipts', k) + Credited(notes', k) <= total'[k] + Cent
  <2>1. CASE total'[k] = total[k]
    BY <2>1 DEF SerialInv, NoOverSettlement
  <2>2. CASE status[k] \in {"absent", "draft"}
    BY <1>1, <2>2 DEF SerialInv, DraftsCarryNoMoney, Cent
  <2> QED BY <2>1, <2>2
<1> QED
  BY <1>2, <1>3 DEF NoOverSettlement

LEMMA AllIdle ==
    ASSUME \A p \in Requests : req'[p] = Idle
    PROVE  Exclusive' /\ HeldIsFresh'
<1>1. Exclusive'
  BY DEF Exclusive
<1>2. \A p \in Requests : req'[p].op = "idle"
  BY DEF Idle
<1>3. HeldIsFresh'
  BY <1>2 DEF HeldIsFresh
<1> QED
  BY <1>1, <1>3

\* A step of a request that writes or gives up leaves every request idle.
LEMMA HeldDone ==
    ASSUME SerialInv, NEW q \in Requests, req[q] # Idle,
           req' = [req EXCEPT ![q] = Idle]
    PROVE  Exclusive' /\ HeldIsFresh'
<1>1. \A p \in Requests : req'[p] = Idle
  BY DEF SerialInv, Exclusive, TypeOK
<1> QED
  BY <1>1, AllIdle

\* A step of a request that holds nothing keeps every request idle.
LEMMA NoneHeld ==
    ASSUME Overlap = FALSE, Quiet, req' = req
    PROVE  Exclusive' /\ HeldIsFresh'
<1>1. \A p \in Requests : req'[p] = Idle
  BY DEF Quiet
<1> QED
  BY <1>1, AllIdle

\* The four parts of SerialInv that a step has to keep besides the types.
LEMMA SerialStep ==
    ASSUME Overlap = FALSE, SerialInv, [Next]_vars
    PROVE  SerialInv'
<1> DEFINE Sums1 == NoOverSettlement /\ DraftsCarryNoMoney
           Held1 == Exclusive /\ HeldIsFresh
<1>0. TypeOK /\ TypeOK'
  BY TypeStep DEF SerialInv
<1>a. /\ status \in [Invoices -> InvoiceStatus] /\ total \in [Invoices -> Amounts]
      /\ req \in [Requests -> Request]
  BY <1>0 DEF TypeOK
<1>1. ASSUME NEW i \in Invoices, NEW t \in Amounts, NEW st \in {"draft", "issued"},
             NEW b \in BOOLEAN, CreateInvoice(i, t, st, b)
      PROVE  Sums1' /\ Held1'
  BY <1>0, <1>1, <1>a, SerialNoMoney, NoneHeld DEF CreateInvoice
<1>2. ASSUME NEW i \in Invoices, NEW t \in Amounts, NEW old \in Invoices \cup {NoDoc},
      CreatePeriodInvoice(i, t, old)
      PROVE  Sums1' /\ Held1'
  BY <1>0, <1>2, <1>a, SerialNoMoney, NoneHeld DEF CreatePeriodInvoice
<1>2a. ASSUME NEW old \in Invoices, ReopenPeriod(old)
       PROVE  Sums1' /\ Held1'
  BY <1>0, <1>2a, SerialNoMoney, NoneHeld DEF ReopenPeriod
<1>3. ASSUME NEW q \in Requests, NEW i \in Invoices, CheckDraftEdit(q, i)
      PROVE  Sums1' /\ Held1'
  <2>1. Sums1'
    BY <1>0, <1>3, SerialNoMoney DEF CheckDraftEdit
  <2>2. \A p \in Requests : req'[p] = IF p = q THEN [op |-> "edit", invoice |-> i, lines |-> FALSE]
                                               ELSE Idle
    BY <1>3, <1>a DEF CheckDraftEdit, Quiet
  <2>3. status'[i] = "draft"
    BY <1>3 DEF CheckDraftEdit
  <2>4. Exclusive'
    BY <2>2 DEF Exclusive
  <2>5. HeldIsFresh'
    BY <2>2, <2>3 DEF HeldIsFresh, Idle, CanReissue, Untouched
  <2> QED BY <2>1, <2>4, <2>5
<1>4. ASSUME NEW q \in Requests, NEW t \in Amounts, NEW st \in {"draft", "issued"},
             NEW b \in BOOLEAN, WriteDraftEdit(q, t, st, b)
      PROVE  Sums1' /\ Held1'
  <2>1. req[q].invoice \in Invoices /\ status[req[q].invoice] = "draft" /\ req[q] # Idle
    BY <1>4 DEF WriteDraftEdit, SerialInv, HeldIsFresh, Idle
  <2>2. Sums1'
    BY <1>0, <1>4, <1>a, <2>1, SerialNoMoney DEF WriteDraftEdit
  <2>3. Held1'
    BY <1>4, <2>1, HeldDone DEF WriteDraftEdit
  <2> QED BY <2>2, <2>3
<1>5. ASSUME NEW q \in Requests, AbandonRequest(q)
      PROVE  Sums1' /\ Held1'
  BY <1>0, <1>5, SerialNoMoney, HeldDone DEF AbandonRequest
<1>6. ASSUME NEW i \in Invoices, VoidInvoice(i)
      PROVE  Sums1' /\ Held1'
  BY <1>0, <1>6, <1>a, SerialNoMoney, NoneHeld DEF VoidInvoice
<1>7. ASSUME NEW i \in Invoices, VoidSubscriptionInvoice(i)
      PROVE  Sums1' /\ Held1'
  BY <1>0, <1>7, <1>a, SerialNoMoney, NoneHeld DEF VoidSubscriptionInvoice
<1>8. ASSUME NEW q \in Requests, NEW i \in Invoices, CheckReissue(q, i)
      PROVE  Sums1' /\ Held1'
  <2>1. Sums1'
    BY <1>0, <1>8, SerialNoMoney DEF CheckReissue
  <2>2. \A p \in Requests :
            req'[p] = IF p = q THEN [op |-> "reissue", invoice |-> i, lines |-> lines[i]]
                               ELSE Idle
    BY <1>8, <1>a DEF CheckReissue, Quiet
  <2>3. status'[i] = "issued" /\ Paid(receipts', i) = 0 /\ Credited(notes', i) = 0
    BY <1>8 DEF CheckReissue, CanReissue, Untouched
  <2>4. Exclusive'
    BY <2>2 DEF Exclusive
  <2>5. HeldIsFresh'
    BY <2>2, <2>3 DEF HeldIsFresh, Idle, CanReissue, Untouched
  <2> QED BY <2>1, <2>4, <2>5
<1>9. ASSUME NEW q \in Requests, NEW j \in Invoices, NEW t \in Amounts, WriteReissue(q, j, t)
      PROVE  Sums1' /\ Held1'
  <2>1. req[q].invoice \in Invoices /\ req[q] # Idle
    BY <1>9 DEF WriteReissue, SerialInv, HeldIsFresh, Idle
  <2>2. Sums1'
    BY <1>0, <1>9, <1>a, SerialNoMoney DEF WriteReissue
  <2>3. Held1'
    BY <1>9, <2>1, HeldDone DEF WriteReissue
  <2> QED BY <2>2, <2>3
<1>10. ASSUME NEW n \in Notes, NEW i \in Invoices, NEW asked \in Amounts,
              NEW a \in NoteTotals(asked), CreateCreditNote(n, i, asked, a)
       PROVE  Sums1' /\ Held1'
  <2>1. Held1'
    BY <1>10, NoneHeld DEF CreateCreditNote
  <2>2. status'[i] \notin {"absent", "draft"}
        /\ \A k \in Invoices : k # i => status'[k] = status[k]
    BY <1>10, <1>a DEF CreateCreditNote, SyncAfterCredit, SettledStatus
  <2>3. /\ Credited(notes', i) = Credited(notes, i) + a /\ a \in Nat /\ a <= Balance(i) + Cent
        /\ Balance(i) = total[i] - Paid(receipts, i) - Credited(notes, i)
        /\ \A k \in Invoices : k # i => Credited(notes', k) = Credited(notes, k)
        /\ receipts' = receipts /\ total' = total
    BY <1>0, <1>10, CreditEffect
  <2>4. Paid(receipts, i) \in Nat /\ Credited(notes, i) \in Nat /\ total[i] \in Nat
    BY <1>0, BalanceIs
  <2>5. Paid(receipts', i) + Credited(notes', i) <= total'[i] + Cent
    BY <2>3, <2>4 DEF Cent
  <2>6. NoOverSettlement'
    BY <2>3, <2>5 DEF SerialInv, NoOverSettlement
  <2>7. DraftsCarryNoMoney'
    BY <2>2, <2>3 DEF SerialInv, DraftsCarryNoMoney
  <2> QED BY <2>1, <2>6, <2>7
<1>11. ASSUME NEW n \in Notes, VoidCreditNote(n)
       PROVE  Sums1' /\ Held1'
  <2>1. Held1'
    BY <1>11, NoneHeld DEF VoidCreditNote
  <2>2. SUFFICES ASSUME NEW k \in Invoices
                 PROVE  /\ Paid(receipts', k) <= total'[k]
                        /\ Paid(receipts', k) + Credited(notes', k) <= total'[k] + Cent
                        /\ status'[k] \in {"absent", "draft"} =>
                               Paid(receipts', k) = 0 /\ Credited(notes', k) = 0
    BY <2>1 DEF NoOverSettlement, DraftsCarryNoMoney
  <2>3. Paid(receipts', k) = Paid(receipts, k) /\ total'[k] = total[k]
    BY <1>11 DEF VoidCreditNote
  <2>4. CASE k = notes[n].invoice
    <3>1. status'[k] \notin {"absent", "draft"}
      BY <1>11, <1>a, <2>4 DEF VoidCreditNote, SyncAfterCredit, SettledStatus
    <3>2. Credited(notes, k) = Credited(notes', k) + notes[n].amount /\ notes[n].amount \in Nat
      BY <1>0, <1>11, <2>4, VoidCreditEffect
    <3>3. /\ Paid(receipts, k) \in Nat /\ Credited(notes', k) \in Nat /\ total[k] \in Nat
          /\ Paid(receipts, k) <= total[k]
          /\ Paid(receipts, k) + Credited(notes, k) <= total[k] + Cent
      BY <1>0, BalanceIs, MoneyAfter DEF SerialInv, NoOverSettlement
    <3> QED BY <2>3, <3>1, <3>2, <3>3 DEF Cent
  <2>5. CASE k # notes[n].invoice
    <3>1. status'[k] = status[k]
      BY <1>11, <1>a, <2>5 DEF VoidCreditNote, SyncAfterCredit
    <3>2. Credited(notes', k) = Credited(notes, k)
      BY <1>0, <1>11, <2>5, VoidCreditEffect
    <3> QED BY <2>3, <3>1, <3>2 DEF SerialInv, NoOverSettlement, DraftsCarryNoMoney
  <2> QED BY <2>4, <2>5
<1>12. ASSUME NEW r \in Receipts, NEW i \in Invoices, NEW a \in Amounts,
              NEW ref \in Refs \cup {NoRef}, RegisterPayment(r, i, a, ref)
       PROVE  Sums1' /\ Held1'
  <2>1. Held1'
    BY <1>12, NoneHeld DEF RegisterPayment
  <2>2. status'[i] \notin {"absent", "draft"}
        /\ \A k \in Invoices : k # i => status'[k] = status[k]
    BY <1>12, <1>a DEF RegisterPayment
  <2>3. /\ Paid(receipts', i) = Paid(receipts, i) + a /\ a \in Nat /\ Balance(i) - a >= 0
        /\ Balance(i) = total[i] - Paid(receipts, i) - Credited(notes, i)
        /\ \A k \in Invoices : k # i => Paid(receipts', k) = Paid(receipts, k)
        /\ notes' = notes /\ total' = total
    BY <1>0, <1>12, PaymentEffect
  <2>4. Paid(receipts, i) \in Nat /\ Credited(notes, i) \in Nat /\ total[i] \in Nat
    BY <1>0, BalanceIs
  <2>5. /\ Paid(receipts', i) <= total'[i]
        /\ Paid(receipts', i) + Credited(notes', i) <= total'[i] + Cent
    BY <2>3, <2>4 DEF Cent
  <2>6. Sums1'
    BY <2>2, <2>3, <2>5 DEF SerialInv, NoOverSettlement, DraftsCarryNoMoney
  <2> QED BY <2>1, <2>6
<1>13. ASSUME UNCHANGED vars PROVE Sums1' /\ Held1'
  <2>1. Sums1'
    BY <1>0, <1>13, SerialNoMoney DEF vars
  <2>2. Exclusive'
    BY <1>13 DEF vars, SerialInv, Exclusive
  <2>3. HeldIsFresh'
    BY <1>13 DEF vars, SerialInv, HeldIsFresh, CanReissue, Untouched
  <2> QED BY <2>1, <2>2, <2>3
<1>14. Sums1' /\ Held1'
  BY <1>1, <1>2, <1>2a, <1>3, <1>4, <1>5, <1>6, <1>7, <1>8, <1>9, <1>10, <1>11,
     <1>12, <1>13 DEF Next
<1> QED
  BY <1>0, <1>14 DEF SerialInv

\* Receipts never exceed the total, and with the credit notes they exceed it by one
\* cent at most, as long as requests do not overlap; stale draft edits are what the
\* assumption excludes.
THEOREM NeverOverSettled ==
    ASSUME Overlap = FALSE
    PROVE  Spec => []NoOverSettlement
<1>1. SerialInv => NoOverSettlement
  BY DEF SerialInv
<1>2. SerialInv /\ [Next]_vars => SerialInv'
  BY SerialStep
<1> QED
  BY <1>1, <1>2, SerialInit, PTL DEF Spec

-----------------------------------------------------------------------------
(* The ledger implements the receivable.                                    *)

SettledMap == [i \in Invoices |-> Settled(i)]
PhaseMap   == [i \in Invoices |-> PhaseOf(status[i])]

\* A step that changes what is settled of one invoice changes the map there.
LEMMA SettledAt ==
    ASSUME NEW i \in Invoices, \A k \in Invoices : k # i => Settled(k)' = Settled(k)
    PROVE  SettledMap' = [SettledMap EXCEPT ![i] = Settled(i)']
  BY DEF SettledMap

LEMMA SettledSame ==
    ASSUME \A k \in Invoices : Settled(k)' = Settled(k)
    PROVE  SettledMap' = SettledMap
  BY DEF SettledMap

LEMMA NoMoneySettled ==
    ASSUME UNCHANGED <<receipts, notes>>
    PROVE  SettledMap' = SettledMap
<1>1. \A k \in Invoices : Settled(k)' = Settled(k)
  BY DEF Settled
<1> QED
  BY <1>1, SettledSame

LEMMA PhaseAt ==
    ASSUME TypeOK, NEW i \in Invoices, NEW st, status' = [status EXCEPT ![i] = st]
    PROVE  PhaseMap' = [PhaseMap EXCEPT ![i] = PhaseOf(st)]
<1>1. \A k \in Invoices : status'[k] = IF k = i THEN st ELSE status[k]
  BY DEF TypeOK
<1>2. PhaseMap' = [k \in Invoices |-> PhaseOf(status'[k])]
  BY DEF PhaseMap, PhaseOf
<1>3. PhaseMap' = [k \in Invoices |-> IF k = i THEN PhaseOf(st) ELSE PhaseOf(status[k])]
  BY <1>1, <1>2
<1> QED
  BY <1>3 DEF PhaseMap

\* The steps of the receivable, on the maps.
LEMMA BillStep ==
    ASSUME NEW i \in Invoices, NEW t \in Amounts, NEW p \in {"draft", "open"},
           PhaseMap[i] \in {"none", "draft"}, total' = [total EXCEPT ![i] = t],
           PhaseMap' = [PhaseMap EXCEPT ![i] = p], SettledMap' = SettledMap
    PROVE  Account!RNext
<1>1. Account!Bill(i)
  BY DEF Account!Bill, PhaseMap, SettledMap, Amounts
<1> QED
  BY <1>1 DEF Account!RNext

LEMMA SettleStep ==
    ASSUME NEW i \in Invoices, NEW s \in 0..(total[i] + Cent), PhaseMap[i] = "open",
           total' = total, PhaseMap' = PhaseMap,
           SettledMap' = [SettledMap EXCEPT ![i] = s]
    PROVE  Account!RNext
<1>1. Account!Settle(i)
  BY DEF Account!Settle, PhaseMap, SettledMap
<1> QED
  BY <1>1 DEF Account!RNext

LEMMA CloseStep ==
    ASSUME NEW i \in Invoices, PhaseMap[i] = "open", SettledMap[i] = 0,
           total' = total, SettledMap' = SettledMap,
           PhaseMap' = [PhaseMap EXCEPT ![i] = "closed"]
    PROVE  Account!RNext
<1>1. Account!Close(i)
  BY DEF Account!Close, PhaseMap, SettledMap
<1> QED
  BY <1>1 DEF Account!RNext

LEMMA ReplaceStep ==
    ASSUME NEW i \in Invoices, NEW j \in Invoices, NEW t \in Amounts,
           PhaseMap[i] = "open", SettledMap[i] = 0, PhaseMap[j] = "none",
           total' = [total EXCEPT ![j] = t], SettledMap' = SettledMap,
           PhaseMap' = [PhaseMap EXCEPT ![i] = "closed", ![j] = "draft"]
    PROVE  Account!RNext
<1>1. Account!Replace(i, j)
  BY DEF Account!Replace, PhaseMap, SettledMap, Amounts
<1> QED
  BY <1>1 DEF Account!RNext

LEMMA StutterStep ==
    ASSUME total' = total, PhaseMap' = PhaseMap, SettledMap' = SettledMap
    PROVE  UNCHANGED Account!rvars
  BY DEF Account!rvars, PhaseMap, SettledMap

LEMMA ReceivableInit == Init => Account!RInit
<1> SUFFICES ASSUME Init PROVE Account!RInit
  OBVIOUS
<1>1. \A i \in Invoices : Settled(i) = 0
  BY NoRowsNoMoney DEF Settled
<1>2. \A i \in Invoices : PhaseOf(status[i]) = "none"
  BY DEF Init, PhaseOf
<1>3. total = [i \in Invoices |-> 0]
  BY DEF Init
<1> QED
  BY <1>1, <1>2, <1>3 DEF Account!RInit

LEMMA ReceivableStep ==
    ASSUME Overlap = FALSE, SerialInv, [Next]_vars
    PROVE  Account!RNext \/ UNCHANGED Account!rvars
<1> DEFINE Goal == Account!RNext \/ UNCHANGED Account!rvars
<1>0. TypeOK /\ TypeOK' /\ SerialInv'
  BY TypeStep, SerialStep DEF SerialInv
<1>a. /\ status \in [Invoices -> InvoiceStatus] /\ total \in [Invoices -> Amounts]
      /\ \A k \in Invoices : total'[k] = total[k] =>
            Paid(receipts', k) + Credited(notes', k) \in 0..(total[k] + Cent)
  <2>1. \A k \in Invoices : Paid(receipts', k) + Credited(notes', k) \in 0..(total'[k] + Cent)
    BY <1>0, MoneyAfter DEF SerialInv, NoOverSettlement, Cent
  <2> QED BY <1>0, <2>1 DEF TypeOK
<1>b. /\ PhaseOf("absent") = "none" /\ PhaseOf("draft") = "draft"
      /\ PhaseOf("void") = "closed" /\ PhaseOf("superseded") = "closed"
      /\ \A st \in {"issued", "partially_paid", "paid"} : PhaseOf(st) = "open"
  BY DEF PhaseOf
<1>c. \A k \in Invoices : PhaseMap[k] = PhaseOf(status[k])
                          /\ SettledMap[k] = Paid(receipts, k) + Credited(notes, k)
  BY DEF PhaseMap, SettledMap, Settled
<1>d. ASSUME NEW k \in Invoices, Untouched(k)
      PROVE  PhaseMap[k] = "open" /\ SettledMap[k] = 0
  BY <1>b, <1>c, <1>d DEF Untouched
<1>e. ASSUME NEW i \in Invoices, NEW st, status' = [status EXCEPT ![i] = st],
             PhaseOf(st) = PhaseMap[i]
      PROVE  PhaseMap' = PhaseMap
  BY <1>0, <1>c, <1>e, PhaseAt DEF PhaseMap
<1>f. ASSUME NEW i \in Invoices, PhaseMap[i] = "open", total' = total,
             NEW st \in {"issued", "partially_paid", "paid"},
             status' = [status EXCEPT ![i] = st],
             \A k \in Invoices : k # i => Settled(k)' = Settled(k)
      PROVE  Account!RNext
  <2>1. PhaseMap' = PhaseMap
    BY <1>b, <1>e, <1>f
  <2>2. SettledMap' = [SettledMap EXCEPT ![i] = Settled(i)']
    BY <1>f, SettledAt
  <2>3. Settled(i)' \in 0..(total[i] + Cent)
    BY <1>a, <1>f DEF Settled
  <2> QED BY <1>f, <2>1, <2>2, <2>3, SettleStep
<1>1. ASSUME NEW i \in Invoices, NEW t \in Amounts, NEW st \in {"draft", "issued"},
             NEW b \in BOOLEAN, CreateInvoice(i, t, st, b)
      PROVE  Goal
  <2>1. PhaseMap[i] = "none" /\ total' = [total EXCEPT ![i] = t]
    BY <1>1, <1>b, <1>c DEF CreateInvoice
  <2>2. PhaseMap' = [PhaseMap EXCEPT ![i] = PhaseOf(st)]
    BY <1>0, <1>1, PhaseAt DEF CreateInvoice
  <2>3. SettledMap' = SettledMap
    BY <1>1, NoMoneySettled DEF CreateInvoice
  <2>4. PhaseOf(st) \in {"draft", "open"}
    BY <1>b
  <2> QED BY <2>1, <2>2, <2>3, <2>4, BillStep
<1>2. ASSUME NEW i \in Invoices, NEW t \in Amounts, NEW old \in Invoices \cup {NoDoc},
      CreatePeriodInvoice(i, t, old)
      PROVE  Goal
  <2>1. PhaseMap[i] = "none" /\ total' = [total EXCEPT ![i] = t]
    BY <1>2, <1>b, <1>c DEF CreatePeriodInvoice
  <2>2. PhaseMap' = [PhaseMap EXCEPT ![i] = PhaseOf("issued")]
    BY <1>0, <1>2, PhaseAt DEF CreatePeriodInvoice
  <2>3. SettledMap' = SettledMap
    BY <1>2, NoMoneySettled DEF CreatePeriodInvoice
  <2>4. PhaseOf("issued") = "open"
    BY <1>b
  <2> QED BY <2>1, <2>2, <2>3, <2>4, BillStep
<1>3. ASSUME UNCHANGED <<status, total, receipts, notes>>
      PROVE  Goal
  <2>1. PhaseMap' = PhaseMap
    BY <1>3 DEF PhaseMap, PhaseOf
  <2>2. SettledMap' = SettledMap
    BY <1>3, NoMoneySettled
  <2> QED BY <1>3, <2>1, <2>2, StutterStep
<1>4. ASSUME NEW q \in Requests, NEW t \in Amounts, NEW st \in {"draft", "issued"},
             NEW b \in BOOLEAN, WriteDraftEdit(q, t, st, b)
      PROVE  Goal
  <2>1. PICK i \in Invoices : i = req[q].invoice /\ status[i] = "draft"
    BY <1>4 DEF WriteDraftEdit, SerialInv, HeldIsFresh
  <2>2. PhaseMap[i] = "draft" /\ total' = [total EXCEPT ![i] = t]
    BY <1>4, <1>b, <1>c, <2>1 DEF WriteDraftEdit
  <2>3. PhaseMap' = [PhaseMap EXCEPT ![i] = PhaseOf(st)]
    BY <1>0, <1>4, <2>1, PhaseAt DEF WriteDraftEdit
  <2>4. SettledMap' = SettledMap
    BY <1>4, NoMoneySettled DEF WriteDraftEdit
  <2>5. PhaseOf(st) \in {"draft", "open"}
    BY <1>b
  <2> QED BY <2>2, <2>3, <2>4, <2>5, BillStep
<1>6. ASSUME NEW i \in Invoices, VoidInvoice(i) \/ VoidSubscriptionInvoice(i)
      PROVE  Goal
  <2>1. PhaseMap[i] = "open" /\ SettledMap[i] = 0 /\ total' = total
    BY <1>6, <1>d DEF VoidInvoice, VoidSubscriptionInvoice, CanVoid
  <2>2. PhaseMap' = [PhaseMap EXCEPT ![i] = PhaseOf("void")]
    BY <1>0, <1>6, PhaseAt DEF VoidInvoice, VoidSubscriptionInvoice
  <2>3. SettledMap' = SettledMap
    BY <1>6, NoMoneySettled DEF VoidInvoice, VoidSubscriptionInvoice
  <2> QED BY <1>b, <2>1, <2>2, <2>3, CloseStep
<1>9. ASSUME NEW q \in Requests, NEW j \in Invoices, NEW t \in Amounts, WriteReissue(q, j, t)
      PROVE  Goal
  <2>1. PICK i \in Invoices : i = req[q].invoice /\ Untouched(i)
    BY <1>9 DEF WriteReissue, SerialInv, HeldIsFresh, CanReissue
  <2>2. /\ status' = [status EXCEPT ![j] = "draft", ![i] = "superseded"]
        /\ total' = [total EXCEPT ![j] = t] /\ status[j] = "absent"
    BY <1>9, <2>1 DEF WriteReissue
  <2>3. PhaseMap[i] = "open" /\ SettledMap[i] = 0 /\ PhaseMap[j] = "none"
    BY <1>b, <1>c, <1>d, <2>1, <2>2
  <2>4. \A k \in Invoices : status'[k] = IF k = i THEN "superseded"
                                         ELSE IF k = j THEN "draft" ELSE status[k]
    BY <1>a, <2>2
  <2>5. PhaseMap' = [k \in Invoices |-> PhaseOf(status'[k])]
    BY DEF PhaseMap, PhaseOf
  <2>6. PhaseMap' = [k \in Invoices |-> IF k = i THEN "closed"
                                        ELSE IF k = j THEN "draft" ELSE PhaseOf(status[k])]
    BY <1>b, <2>4, <2>5
  <2>7. PhaseMap' = [PhaseMap EXCEPT ![i] = "closed", ![j] = "draft"]
    BY <2>3, <2>6 DEF PhaseMap
  <2>8. SettledMap' = SettledMap
    BY <1>9, NoMoneySettled DEF WriteReissue
  <2> QED BY <2>2, <2>3, <2>7, <2>8, ReplaceStep
<1>10. ASSUME NEW n \in Notes, NEW i \in Invoices, NEW asked \in Amounts,
              NEW a \in NoteTotals(asked), CreateCreditNote(n, i, asked, a)
       PROVE  Goal
  <2>1. \A k \in Invoices : k # i => Settled(k)' = Settled(k)
    BY <1>0, <1>10, CreditEffect DEF Settled
  <2>2. /\ total' = total
        /\ status' = [status EXCEPT ![i] = SettledStatus(receipts, notes', i)]
    BY <1>10 DEF CreateCreditNote, SyncAfterCredit
  <2>3. PhaseMap[i] = "open"
    BY <1>10, <1>a, <1>b, <1>c DEF CreateCreditNote, CanCreateCreditNote, InvoiceStatus
  <2>4. SettledStatus(receipts, notes', i) \in {"issued", "partially_paid", "paid"}
    BY DEF SettledStatus
  <2> QED BY <1>f, <2>1, <2>2, <2>3, <2>4
<1>11. ASSUME NEW n \in Notes, VoidCreditNote(n)
       PROVE  Goal
  <2>1. \A k \in Invoices : k # notes[n].invoice => Settled(k)' = Settled(k)
    BY <1>0, <1>11, VoidCreditEffect DEF Settled
  <2>2. /\ total' = total /\ receipts' = receipts
        /\ status[notes[n].invoice] \notin {"void", "superseded"}
        /\ status' = [status EXCEPT ![notes[n].invoice] =
                          SettledStatus(receipts, notes', notes[n].invoice)]
    BY <1>11 DEF VoidCreditNote, SyncAfterCredit
  <2>3. CASE notes[n].invoice \notin Invoices
    <3>1. SettledMap' = SettledMap
      BY <2>1, <2>3, SettledSame
    <3>2. status' = status
      BY <1>a, <2>2, <2>3
    <3>3. PhaseMap' = PhaseMap
      BY <3>2 DEF PhaseMap, PhaseOf
    <3> QED BY <2>2, <3>1, <3>3, StutterStep
  <2>4. ASSUME NEW i \in Invoices, i = notes[n].invoice
        PROVE  Goal
    <3> DEFINE st == SettledStatus(receipts, notes', notes[n].invoice)
    <3>1. st \in {"issued", "partially_paid", "paid"}
      BY DEF SettledStatus
    <3> HIDE DEF st
    <3>2. CASE status[i] \in {"absent", "draft"}
      <4>1. Paid(receipts, i) = 0 /\ Credited(notes, i) = 0
        BY <3>2 DEF SerialInv, DraftsCarryNoMoney
      <4>2. Credited(notes, i) = Credited(notes', i) + notes[n].amount
            /\ notes[n].amount \in Nat
        BY <1>0, <1>11, <2>4, VoidCreditEffect
      <4>3. Credited(notes', i) \in Nat
        BY <1>0, MoneyAfter
      <4>4. Settled(i)' = Settled(i)
        BY <2>2, <4>1, <4>2, <4>3 DEF Settled
      <4>5. SettledMap' = SettledMap
        BY <2>1, <2>4, <4>4, SettledSame
      <4>6. PhaseMap' = [PhaseMap EXCEPT ![i] = PhaseOf(st)]
        BY <1>0, <2>2, <2>4, PhaseAt DEF st
      <4>7. PhaseMap[i] \in {"none", "draft"} /\ PhaseOf(st) = "open"
        BY <1>b, <1>c, <3>1, <3>2
      <4>8. total' = [total EXCEPT ![i] = total[i]] /\ total[i] \in Amounts
        BY <1>a, <2>2
      <4> QED BY <4>5, <4>6, <4>7, <4>8, BillStep
    <3>3. CASE status[i] \notin {"absent", "draft"}
      <4>1. PhaseMap[i] = "open"
        BY <1>a, <1>b, <1>c, <2>2, <2>4, <3>3 DEF InvoiceStatus
      <4>2. status' = [status EXCEPT ![i] = st]
        BY <2>2, <2>4 DEF st
      <4> QED BY <1>f, <2>1, <2>2, <2>4, <3>1, <4>1, <4>2
    <3> QED BY <3>2, <3>3
  <2> QED BY <2>3, <2>4
<1>12. ASSUME NEW r \in Receipts, NEW i \in Invoices, NEW a \in Amounts,
              NEW ref \in Refs \cup {NoRef}, RegisterPayment(r, i, a, ref)
       PROVE  Goal
  <2>1. \A k \in Invoices : k # i => Settled(k)' = Settled(k)
    BY <1>0, <1>12, PaymentEffect DEF Settled
  <2>2. total' = total
        /\ \E st \in {"partially_paid", "paid"} : status' = [status EXCEPT ![i] = st]
    BY <1>12 DEF RegisterPayment
  <2>3. PhaseMap[i] = "open"
    BY <1>12, <1>a, <1>b, <1>c DEF RegisterPayment, CanRegisterPayment, InvoiceStatus
  <2> QED BY <1>f, <2>1, <2>2, <2>3
<1>13. ASSUME Next PROVE Goal
  <2>1. ASSUME NEW q \in Requests, NEW i \in Invoices, CheckDraftEdit(q, i) \/ CheckReissue(q, i)
        PROVE  Goal
    BY <1>3, <2>1 DEF CheckDraftEdit, CheckReissue
  <2>2. ASSUME NEW q \in Requests, AbandonRequest(q)
        PROVE  Goal
    BY <1>3, <2>2 DEF AbandonRequest
  <2>3. ASSUME NEW old \in Invoices, ReopenPeriod(old)
        PROVE  Goal
    BY <1>3, <2>3 DEF ReopenPeriod
  <2> HIDE DEF Goal
  <2> QED BY <1>1, <1>2, <1>4, <1>6, <1>9, <1>10, <1>11, <1>12, <1>13, <2>1, <2>2, <2>3 DEF Next
<1>14. ASSUME UNCHANGED vars PROVE Goal
  BY <1>3, <1>14 DEF vars
<1> QED
  BY <1>13, <1>14

\* The invoice rows implement the receivable: an open debt keeps its amount,
\* is settled up to that amount and a cent, and closes only unsettled.
THEOREM LedgerIsReceivable ==
    ASSUME Overlap = FALSE
    PROVE  Spec => ImplementsReceivable
<1>1. SerialInv /\ [Next]_vars => SerialInv' /\ [Account!RNext]_(Account!rvars)
  BY SerialStep, ReceivableStep
<1> QED
  BY <1>1, SerialInit, ReceivableInit, PTL
  DEF Spec, ImplementsReceivable, Account!RSpec
-----------------------------------------------------------------------------
(* Rows, statuses and periods agree while requests do not overlap.           *)

\* A receipt or an issued credit note of an invoice is worth something.
RowsWorth ==
    /\ \A r \in Receipts : receipts[r].invoice \in Invoices => receipts[r].amount > 0
    /\ \A n \in Notes : notes[n].status = "issued" => notes[n].amount > 0

\* An invoice that counts as unpaid or replaced carries no receipt, a replaced
\* one no credit either, and an issued one has something left to pay.
UnpaidIsUnpaid ==
    \A i \in Invoices :
        /\ status[i] = "superseded" => Paid(receipts, i) = 0 /\ Credited(notes, i) = 0
        /\ status[i] = "issued" => Paid(receipts, i) = 0 /\ (Balance(i) > 0 \/ total[i] = 0)

RowsAgree == RowsWorth /\ UnpaidIsUnpaid /\ CoverageFollowsInvoice /\ OneReceiptPerReference
SettleInv == SerialInv /\ Earned /\ RowsAgree

\* Rows that sum to nothing are no rows.
LEMMA NoMoneyNoRows ==
    ASSUME TypeOK, RowsWorth, NEW i \in Invoices
    PROVE  /\ Paid(receipts, i) = 0 => ReceiptsOf(receipts, i) = {}
           /\ Credited(notes, i) = 0 => NotesOf(notes, i) = {}
<1> DEFINE R == ReceiptsOf(receipts, i)
           N == NotesOf(notes, i)
           f == [r \in Receipts |-> receipts[r].amount]
           g == [n \in Notes |-> notes[n].amount]
<1>1. R \subseteq Receipts /\ N \subseteq Notes
  BY DEF ReceiptsOf, NotesOf
<1>2. IsFiniteSet(R) /\ IsFiniteSet(N)
  BY <1>1, RowIds, FS_Subset
<1>3. \A r \in R : f[r] \in Nat /\ f[r] > 0
  BY <1>1, AmountsAreNat DEF TypeOK, ReceiptRow, RowsWorth, ReceiptsOf
<1>4. \A n \in N : g[n] \in Nat /\ g[n] > 0
  BY <1>1, AmountsAreNat DEF TypeOK, NoteRow, RowsWorth, NotesOf
<1>5. R # {} => SumOf(R, f) > 0
  <2> SUFFICES ASSUME NEW r \in R PROVE SumOf(R, f) > 0
    OBVIOUS
  <2> HIDE DEF R, f
  <2>1. SumOf(R, f) = SumOf(R \ {r}, f) + f[r]
    BY <1>2, <1>3, SumRemove
  <2>2. IsFiniteSet(R \ {r})
    BY <1>2, FS_RemoveElement
  <2>3. SumOf(R \ {r}, f) \in Nat
    BY <1>3, <2>2, SumType
  <2> QED BY <1>3, <2>1, <2>3
<1>6. N # {} => SumOf(N, g) > 0
  <2> SUFFICES ASSUME NEW n \in N PROVE SumOf(N, g) > 0
    OBVIOUS
  <2> HIDE DEF N, g
  <2>1. SumOf(N, g) = SumOf(N \ {n}, g) + g[n]
    BY <1>2, <1>4, SumRemove
  <2>2. IsFiniteSet(N \ {n})
    BY <1>2, FS_RemoveElement
  <2>3. SumOf(N \ {n}, g) \in Nat
    BY <1>4, <2>2, SumType
  <2> QED BY <1>4, <2>1, <2>3
<1> QED
  BY <1>5, <1>6 DEF Paid, Credited

LEMMA SettleImplies == SettleInv => SettlementIsSound
<1> SUFFICES ASSUME SettleInv PROVE SettlementIsSound
  OBVIOUS
<1>1. TypeOK /\ RowsWorth
  BY DEF SettleInv, SerialInv, RowsAgree
<1>2. StatusMatchesRows
  <2> SUFFICES ASSUME NEW i \in Invoices
               PROVE  /\ status[i] \in {"absent", "draft", "void", "superseded"} =>
                             ReceiptsOf(receipts, i) = {} /\ NotesOf(notes, i) = {}
                      /\ status[i] = "issued" => ReceiptsOf(receipts, i) = {} /\
                                                 (Balance(i) > 0 \/ total[i] = 0)
                      /\ status[i] = "partially_paid" => Paid(receipts, i) > 0 /\ Balance(i) > 0
                      /\ status[i] = "paid" => Balance(i) = 0
    BY DEF StatusMatchesRows
  <2>1. status[i] \in {"absent", "draft", "void", "superseded"} =>
            Paid(receipts, i) = 0 /\ Credited(notes, i) = 0
    BY DEF SettleInv, SerialInv, DraftsCarryNoMoney, Earned, VoidCarriesNoMoney,
           RowsAgree, UnpaidIsUnpaid
  <2>2. status[i] = "issued" => Paid(receipts, i) = 0 /\ (Balance(i) > 0 \/ total[i] = 0)
    BY DEF SettleInv, RowsAgree, UnpaidIsUnpaid
  <2> QED BY <1>1, <2>1, <2>2, NoMoneyNoRows
          DEF SettleInv, Earned, SettlementStatusIsEarned
<1> QED
  BY <1>1, <1>2 DEF SettleInv, RowsAgree, SettlementIsSound

LEMMA SettleInit == Init => SettleInv
<1> SUFFICES ASSUME Init PROVE SettleInv
  OBVIOUS
<1>1. SerialInv /\ Earned
  BY SerialInit, OverlapInit DEF OverlapInv
<1>2. RowsWorth
  BY RowIds DEF Init, RowsWorth, NoReceipt, NoNote
<1>3. UnpaidIsUnpaid /\ CoverageFollowsInvoice /\ OneReceiptPerReference
  BY DEF Init, UnpaidIsUnpaid, CoverageFollowsInvoice, OneReceiptPerReference, NoReceipt
<1> QED
  BY <1>1, <1>2, <1>3 DEF SettleInv, RowsAgree

\* A step that leaves the rows alone keeps the parts about rows, when an
\* invoice becomes issued or superseded only without money.
LEMMA RowsStay ==
    ASSUME SettleInv, UNCHANGED <<receipts, notes>>,
           \A k \in Invoices :
               \/ status'[k] = status[k] /\ total'[k] = total[k]
               \/ status'[k] \notin {"issued", "superseded"}
               \/ Paid(receipts, k) = 0 /\ Credited(notes, k) = 0 /\ total'[k] \in Nat
    PROVE  RowsWorth' /\ UnpaidIsUnpaid' /\ OneReceiptPerReference'
<1>1. RowsWorth' /\ OneReceiptPerReference'
  BY DEF SettleInv, RowsAgree, RowsWorth, OneReceiptPerReference
<1>2. \A k \in Invoices : /\ Paid(receipts', k) = Paid(receipts, k)
                          /\ Credited(notes', k) = Credited(notes, k)
                          /\ total'[k] = total[k] => Balance(k)' = Balance(k)
                          /\ Paid(receipts, k) = 0 /\ Credited(notes, k) = 0 /\ total'[k] \in Nat
                                => Balance(k)' = total'[k]
  BY DEF Balance, Remaining
<1>3. UnpaidIsUnpaid'
  BY <1>2 DEF SettleInv, RowsAgree, UnpaidIsUnpaid
<1> QED
  BY <1>1, <1>3

LEMMA SettleInvStep ==
    ASSUME Overlap = FALSE, SettleInv, [Next]_vars
    PROVE  SettleInv'
<1> USE DEF SettleInv, RowsAgree
<1>0. TypeOK /\ TypeOK' /\ SerialInv'
  BY TypeStep, SerialStep DEF SerialInv
<1>e. Earned'
  BY OverlapStep DEF SerialInv, OverlapInv
<1>a. /\ status \in [Invoices -> InvoiceStatus] /\ total \in [Invoices -> Amounts]
      /\ period \in [Invoices -> {"none", "invoiced", "paid", "cancelled"}]
      /\ NoDoc \notin Invoices /\ Amounts \subseteq Nat
  BY <1>0, RowIds, AmountsAreNat DEF TypeOK
<1>b. \A k \in Invoices : status[k] \in {"absent", "draft"} =>
          Paid(receipts, k) = 0 /\ Credited(notes, k) = 0
  BY DEF SerialInv, DraftsCarryNoMoney
<1>c. \A k \in Invoices : period[k] # "none" =>
          /\ period[k] = "paid" <=> status[k] = "paid"
          /\ period[k] = "cancelled" <=> status[k] = "void"
          /\ status[k] \notin {"absent", "superseded"}
  BY DEF CoverageFollowsInvoice
<1>1. ASSUME NEW i \in Invoices, NEW t \in Amounts, NEW st \in {"draft", "issued"},
             NEW b \in BOOLEAN, CreateInvoice(i, t, st, b)
      PROVE  RowsAgree'
  <2>1. RowsWorth' /\ UnpaidIsUnpaid' /\ OneReceiptPerReference'
    BY <1>1, <1>a, <1>b, RowsStay DEF CreateInvoice
  <2>2. CoverageFollowsInvoice'
    BY <1>1, <1>a, <1>c DEF CreateInvoice, CoverageFollowsInvoice
  <2> QED BY <2>1, <2>2
<1>2. ASSUME NEW i \in Invoices, NEW t \in Amounts, NEW old \in Invoices \cup {NoDoc},
             CreatePeriodInvoice(i, t, old)
      PROVE  RowsAgree'
  <2>1. RowsWorth' /\ UnpaidIsUnpaid' /\ OneReceiptPerReference'
    BY <1>2, <1>a, <1>b, RowsStay DEF CreatePeriodInvoice
  <2>2. CoverageFollowsInvoice'
    BY <1>2, <1>a, <1>c DEF CreatePeriodInvoice, CoverageFollowsInvoice
  <2> QED BY <2>1, <2>2
<1>3. ASSUME NEW old \in Invoices, ReopenPeriod(old)
      PROVE  RowsAgree'
  <2>1. RowsWorth' /\ UnpaidIsUnpaid' /\ OneReceiptPerReference'
    BY <1>3, RowsStay DEF ReopenPeriod
  <2>2. CoverageFollowsInvoice'
    BY <1>3, <1>a, <1>c DEF ReopenPeriod, CoverageFollowsInvoice
  <2> QED BY <2>1, <2>2
<1>4. ASSUME NEW q \in Requests, NEW i \in Invoices, CheckDraftEdit(q, i) \/ CheckReissue(q, i)
      PROVE  RowsAgree'
  <2>1. RowsWorth' /\ UnpaidIsUnpaid' /\ OneReceiptPerReference'
    BY <1>4, RowsStay DEF CheckDraftEdit, CheckReissue
  <2>2. CoverageFollowsInvoice'
    BY <1>4, <1>c DEF CheckDraftEdit, CheckReissue, CoverageFollowsInvoice
  <2> QED BY <2>1, <2>2
<1>5. ASSUME NEW q \in Requests, NEW t \in Amounts, NEW st \in {"draft", "issued"},
             NEW b \in BOOLEAN, WriteDraftEdit(q, t, st, b)
      PROVE  RowsAgree'
  <2>1. req[q].invoice \in Invoices /\ status[req[q].invoice] = "draft"
    BY <1>5 DEF WriteDraftEdit, SerialInv, HeldIsFresh
  <2>2. RowsWorth' /\ UnpaidIsUnpaid' /\ OneReceiptPerReference'
    BY <1>5, <1>a, <1>b, <2>1, RowsStay DEF WriteDraftEdit
  <2>3. CoverageFollowsInvoice'
    BY <1>5, <1>a, <1>c, <2>1 DEF WriteDraftEdit, CoverageFollowsInvoice
  <2> QED BY <2>2, <2>3
<1>6. ASSUME NEW q \in Requests, AbandonRequest(q)
      PROVE  RowsAgree'
  <2>1. RowsWorth' /\ UnpaidIsUnpaid' /\ OneReceiptPerReference'
    BY <1>6, RowsStay DEF AbandonRequest
  <2>2. CoverageFollowsInvoice'
    BY <1>6, <1>c DEF AbandonRequest, CoverageFollowsInvoice
  <2> QED BY <2>1, <2>2
<1>7. ASSUME NEW i \in Invoices, VoidInvoice(i) \/ VoidSubscriptionInvoice(i)
      PROVE  RowsAgree'
  <2>1. RowsWorth' /\ UnpaidIsUnpaid' /\ OneReceiptPerReference'
    BY <1>7, <1>a, RowsStay DEF VoidInvoice, VoidSubscriptionInvoice
  <2>2. CoverageFollowsInvoice'
    BY <1>7, <1>a, <1>c DEF VoidInvoice, VoidSubscriptionInvoice, CoverageFollowsInvoice
  <2> QED BY <2>1, <2>2
<1>8. ASSUME NEW q \in Requests, NEW j \in Invoices, NEW t \in Amounts, WriteReissue(q, j, t)
      PROVE  RowsAgree'
  <2>1. req[q].invoice \in Invoices /\ Untouched(req[q].invoice)
    BY <1>8 DEF WriteReissue, SerialInv, HeldIsFresh, CanReissue
  <2>2. RowsWorth' /\ UnpaidIsUnpaid' /\ OneReceiptPerReference'
    BY <1>8, <1>a, <1>b, <2>1, RowsStay DEF WriteReissue, Untouched
  <2>3. CoverageFollowsInvoice'
    BY <1>8, <1>a, <1>c, <2>1 DEF WriteReissue, CoverageFollowsInvoice, Untouched
  <2> QED BY <2>2, <2>3
<1>9. ASSUME NEW n \in Notes, NEW i \in Invoices, NEW asked \in Amounts,
              NEW a \in NoteTotals(asked), CreateCreditNote(n, i, asked, a)
      PROVE  RowsAgree'
  <2>1. /\ status'[i] = SettledStatus(receipts, notes', i)
        /\ period'[i] = SettledPeriod(receipts, notes', i)
        /\ \A k \in Invoices : k # i => status'[k] = status[k] /\ period'[k] = period[k]
        /\ notes' = [notes EXCEPT ![n] = [invoice |-> i, amount |-> a, status |-> "issued"]]
        /\ receipts' = receipts /\ total' = total
    BY <1>9, <1>a DEF CreateCreditNote, SyncAfterCredit
  <2>2. /\ a > 0
        /\ \A k \in Invoices : k # i => /\ Credited(notes', k) = Credited(notes, k)
                                        /\ Balance(k)' = Balance(k)
    BY <1>0, <1>9, CreditEffect
  <2>3. Balance(i)' = Remaining(receipts, notes', i)
        /\ Balance(i)' \in Nat /\ Paid(receipts', i) \in Nat
    BY <1>0, <2>1, MoneyAfter DEF Balance, Remaining
  <2>4. RowsWorth' /\ OneReceiptPerReference'
    BY <1>0, <2>1, <2>2 DEF RowsWorth, OneReceiptPerReference, TypeOK
  <2>5. UnpaidIsUnpaid'
    <3> SUFFICES ASSUME NEW k \in Invoices
                 PROVE  /\ status'[k] = "superseded" => Paid(receipts', k) = 0 /\ Credited(notes', k) = 0
                        /\ status'[k] = "issued" =>
                               Paid(receipts', k) = 0 /\ (Balance(k)' > 0 \/ total'[k] = 0)
      BY DEF UnpaidIsUnpaid
    <3>1. CASE k = i
      BY <3>1, <2>1, <2>3 DEF SettledStatus
    <3>2. CASE k # i
      <4>1. /\ status'[k] = status[k] /\ Paid(receipts', k) = Paid(receipts, k)
            /\ Credited(notes', k) = Credited(notes, k) /\ Balance(k)' = Balance(k)
            /\ total'[k] = total[k]
        BY <3>2, <2>1, <2>2
      <4> QED BY <4>1 DEF UnpaidIsUnpaid
    <3> QED BY <3>1, <3>2
  <2>6. CoverageFollowsInvoice'
    BY <1>9, <1>a, <1>c, <2>1 DEF CoverageFollowsInvoice, SettledStatus, SettledPeriod,
       CreateCreditNote, CanCreateCreditNote
  <2> QED BY <2>4, <2>5, <2>6
<1>10. ASSUME NEW n \in Notes, VoidCreditNote(n)
       PROVE  RowsAgree'
  <2> DEFINE i == notes[n].invoice
  <2>1. /\ \A k \in Invoices :
               status'[k] = IF k = i THEN SettledStatus(receipts, notes', k) ELSE status[k]
        /\ \A k \in Invoices :
               period'[k] = IF k = i THEN SettledPeriod(receipts, notes', k) ELSE period[k]
        /\ notes' = [notes EXCEPT ![n].status = "void"]
        /\ receipts' = receipts /\ total' = total
        /\ status[i] \notin {"void", "superseded"}
    BY <1>10, <1>a DEF VoidCreditNote, SyncAfterCredit
  <2>2. \A k \in Invoices : k # i => /\ Credited(notes', k) = Credited(notes, k)
                                     /\ Balance(k)' = Balance(k)
    BY <1>0, <1>10, VoidCreditEffect
  <2>3. \A k \in Invoices : /\ Balance(k)' = Remaining(receipts, notes', k)
                            /\ Balance(k)' \in Nat /\ Paid(receipts', k) \in Nat
    BY <1>0, <2>1, MoneyAfter DEF Balance, Remaining
  <2>4. RowsWorth' /\ OneReceiptPerReference'
    BY <1>0, <2>1 DEF RowsWorth, OneReceiptPerReference, TypeOK
  <2>5. UnpaidIsUnpaid'
    <3> SUFFICES ASSUME NEW k \in Invoices
                 PROVE  /\ status'[k] = "superseded" => Paid(receipts', k) = 0 /\ Credited(notes', k) = 0
                        /\ status'[k] = "issued" =>
                               Paid(receipts', k) = 0 /\ (Balance(k)' > 0 \/ total'[k] = 0)
      BY DEF UnpaidIsUnpaid
    <3>1. CASE k = i
      <4>1. /\ status'[k] = SettledStatus(receipts, notes', k)
            /\ Paid(receipts', k) = Paid(receipts, k) /\ Paid(receipts', k) \in Nat
            /\ Balance(k)' = Remaining(receipts, notes', k) /\ Balance(k)' \in Nat
        BY <3>1, <2>1, <2>3
      <4>2. status'[k] # "superseded" /\ (status'[k] = "issued" =>
                ~(Paid(receipts, k) > 0) /\ Remaining(receipts, notes', k) # 0)
        BY <4>1 DEF SettledStatus
      <4> QED BY <4>1, <4>2
    <3>2. CASE k # i
      <4>1. /\ status'[k] = status[k] /\ Paid(receipts', k) = Paid(receipts, k)
            /\ Credited(notes', k) = Credited(notes, k) /\ Balance(k)' = Balance(k)
            /\ total'[k] = total[k]
        BY <3>2, <2>1, <2>2
      <4> QED BY <4>1 DEF UnpaidIsUnpaid
    <3> QED BY <3>1, <3>2
  <2>6. CoverageFollowsInvoice'
    BY <1>a, <1>c, <2>1 DEF CoverageFollowsInvoice, SettledStatus, SettledPeriod
  <2> QED BY <2>4, <2>5, <2>6
<1>11. ASSUME NEW r \in Receipts, NEW i \in Invoices, NEW a \in Amounts,
              NEW ref \in Refs \cup {NoRef}, RegisterPayment(r, i, a, ref)
       PROVE  RowsAgree'
  <2>1. /\ receipts' = [receipts EXCEPT ![r] = [invoice |-> i, amount |-> a, ref |-> ref]]
        /\ notes' = notes /\ total' = total
        /\ status' = [status EXCEPT ![i] = IF Balance(i) - a > 0 THEN "partially_paid" ELSE "paid"]
        /\ period' = [period EXCEPT ![i] =
                         IF Balance(i) - a = 0 /\ @ # "none" THEN "paid" ELSE @]
        /\ CanRegisterPayment(i) /\ ReferenceUnused(ref)
    BY <1>11 DEF RegisterPayment
  <2>2. /\ a > 0 /\ Balance(i) - a >= 0 /\ Balance(i) \in Nat /\ a \in Nat
        /\ \A k \in Invoices : k # i => /\ Paid(receipts', k) = Paid(receipts, k)
                                        /\ Balance(k)' = Balance(k)
    BY <1>0, <1>11, PaymentEffect, BalanceIs
  <2>3. RowsWorth'
    BY <1>0, <2>1, <2>2 DEF RowsWorth, TypeOK
  <2>4. OneReceiptPerReference'
    BY <1>0, <2>1 DEF OneReceiptPerReference, ReferenceUnused, TypeOK
  <2>5. UnpaidIsUnpaid'
    BY <1>a, <2>1, <2>2 DEF UnpaidIsUnpaid
  <2>6. CoverageFollowsInvoice'
    BY <1>a, <1>c, <2>1, <2>2 DEF CoverageFollowsInvoice, CanRegisterPayment
  <2> QED BY <2>3, <2>4, <2>5, <2>6
<1>12. ASSUME UNCHANGED vars PROVE RowsAgree'
  <2>1. RowsWorth' /\ UnpaidIsUnpaid' /\ OneReceiptPerReference'
    BY <1>12, RowsStay DEF vars
  <2>2. CoverageFollowsInvoice'
    BY <1>12, <1>c DEF vars, CoverageFollowsInvoice
  <2> QED BY <2>1, <2>2
<1>13. RowsAgree'
  <2> HIDE DEF SettleInv, RowsAgree
  <2> QED BY <1>1, <1>2, <1>3, <1>4, <1>5, <1>6, <1>7, <1>8, <1>9, <1>10, <1>11, <1>12 DEF Next
<1> QED
  BY <1>0, <1>e, <1>13

\* Status, balance, rows, period and payment references agree after every
\* sequence of operations, for any number of invoices, receipts and notes.
THEOREM SettlementSound ==
    ASSUME Overlap = FALSE
    PROVE  Spec => []SettlementIsSound
<1>1. SettleInv /\ [Next]_vars => SettleInv'
  BY SettleInvStep
<1> QED
  BY <1>1, SettleInit, SettleImplies, PTL DEF Spec

\* A closed invoice stays closed, and a paid one is open again only by the void
\* of one of its credit notes.
THEOREM ClosedIsFinal ==
    ASSUME Overlap = FALSE
    PROVE  Spec => ClosedStaysClosed
<1> DEFINE Step == \A i \in Invoices :
                       /\ status[i] \in {"void", "superseded"} => status'[i] = status[i]
                       /\ status[i] = "paid" /\ status'[i] # "paid" =>
                             Credited(notes', i) < Credited(notes, i)
<1>1. ASSUME SettleInv, [Next]_vars PROVE [Step]_vars
  <2>0. TypeOK /\ TypeOK'
    BY <1>1, TypeStep DEF SettleInv, SerialInv
  <2>a. status \in [Invoices -> InvoiceStatus]
    BY <2>0 DEF TypeOK
  <2> SUFFICES ASSUME NEW i \in Invoices, status'[i] # status[i],
                      status[i] \in {"void", "superseded", "paid"}
               PROVE  status[i] = "paid" /\ Credited(notes', i) < Credited(notes, i)
    BY <1>1
  <2>1. Balance(i) = 0 \/ status[i] # "paid"
    BY <1>1 DEF SettleInv, Earned, SettlementStatusIsEarned
  <2>2. ASSUME NEW q \in Requests, NEW t \in Amounts, NEW st \in {"draft", "issued"},
               NEW b \in BOOLEAN, WriteDraftEdit(q, t, st, b)
        PROVE  FALSE
    <3>1. req[q].invoice \in Invoices /\ status[req[q].invoice] = "draft"
      BY <1>1, <2>2 DEF WriteDraftEdit, SettleInv, SerialInv, HeldIsFresh
    <3> QED BY <2>2, <2>a, <3>1 DEF WriteDraftEdit
  <2>3. ASSUME NEW q \in Requests, NEW j \in Invoices, NEW t \in Amounts, WriteReissue(q, j, t)
        PROVE  FALSE
    <3>1. req[q].invoice \in Invoices /\ status[req[q].invoice] = "issued"
      BY <1>1, <2>3 DEF WriteReissue, SettleInv, SerialInv, HeldIsFresh, CanReissue, Untouched
    <3> QED BY <2>3, <2>a, <3>1 DEF WriteReissue
  <2>4. ASSUME NEW n \in Notes, VoidCreditNote(n)
        PROVE  status[i] = "paid" /\ Credited(notes', i) < Credited(notes, i)
    <3>1. i = notes[n].invoice /\ status[i] = "paid" /\ notes[n].status = "issued"
      BY <2>4, <2>a DEF VoidCreditNote, SyncAfterCredit
    <3>2. Credited(notes, i) = Credited(notes', i) + notes[n].amount /\ notes[n].amount \in Nat
      BY <2>0, <2>4, <3>1, VoidCreditEffect
    <3>3. notes[n].amount > 0 /\ Credited(notes', i) \in Nat
      BY <1>1, <2>0, <3>1, MoneyAfter DEF SettleInv, RowsAgree, RowsWorth
    <3> QED BY <3>1, <3>2, <3>3
  <2>5. ASSUME NEW n \in Notes, NEW k \in Invoices, NEW asked \in Amounts,
             NEW a \in NoteTotals(asked), CreateCreditNote(n, k, asked, a)
        PROVE  FALSE
    BY <2>5, <2>a, <2>1 DEF CreateCreditNote, CanCreateCreditNote, SyncAfterCredit
  <2>6. ASSUME NEW r \in Receipts, NEW k \in Invoices, NEW a \in Amounts,
               NEW ref \in Refs \cup {NoRef}, RegisterPayment(r, k, a, ref)
        PROVE  FALSE
    BY <2>6, <2>a DEF RegisterPayment, CanRegisterPayment
  <2>7. ASSUME NEW k \in Invoices, NEW st, status[k] \in {"absent", "issued"},
               status' = [status EXCEPT ![k] = st]
        PROVE  FALSE
    BY <2>7, <2>a
  <2>8. ASSUME NEW k \in Invoices, NEW t \in Amounts, NEW st \in {"draft", "issued"}, NEW b \in BOOLEAN,
               CreateInvoice(k, t, st, b)
        PROVE  FALSE
    BY <2>7, <2>8 DEF CreateInvoice
  <2>9. ASSUME NEW k \in Invoices, NEW t \in Amounts, NEW old \in Invoices \cup {NoDoc},
               CreatePeriodInvoice(k, t, old)
        PROVE  FALSE
    BY <2>7, <2>9 DEF CreatePeriodInvoice
  <2>10. ASSUME NEW k \in Invoices, VoidInvoice(k) \/ VoidSubscriptionInvoice(k)
         PROVE  FALSE
    BY <2>7, <2>10 DEF VoidInvoice, VoidSubscriptionInvoice, CanVoid, Untouched
  <2>11. ASSUME \/ \E old \in Invoices : ReopenPeriod(old)
                \/ \E q \in Requests, k \in Invoices : CheckDraftEdit(q, k) \/ CheckReissue(q, k)
                \/ \E q \in Requests : AbandonRequest(q)
                \/ UNCHANGED vars
         PROVE  FALSE
    BY <2>11 DEF ReopenPeriod, CheckDraftEdit, CheckReissue, AbandonRequest, vars
  <2> QED BY <1>1, <2>2, <2>3, <2>4, <2>5, <2>6, <2>8, <2>9, <2>10, <2>11 DEF Next
<1>2. SettleInv /\ [Next]_vars => SettleInv'
  BY SettleInvStep
<1> QED
  BY <1>1, <1>2, SettleInit, PTL DEF Spec, ClosedStaysClosed

-----------------------------------------------------------------------------
(* One replacement for a replaced debt.                                     *)

\* An invoice that another one replaced and that was void by then has given its
\* period away, so it cannot be reopened a second time.
VoidGaveItsPeriod ==
    \A i, j \in Invoices : original[j] = i /\ status[i] = "void" => period[i] = "none"
\* A replacement exists: its id is not free for a new invoice.
ReplacementExists ==
    \A i, j \in Invoices : replacedBy[i] = j => status[j] # "absent"
Replaced   == ReplacedOnce /\ VoidGaveItsPeriod /\ ReplacementExists
ReplaceInv == SerialInv /\ Replaced

LEMMA ReplaceInvInit == Init => ReplaceInv
<1> SUFFICES ASSUME Init PROVE ReplaceInv
  OBVIOUS
<1>1. SerialInv
  BY SerialInit
<1>2. Replaced
  BY RowIds DEF Init, Replaced, ReplacedOnce, VoidGaveItsPeriod, ReplacementExists
<1> QED
  BY <1>1, <1>2 DEF ReplaceInv

\* An invoice that is neither void nor superseded was replaced by none.
LEMMA OpenHasNoReplacement ==
    ASSUME ReplaceInv, NEW i \in Invoices, status[i] \notin {"void", "superseded"}
    PROVE  replacedBy[i] = NoDoc /\ \A j \in Invoices : original[j] # i
<1>1. NoDoc \notin Invoices
  BY RowIds
<1> QED
  BY <1>1 DEF ReplaceInv, Replaced, ReplacedOnce

\* A step keeps them that writes no reference and moves the status or the
\* period of open invoices only, or takes a period away.
LEMMA ReferencesStay ==
    ASSUME ReplaceInv, UNCHANGED <<replacedBy, original>>,
           \A k \in Invoices :
               \/ status'[k] = status[k] /\ period'[k] \in {period[k], "none"}
               \/ /\ status[k] \notin {"void", "superseded"}
                  /\ status'[k] \notin {"absent", "superseded"}
    PROVE  Replaced'
<1>1. \A k \in Invoices : status[k] \notin {"void", "superseded"} =>
          replacedBy[k] = NoDoc /\ \A j \in Invoices : original[j] # k
  BY OpenHasNoReplacement
<1>2. ReplacedOnce'
  <2> SUFFICES ASSUME NEW i \in Invoices
               PROVE  /\ status'[i] = "superseded" <=> replacedBy[i] # NoDoc
                      /\ replacedBy[i] # NoDoc => original[replacedBy[i]] = i
                      /\ \A j, k \in Invoices : original[j] = i /\ original[k] = i => j = k
                      /\ \A j \in Invoices : original[j] = i =>
                             status'[i] = "void" \/ replacedBy[i] = j
    BY DEF ReplacedOnce
  <2> QED BY <1>1 DEF ReplaceInv, Replaced, ReplacedOnce
<1>3. VoidGaveItsPeriod'
  BY <1>1 DEF ReplaceInv, Replaced, VoidGaveItsPeriod
<1>4. ReplacementExists'
  BY DEF ReplaceInv, Replaced, ReplacementExists
<1> QED
  BY <1>2, <1>3, <1>4 DEF Replaced

LEMMA ReplaceInvStep ==
    ASSUME Overlap = FALSE, ReplaceInv, [Next]_vars
    PROVE  ReplaceInv'
<1>0. TypeOK /\ SerialInv'
  BY SerialStep DEF ReplaceInv, SerialInv
<1>a. /\ status \in [Invoices -> InvoiceStatus]
      /\ period \in [Invoices -> {"none", "invoiced", "paid", "cancelled"}]
      /\ replacedBy \in [Invoices -> Invoices \cup {NoDoc}]
      /\ original \in [Invoices -> Invoices \cup {NoDoc}]
      /\ NoDoc \notin Invoices
  BY <1>0, RowIds DEF TypeOK
<1>1. ASSUME NEW i \in Invoices, NEW t \in Amounts, NEW st \in {"draft", "issued"},
             NEW b \in BOOLEAN, CreateInvoice(i, t, st, b)
      PROVE  Replaced'
  BY <1>1, <1>a, ReferencesStay DEF CreateInvoice
<1>2. ASSUME NEW i \in Invoices, NEW t \in Amounts, NEW old \in Invoices \cup {NoDoc},
             CreatePeriodInvoice(i, t, old)
      PROVE  Replaced'
  <2>1. /\ status[i] = "absent" /\ status' = [status EXCEPT ![i] = "issued"]
        /\ original' = [original EXCEPT ![i] = old] /\ replacedBy' = replacedBy
        /\ old \in Invoices => status[old] = "void" /\ period[old] # "none" /\ period'[old] = "none"
        /\ \A k \in Invoices : k # i /\ k # old => period'[k] = period[k]
    BY <1>2, <1>a DEF CreatePeriodInvoice, Reopenable
  <2>2. old \in Invoices => \A k \in Invoices : original[k] # old
    BY <2>1, <1>a DEF ReplaceInv, Replaced, VoidGaveItsPeriod
  <2>3. \A k \in Invoices : original[k] # i /\ replacedBy[k] # i
    BY <2>1, <1>a, OpenHasNoReplacement DEF ReplaceInv, Replaced, ReplacementExists
  <2>4. ReplacedOnce'
    <3> SUFFICES ASSUME NEW x \in Invoices
                 PROVE  /\ status'[x] = "superseded" <=> replacedBy'[x] # NoDoc
                        /\ replacedBy'[x] # NoDoc => original'[replacedBy'[x]] = x
                        /\ \A j, k \in Invoices : original'[j] = x /\ original'[k] = x => j = k
                        /\ \A j \in Invoices : original'[j] = x =>
                               status'[x] = "void" \/ replacedBy'[x] = j
      BY DEF ReplacedOnce
    <3>1. /\ status[x] = "superseded" <=> replacedBy[x] # NoDoc
          /\ replacedBy[x] # NoDoc => original[replacedBy[x]] = x
          /\ \A j, k \in Invoices : original[j] = x /\ original[k] = x => j = k
          /\ \A j \in Invoices : original[j] = x => status[x] = "void" \/ replacedBy[x] = j
      BY DEF ReplaceInv, Replaced, ReplacedOnce
    <3> QED BY <1>a, <2>1, <2>2, <2>3, <3>1
  <2>5. VoidGaveItsPeriod'
    BY <1>a, <2>1, <2>3 DEF ReplaceInv, Replaced, VoidGaveItsPeriod
  <2>6. ReplacementExists'
    BY <1>a, <2>1 DEF ReplaceInv, Replaced, ReplacementExists
  <2> QED BY <2>4, <2>5, <2>6 DEF Replaced
<1>3. ASSUME NEW old \in Invoices, ReopenPeriod(old)
      PROVE  Replaced'
  BY <1>3, <1>a, ReferencesStay DEF ReopenPeriod
<1>4. ASSUME NEW q \in Requests, NEW i \in Invoices, CheckDraftEdit(q, i) \/ CheckReissue(q, i)
      PROVE  Replaced'
  BY <1>4, <1>a, ReferencesStay DEF CheckDraftEdit, CheckReissue
<1>5. ASSUME NEW q \in Requests, NEW t \in Amounts, NEW st \in {"draft", "issued"},
             NEW b \in BOOLEAN, WriteDraftEdit(q, t, st, b)
      PROVE  Replaced'
  <2>1. req[q].invoice \in Invoices /\ status[req[q].invoice] = "draft"
    BY <1>5 DEF WriteDraftEdit, ReplaceInv, SerialInv, HeldIsFresh
  <2> QED BY <1>5, <1>a, <2>1, ReferencesStay DEF WriteDraftEdit
<1>6. ASSUME NEW q \in Requests, AbandonRequest(q)
      PROVE  Replaced'
  BY <1>6, <1>a, ReferencesStay DEF AbandonRequest
<1>7. ASSUME NEW i \in Invoices, VoidInvoice(i) \/ VoidSubscriptionInvoice(i)
      PROVE  Replaced'
  BY <1>7, <1>a, ReferencesStay DEF VoidInvoice, VoidSubscriptionInvoice, CanVoid, Untouched
<1>8. ASSUME NEW q \in Requests, NEW j \in Invoices, NEW t \in Amounts, WriteReissue(q, j, t)
      PROVE  Replaced'
  <2> DEFINE i == req[q].invoice
  <2>1. i \in Invoices /\ status[i] = "issued"
    BY <1>8 DEF WriteReissue, ReplaceInv, SerialInv, HeldIsFresh, CanReissue, Untouched
  <2>2. /\ status[j] = "absent" /\ i # j
        /\ status' = [status EXCEPT ![j] = "draft", ![i] = "superseded"]
        /\ original' = [original EXCEPT ![j] = i] /\ replacedBy' = [replacedBy EXCEPT ![i] = j]
        /\ period' = [period EXCEPT ![i] = "none",
                                    ![j] = IF period[i] = "none" THEN "none" ELSE "invoiced"]
    BY <1>8, <2>1 DEF WriteReissue
  <2> HIDE DEF i
  <2>3. \A k \in Invoices : original[k] # i /\ original[k] # j /\ replacedBy[k] # j
    BY <1>a, <2>1, <2>2, OpenHasNoReplacement DEF ReplaceInv, Replaced, ReplacementExists
  <2>4. replacedBy[i] = NoDoc /\ replacedBy[j] = NoDoc
    BY <2>1, <2>2, OpenHasNoReplacement
  <2>5. ReplacedOnce'
    <3> SUFFICES ASSUME NEW x \in Invoices
                 PROVE  /\ status'[x] = "superseded" <=> replacedBy'[x] # NoDoc
                        /\ replacedBy'[x] # NoDoc => original'[replacedBy'[x]] = x
                        /\ \A k, l \in Invoices : original'[k] = x /\ original'[l] = x => k = l
                        /\ \A k \in Invoices : original'[k] = x =>
                               status'[x] = "void" \/ replacedBy'[x] = k
      BY DEF ReplacedOnce
    <3>1. /\ status[x] = "superseded" <=> replacedBy[x] # NoDoc
          /\ replacedBy[x] # NoDoc => original[replacedBy[x]] = x
          /\ \A k, l \in Invoices : original[k] = x /\ original[l] = x => k = l
          /\ \A k \in Invoices : original[k] = x => status[x] = "void" \/ replacedBy[x] = k
      BY DEF ReplaceInv, Replaced, ReplacedOnce
    <3> QED BY <1>a, <2>1, <2>2, <2>3, <2>4, <3>1
  <2>6. VoidGaveItsPeriod'
    BY <1>a, <2>1, <2>2, <2>3 DEF ReplaceInv, Replaced, VoidGaveItsPeriod
  <2>7. ReplacementExists'
    BY <1>a, <2>1, <2>2, <2>3 DEF ReplaceInv, Replaced, ReplacementExists
  <2> QED BY <2>5, <2>6, <2>7 DEF Replaced
<1>9. ASSUME NEW n \in Notes, NEW i \in Invoices, NEW asked \in Amounts,
              NEW a \in NoteTotals(asked), CreateCreditNote(n, i, asked, a)
      PROVE  Replaced'
  <2>1. /\ status[i] \notin {"void", "superseded"} /\ UNCHANGED <<replacedBy, original>>
        /\ status'[i] \notin {"absent", "superseded"}
        /\ \A k \in Invoices : k # i => status'[k] = status[k] /\ period'[k] = period[k]
    BY <1>9, <1>a DEF CreateCreditNote, CanCreateCreditNote, SyncAfterCredit, SettledStatus
  <2> QED BY <2>1, ReferencesStay
<1>10. ASSUME NEW n \in Notes, VoidCreditNote(n)
       PROVE  Replaced'
  <2> DEFINE i == notes[n].invoice
  <2>1. /\ status[i] \notin {"void", "superseded"} /\ UNCHANGED <<replacedBy, original>>
        /\ \A k \in Invoices : k = i => status'[k] = SettledStatus(receipts, notes', k)
        /\ \A k \in Invoices : k # i => status'[k] = status[k] /\ period'[k] = period[k]
    BY <1>10, <1>a DEF VoidCreditNote, SyncAfterCredit
  <2>2. \A k \in Invoices : SettledStatus(receipts, notes', k) \notin {"absent", "superseded"}
    BY DEF SettledStatus
  <2> QED BY <2>1, <2>2, ReferencesStay
<1>11. ASSUME NEW r \in Receipts, NEW i \in Invoices, NEW a \in Amounts,
              NEW ref \in Refs \cup {NoRef}, RegisterPayment(r, i, a, ref)
       PROVE  Replaced'
  <2>1. /\ status[i] \notin {"void", "superseded"} /\ UNCHANGED <<replacedBy, original>>
        /\ status'[i] \notin {"absent", "superseded"}
        /\ \A k \in Invoices : k # i => status'[k] = status[k] /\ period'[k] = period[k]
    BY <1>11, <1>a DEF RegisterPayment, CanRegisterPayment
  <2> QED BY <2>1, ReferencesStay
<1>12. ASSUME UNCHANGED vars PROVE Replaced'
  BY <1>12, <1>a, ReferencesStay DEF vars
<1>13. Replaced'
  BY <1>1, <1>2, <1>3, <1>4, <1>5, <1>6, <1>7, <1>8, <1>9, <1>10, <1>11, <1>12 DEF Next
<1> QED
  BY <1>0, <1>13 DEF ReplaceInv

\* No debt is billed by two replacements, through any number of reissues, voids
\* and renewals of reopened periods.
THEOREM DebtsReplacedOnce ==
    ASSUME Overlap = FALSE
    PROVE  Spec => []ReplacedOnce
<1>1. ReplaceInv => ReplacedOnce
  BY DEF ReplaceInv, Replaced
<1>2. ReplaceInv /\ [Next]_vars => ReplaceInv'
  BY ReplaceInvStep
<1> QED
  BY <1>1, <1>2, ReplaceInvInit, PTL DEF Spec

=============================================================================
