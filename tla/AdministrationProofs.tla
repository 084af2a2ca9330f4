------------------------- MODULE AdministrationProofs --------------------------
(*****************************************************************************)
(* Proofs about the administration of technicians, fields and customers, for *)
(* every number of them: the work reports and payments of technicians        *)
(* (WorkReports), the values of custom fields (CustomFields), the trail of    *)
(* changes of customers (CustomerRecords) and the snapshots that replace what *)
(* is installed at a customer (AssetSnapshots).                              *)
(*****************************************************************************)
EXTENDS WorkReports, CustomFields, AssetSnapshots, SequenceTheorems, TLAPS

-----------------------------------------------------------------------------
(* The inductive invariant: PaymentsAgree with its parts in the form the     *)
(* steps need, and the bound on the records of a report.                        *)

LastInForce ==
    \A r \in Reports : \A i \in DOMAIN pays[r] :
        /\ report[r].status = "APPROVED"
        /\ i < Len(pays[r]) => pays[r][i].status = "VOIDED"

Bounded == \A r \in Reports : Len(pays[r]) <= MaxPayments

PaymentsReplaced ==
    \A r \in Reports : \A i, j \in DOMAIN pays[r] :
        pays[r][i].replaces # 0 =>
            /\ pays[r][i].replaces \in 1..(i - 1)
            /\ pays[r][pays[r][i].replaces].status = "VOIDED"
            /\ pays[r][j].replaces = pays[r][i].replaces => i = j

BatchesReplaced ==
    \A b, c \in Batches :
        batch[b].replaces # None =>
            /\ batch[batch[b].replaces].status = "VOIDED"
            /\ Cover(batch[b].replaces) = Cover(b)
            /\ batch[c].replaces = batch[b].replaces => b = c

\* Of one report.
OfOwnReport == TypeOK /\ Bounded /\ LastInForce /\ SnapshotsStayTrue /\ PaymentsReplaced

PayInv == OfOwnReport /\ BatchMovesWhole /\ BatchesReplaced

-----------------------------------------------------------------------------
LEMMA PayInvInit == Init => PayInv
<1> SUFFICES ASSUME Init PROVE PayInv
  OBVIOUS
<1>1. TypeOK
  BY Amounts DEF Init, TypeOK, Report, Payment, Batch
<1>2. \A r \in Reports : pays[r] = <<>>
  BY DEF Init
<1>3. \A b \in Batches : Cover(b) = {} /\ batch[b].status = "none" /\ batch[b].replaces = None
  BY <1>2 DEF Init, Cover
<1>4. Bounded /\ LastInForce /\ SnapshotsStayTrue /\ PaymentsReplaced
  BY <1>2, Amounts DEF Bounded, LastInForce, SnapshotsStayTrue, PaymentsReplaced
<1>5. BatchMovesWhole /\ BatchesReplaced
  BY <1>2, <1>3 DEF BatchMovesWhole, BatchesReplaced
<1> QED BY <1>1, <1>4, <1>5 DEF PayInv, OfOwnReport

LEMMA CoverTyped ==
    ASSUME TypeOK, NEW b \in Batches
    PROVE  Cover(b) \subseteq Reports
  BY DEF Cover

-----------------------------------------------------------------------------
(* Steps of the report: they leave payments alone, and a report that has one     *)
(* keeps its status, amount and technician.                                     *)

LEMMA ReportChanged ==
    ASSUME PayInv, NEW r \in Reports, NEW new \in Report,
           report' = [report EXCEPT ![r] = new], UNCHANGED <<pays, batch, active>>,
           pays[r] # <<>> => new = report[r]
    PROVE  PayInv'
<1>1. report \in [Reports -> Report] /\ report' \in [Reports -> Report]
  BY DEF PayInv, OfOwnReport, TypeOK
<1>2. TypeOK'
  BY <1>1 DEF PayInv, OfOwnReport, TypeOK
<1>3. \A q \in Reports : pays[q] # <<>> => report'[q] = report[q]
  BY <1>1
<1>4. \A q \in Reports : \A i \in DOMAIN pays[q] : pays[q] # <<>>
  BY DEF PayInv, OfOwnReport, TypeOK
<1>5. Bounded' /\ PaymentsReplaced'
  BY DEF PayInv, OfOwnReport, Bounded, PaymentsReplaced
<1>6. LastInForce' /\ SnapshotsStayTrue'
  BY <1>3, <1>4 DEF PayInv, OfOwnReport, LastInForce, SnapshotsStayTrue
<1>7. \A b \in Batches : Cover(b)' = Cover(b) /\ \A q \in Cover(b) : q \in Reports /\ report'[q] = report[q]
  BY <1>3, <1>4 DEF Cover
<1>8. BatchMovesWhole'
  BY <1>7 DEF PayInv, BatchMovesWhole
<1>9. BatchesReplaced'
  BY DEF PayInv, BatchesReplaced, Cover
<1> QED BY <1>2, <1>5, <1>6, <1>8, <1>9 DEF PayInv, OfOwnReport

\* A report that is not approved has no payment.
LEMMA NotApprovedNotPaid ==
    ASSUME PayInv, NEW r \in Reports, report[r].status # "APPROVED"
    PROVE  pays[r] = <<>>
<1>1. pays[r] \in Seq(Payment)
  BY DEF PayInv, OfOwnReport, TypeOK
<1>2. DOMAIN pays[r] = {}
  BY DEF PayInv, OfOwnReport, LastInForce
<1>3. Len(pays[r]) = 0
  <2>1. Len(pays[r]) \in Nat /\ DOMAIN pays[r] = 1..Len(pays[r])
    BY <1>1
  <2>2. 1 \notin 1..Len(pays[r])
    BY <1>2, <2>1
  <2> QED BY <2>1, <2>2
<1> QED BY <1>1, <1>3

LEMMA RowOfReport ==
    ASSUME NEW row \in Report, NEW st \in {"DRAFT", "SUBMITTED", "REJECTED", "APPROVED"},
           NEW a \in 0..MaxAmount
    PROVE  [row EXCEPT !.status = st] \in Report /\ [row EXCEPT !.amount = a] \in Report
  BY DEF Report

LEMMA ReportTyped ==
    ASSUME PayInv, NEW r \in Reports
    PROVE  report[r] \in Report
  BY DEF PayInv, OfOwnReport, TypeOK

LEMMA ReportHandlers ==
    ASSUME PayInv, NEW r \in Reports, NEW a \in 0..MaxAmount,
           \/ \E t \in Technicians : CreateReport(r, t, a)
           \/ UpdateOwnReport(r, a) \/ CorrectApprovedReport(r, a)
           \/ SubmitReport(r) \/ ApproveReport(r) \/ RejectReport(r)
    PROVE  PayInv'
<1>1. ASSUME NEW t \in Technicians, CreateReport(r, t, a) PROVE PayInv'
  <2>1. [status |-> "DRAFT", technician |-> t, amount |-> a] \in Report
    BY DEF Report
  <2>2. pays[r] = <<>>
    BY <1>1, NotApprovedNotPaid DEF CreateReport
  <2> QED BY <1>1, <2>1, <2>2, ReportChanged DEF CreateReport
<1>2. CASE UpdateOwnReport(r, a)
  <2>1. [report[r] EXCEPT !.amount = a] \in Report
    BY RowOfReport, ReportTyped
  <2>2. pays[r] = <<>>
    BY <1>2, NotApprovedNotPaid DEF UpdateOwnReport, Editable
  <2> QED BY <1>2, <2>1, <2>2, ReportChanged DEF UpdateOwnReport
<1>3. CASE CorrectApprovedReport(r, a)
  <2>1. [report[r] EXCEPT !.amount = a] \in Report
    BY RowOfReport, ReportTyped
  <2>2. pays[r] # <<>> => a = report[r].amount
    BY <1>3 DEF CorrectApprovedReport, AmountCorrectable
  <2>3. pays[r] # <<>> => [report[r] EXCEPT !.amount = a] = report[r]
    BY <2>2, ReportTyped DEF Report
  <2> QED BY <1>3, <2>1, <2>3, ReportChanged DEF CorrectApprovedReport
<1>4. ASSUME NEW st \in {"SUBMITTED", "APPROVED", "REJECTED"}, Moved(r, st),
             report[r].status # "APPROVED", UNCHANGED <<pays, batch, active>>
      PROVE  PayInv'
  <2>1. [report[r] EXCEPT !.status = st] \in Report
    BY RowOfReport, ReportTyped, Amounts
  <2> QED BY <1>4, <2>1, NotApprovedNotPaid, ReportChanged DEF Moved
<1>5. CASE SubmitReport(r)
  BY <1>4, <1>5 DEF SubmitReport, Editable
<1>6. CASE ApproveReport(r)
  BY <1>4, <1>6 DEF ApproveReport
<1>7. CASE RejectReport(r)
  BY <1>4, <1>7 DEF RejectReport
<1> QED BY <1>1, <1>2, <1>3, <1>5, <1>6, <1>7

-----------------------------------------------------------------------------
(* New payments: one row is appended for each report of S.                       *)

Extended(S, row) ==
    pays' = [r \in Reports |-> IF r \in S THEN Append(pays[r], row[r]) ELSE pays[r]]

LEMMA ExtendedIn ==
    ASSUME TypeOK, NEW S \in SUBSET Reports, NEW row \in [S -> Payment], Extended(S, row),
           NEW r \in S
    PROVE  /\ pays'[r] \in Seq(Payment) /\ Len(pays'[r]) = Len(pays[r]) + 1
           /\ Len(pays[r]) + 1 \in DOMAIN pays'[r]
           /\ pays'[r][Len(pays[r]) + 1] = row[r]
           /\ \A i \in DOMAIN pays[r] : i \in DOMAIN pays'[r] /\ pays'[r][i] = pays[r][i]
           /\ \A i \in DOMAIN pays'[r] : i \in DOMAIN pays[r] \/ i = Len(pays[r]) + 1
<1>1. pays'[r] = Append(pays[r], row[r]) /\ row[r] \in Payment /\ pays[r] \in Seq(Payment)
  BY DEF Extended, TypeOK
<1> QED BY <1>1

LEMMA ExtendedOut ==
    ASSUME NEW S \in SUBSET Reports, NEW row, Extended(S, row), NEW r \in Reports \ S
    PROVE  pays'[r] = pays[r]
  BY DEF Extended

\* What the guard of a new payment says of the rows there are.
LEMMA PayableFacts ==
    ASSUME PayInv, NEW r \in Reports, Payable(r)
    PROVE  /\ report[r].status = "APPROVED" /\ Len(pays[r]) < MaxPayments
           /\ \A i \in DOMAIN pays[r] : pays[r][i].status = "VOIDED"
  BY DEF Payable, Unpaid

\* The parts that concern one report.
LEMMA ExtendedOwn ==
    ASSUME PayInv, NEW S \in SUBSET Reports, NEW row \in [S -> Payment], Extended(S, row),
           UNCHANGED <<report, active>>, batch' \in [Batches -> Batch],
           \A r \in S : Payable(r) /\ row[r].agreed = report[r].amount,
           \A r \in S : row[r].replaces # 0 => /\ row[r].replaces \in DOMAIN pays[r]
                                               /\ Replaceable(r, row[r].replaces)
    PROVE  OfOwnReport'
<1>0. TypeOK
  BY DEF PayInv, OfOwnReport
<1>1. TypeOK'
  <2>1. pays' = [r \in Reports |-> pays'[r]]
    BY DEF Extended
  <2>2. ASSUME NEW r \in Reports PROVE pays'[r] \in Seq(Payment)
    <3>1. CASE r \in S
      BY <1>0, <3>1, ExtendedIn
    <3>2. CASE r \notin S
      BY <1>0, <3>2, ExtendedOut DEF TypeOK
    <3> QED BY <3>1, <3>2
  <2>3. pays' \in [Reports -> Seq(Payment)]
    BY <2>1, <2>2
  <2> QED BY <1>0, <2>3 DEF TypeOK
<1> SUFFICES ASSUME NEW r \in Reports
             PROVE  /\ Len(pays'[r]) <= MaxPayments
                    /\ \A i \in DOMAIN pays'[r] :
                          /\ report[r].status = "APPROVED"
                          /\ i < Len(pays'[r]) => pays'[r][i].status = "VOIDED"
                          /\ pays'[r][i].agreed = report[r].amount
                    /\ \A i, j \in DOMAIN pays'[r] :
                          pays'[r][i].replaces # 0 =>
                              /\ pays'[r][i].replaces \in 1..(i - 1)
                              /\ pays'[r][pays'[r][i].replaces].status = "VOIDED"
                              /\ pays'[r][j].replaces = pays'[r][i].replaces => i = j
  BY <1>1 DEF OfOwnReport, Bounded, LastInForce, SnapshotsStayTrue, PaymentsReplaced
<1> DEFINE n == Len(pays[r])
<1>2. /\ pays[r] \in Seq(Payment) /\ n \in Nat /\ n <= MaxPayments /\ DOMAIN pays[r] = 1..n
      /\ \A i \in 1..n : /\ report[r].status = "APPROVED"
                         /\ i < n => pays[r][i].status = "VOIDED"
                         /\ pays[r][i].agreed = report[r].amount
  BY <1>0 DEF PayInv, OfOwnReport, TypeOK, Bounded, LastInForce, SnapshotsStayTrue
<1>3. \A i, j \in 1..n :
          pays[r][i].replaces # 0 => /\ pays[r][i].replaces \in 1..(i - 1)
                                     /\ pays[r][pays[r][i].replaces].status = "VOIDED"
                                     /\ pays[r][j].replaces = pays[r][i].replaces => i = j
  BY <1>2 DEF PayInv, OfOwnReport, PaymentsReplaced
<1>4. CASE r \notin S
  <2>1. pays'[r] = pays[r]
    BY <1>4, ExtendedOut
  <2> QED BY <1>2, <1>3, <2>1
<1>5. CASE r \in S
  <2>1. /\ pays'[r] \in Seq(Payment) /\ Len(pays'[r]) = n + 1 /\ pays'[r][n + 1] = row[r]
        /\ \A i \in 1..n : pays'[r][i] = pays[r][i]
    <3>1. /\ pays'[r] \in Seq(Payment) /\ Len(pays'[r]) = Len(pays[r]) + 1
          /\ pays'[r][Len(pays[r]) + 1] = row[r]
          /\ \A i \in DOMAIN pays[r] : pays'[r][i] = pays[r][i]
      BY <1>0, <1>5, ExtendedIn, ZenonT(60)
    <3> QED BY <1>2, <3>1
  <2>2. DOMAIN pays'[r] = 1..(n + 1)
    BY <2>1
  <2>3. /\ report[r].status = "APPROVED" /\ n < MaxPayments
        /\ \A i \in 1..n : pays[r][i].status = "VOIDED"
        /\ row[r].agreed = report[r].amount
    BY <1>2, <1>5, PayableFacts
  <2>4. row[r].replaces # 0 => /\ row[r].replaces \in 1..n
                               /\ \A j \in 1..n : pays[r][j].replaces # row[r].replaces
    BY <1>2, <1>5 DEF Replaceable
  <2> HIDE DEF n
  <2>5. n + 1 <= MaxPayments
    BY <1>2, <2>3, Amounts
  <2>6. \A i \in 1..(n + 1) : i \in 1..n \/ i = n + 1
    BY <1>2
  <2>7. \A i \in 1..(n + 1) : /\ i < n + 1 => pays'[r][i].status = "VOIDED"
                              /\ pays'[r][i].agreed = report[r].amount
    BY <1>2, <2>1, <2>3, <2>6
  <2>8. ASSUME NEW i \in 1..(n + 1), NEW j \in 1..(n + 1), pays'[r][i].replaces # 0
        PROVE  /\ pays'[r][i].replaces \in 1..(i - 1)
               /\ pays'[r][pays'[r][i].replaces].status = "VOIDED"
               /\ pays'[r][j].replaces = pays'[r][i].replaces => i = j
    <3>1. CASE i = n + 1
      <4>1. pays'[r][i] = row[r] /\ row[r].replaces \in 1..n
        BY <2>1, <2>4, <2>8, <3>1
      <4>2. row[r].replaces \in 1..(i - 1)
        BY <1>2, <3>1, <4>1
      <4>3. pays'[r][row[r].replaces].status = "VOIDED"
        BY <2>1, <2>3, <4>1
      <4>4. j # i => pays'[r][j].replaces # row[r].replaces
        BY <2>1, <2>4, <2>6, <2>8, <3>1, <4>1
      <4> QED BY <4>1, <4>2, <4>3, <4>4
    <3>2. CASE i \in 1..n
      <4>1. pays'[r][i] = pays[r][i]
        BY <2>1, <3>2
      <4>2. pays[r][i].replaces \in 1..(i - 1)
        BY <1>3, <2>8, <3>2, <4>1
      <4>3. pays[r][i].replaces \in 1..n
        BY <1>2, <3>2, <4>2
      <4>4. pays'[r][pays[r][i].replaces].status = "VOIDED"
        BY <2>1, <2>3, <4>3
      <4>5. CASE j \in 1..n
        BY <1>3, <2>1, <2>8, <3>2, <4>1, <4>2, <4>4, <4>5
      <4>6. CASE j = n + 1
        <5>1. pays'[r][j].replaces # pays[r][i].replaces
          BY <2>1, <2>4, <2>8, <3>2, <4>1, <4>6
        <5> QED BY <4>1, <4>2, <4>4, <5>1
      <4> QED BY <2>6, <4>5, <4>6
    <3> QED BY <2>6, <3>1, <3>2
  <2> QED BY <2>1, <2>2, <2>3, <2>5, <2>7, <2>8
<1> QED BY <1>4, <1>5

\* The reports of a batch after the step.
CoverNext(b) == { r \in Reports : \E i \in DOMAIN pays'[r] : pays'[r][i].batch = b }

LEMMA ExtendedCover ==
    ASSUME PayInv, NEW S \in SUBSET Reports, NEW row \in [S -> Payment], Extended(S, row),
           NEW b, \A r \in S : row[r].batch = b, NEW c \in Batches
    PROVE  CoverNext(c) = IF c = b THEN Cover(c) \cup S ELSE Cover(c)
<1>0. TypeOK
  BY DEF PayInv, OfOwnReport
<1>1. ASSUME NEW r \in Reports
      PROVE  (\E i \in DOMAIN pays'[r] : pays'[r][i].batch = c)
                <=> \/ \E i \in DOMAIN pays[r] : pays[r][i].batch = c
                    \/ r \in S /\ b = c
  <2>1. CASE r \in S
    <3>1. /\ \A i \in DOMAIN pays[r] : i \in DOMAIN pays'[r] /\ pays'[r][i] = pays[r][i]
          /\ \A i \in DOMAIN pays'[r] : i \in DOMAIN pays[r] \/ i = Len(pays[r]) + 1
          /\ pays'[r][Len(pays[r]) + 1] = row[r] /\ row[r].batch = b
      BY <1>0, <2>1, ExtendedIn
    <3>2. Len(pays[r]) + 1 \in DOMAIN pays'[r]
      BY <1>0, <2>1, ExtendedIn
    <3> QED BY <2>1, <3>1, <3>2
  <2>2. CASE r \notin S
    <3>1. pays'[r] = pays[r]
      BY <2>2, ExtendedOut
    <3> QED BY <2>2, <3>1
  <2> QED BY <2>1, <2>2
<1> QED BY <1>1 DEF Cover, CoverNext

\* The row that was appended, or one that was there.
LEMMA ExtendedRows ==
    ASSUME PayInv, NEW S \in SUBSET Reports, NEW row \in [S -> Payment], Extended(S, row),
           NEW r \in Reports, NEW i \in DOMAIN pays'[r]
    PROVE  \/ i \in DOMAIN pays[r] /\ pays'[r][i] = pays[r][i]
           \/ r \in S /\ pays'[r][i] = row[r] /\ i = Len(pays[r]) + 1
<1>1. CASE r \in S
  <2>1. TypeOK
    BY DEF PayInv, OfOwnReport
  <2>2. /\ pays'[r][Len(pays[r]) + 1] = row[r]
        /\ \A j \in DOMAIN pays[r] : pays'[r][j] = pays[r][j]
        /\ \A j \in DOMAIN pays'[r] : j \in DOMAIN pays[r] \/ j = Len(pays[r]) + 1
    BY <1>1, <2>1, ExtendedIn, ZenonT(60)
  <2> QED BY <1>1, <2>2
<1>2. CASE r \notin S
  BY <1>2, ExtendedOut
<1> QED BY <1>1, <1>2

\* A payment of its own belongs to no batch.
LEMMA ExtendedAlone ==
    ASSUME PayInv, NEW S \in SUBSET Reports, NEW row \in [S -> Payment], Extended(S, row),
           \A r \in S : row[r].batch = None, UNCHANGED <<report, batch>>
    PROVE  BatchMovesWhole' /\ BatchesReplaced'
<1>1. \A c \in Batches : CoverNext(c) = Cover(c)
  BY ExtendedCover, NullIds
<1>2. BatchMovesWhole'
  <2> SUFFICES ASSUME NEW b \in Batches
               PROVE  /\ batch[b].status # "none" <=> CoverNext(b) # {}
                      /\ \A r, q \in CoverNext(b) : report[r].technician = report[q].technician
                      /\ \A r \in Reports : \A i, j \in DOMAIN pays'[r] :
                            pays'[r][i].batch = b => /\ pays'[r][i].status = batch[b].status
                                                     /\ pays'[r][j].batch = b => i = j
    BY DEF BatchMovesWhole, Cover, CoverNext
  <2>1. ASSUME NEW r \in Reports, NEW i \in DOMAIN pays'[r], pays'[r][i].batch = b
        PROVE  i \in DOMAIN pays[r] /\ pays'[r][i] = pays[r][i]
    BY <2>1, ExtendedRows, NullIds
  <2> QED BY <1>1, <2>1 DEF PayInv, BatchMovesWhole
<1>3. BatchesReplaced'
  <2> SUFFICES ASSUME NEW c \in Batches, NEW d \in Batches, batch[c].replaces # None
               PROVE  /\ batch[batch[c].replaces].status = "VOIDED"
                      /\ CoverNext(batch[c].replaces) = CoverNext(c)
                      /\ batch[d].replaces = batch[c].replaces => c = d
    BY DEF BatchesReplaced, Cover, CoverNext
  <2>1. batch[c].replaces \in Batches
    BY DEF PayInv, OfOwnReport, TypeOK, Batch
  <2> QED BY <1>1, <2>1 DEF PayInv, BatchesReplaced
<1> QED BY <1>2, <1>3

\* A new batch.
LEMMA ExtendedBatch ==
    ASSUME PayInv, NEW S \in SUBSET Reports, NEW row \in [S -> Payment], Extended(S, row),
           NEW b \in Batches, NEW old \in Batches \cup {None}, UNCHANGED report,
           batch[b].status = "none", BatchAccepted(S), BatchReplaceable(old, S),
           \A r \in S : row[r].batch = b /\ row[r].status = "AWAITING",
           batch' = [batch EXCEPT ![b] = [status |-> "AWAITING", replaces |-> old]]
    PROVE  BatchMovesWhole' /\ BatchesReplaced'
<1>0. batch \in [Batches -> Batch]
  BY DEF PayInv, OfOwnReport, TypeOK
<1>1. Cover(b) = {}
  BY DEF PayInv, BatchMovesWhole
<1>2. CoverNext(b) = S /\ \A c \in Batches \ {b} : CoverNext(c) = Cover(c)
  <2>1. ASSUME NEW c \in Batches PROVE CoverNext(c) = IF c = b THEN Cover(c) \cup S ELSE Cover(c)
    BY ExtendedCover
  <2>2. CoverNext(b) = Cover(b) \cup S
    BY <2>1
  <2>3. \A c \in Batches \ {b} : CoverNext(c) = Cover(c)
    BY <2>1
  <2> QED BY <1>1, <2>2, <2>3
<1>3. /\ batch'[b].status = "AWAITING" /\ batch'[b].replaces = old
      /\ \A c \in Batches \ {b} : batch'[c] = batch[c]
  BY <1>0
<1>4. BatchMovesWhole'
  <2> SUFFICES ASSUME NEW c \in Batches
               PROVE  /\ batch'[c].status # "none" <=> CoverNext(c) # {}
                      /\ \A r, q \in CoverNext(c) : report[r].technician = report[q].technician
                      /\ \A r \in Reports : \A i, j \in DOMAIN pays'[r] :
                            pays'[r][i].batch = c => /\ pays'[r][i].status = batch'[c].status
                                                     /\ pays'[r][j].batch = c => i = j
    BY DEF BatchMovesWhole, Cover, CoverNext
  <2>1. CASE c = b
    <3>1. ASSUME NEW r \in Reports, NEW i \in DOMAIN pays'[r], pays'[r][i].batch = b
          PROVE  pays'[r][i].status = "AWAITING" /\ i = Len(pays[r]) + 1
      <4>1. ~(i \in DOMAIN pays[r] /\ pays[r][i].batch = b)
        BY <1>1 DEF Cover
      <4> QED BY <3>1, <4>1, ExtendedRows
    <3> QED BY <1>2, <1>3, <2>1, <3>1 DEF BatchAccepted
  <2>2. CASE c # b
    <3>1. ASSUME NEW r \in Reports, NEW i \in DOMAIN pays'[r], pays'[r][i].batch = c
          PROVE  i \in DOMAIN pays[r] /\ pays'[r][i] = pays[r][i]
      BY <2>2, <3>1, ExtendedRows
    <3> QED BY <1>2, <1>3, <2>2, <3>1 DEF PayInv, BatchMovesWhole
  <2> QED BY <2>1, <2>2
<1>5. BatchesReplaced'
  <2> SUFFICES ASSUME NEW c \in Batches, NEW d \in Batches, batch'[c].replaces # None
               PROVE  /\ batch'[batch'[c].replaces].status = "VOIDED"
                      /\ CoverNext(batch'[c].replaces) = CoverNext(c)
                      /\ batch'[d].replaces = batch'[c].replaces => c = d
    BY DEF BatchesReplaced, Cover, CoverNext
  <2>1. \A e \in Batches : batch[e].replaces \in Batches \cup {None}
    BY <1>0 DEF Batch
  <2>2. ASSUME NEW e \in Batches, e # b, batch[e].replaces # None
        PROVE  /\ batch[e].replaces \in Batches \ {b} /\ batch[batch[e].replaces].status = "VOIDED"
               /\ Cover(batch[e].replaces) = Cover(e) /\ old # batch[e].replaces
    <3>1. batch[batch[e].replaces].status = "VOIDED" /\ Cover(batch[e].replaces) = Cover(e)
      BY <2>2 DEF PayInv, BatchesReplaced
    <3>2. batch[e].replaces # b
      BY <3>1
    <3>3. old # batch[e].replaces
      BY <2>2 DEF BatchReplaceable
    <3> QED BY <2>1, <2>2, <3>1, <3>2, <3>3
  <2>3. CASE c = b
    <3>1. /\ old \in Batches /\ batch[old].status = "VOIDED" /\ Cover(old) = S
          /\ \A e \in Batches : batch[e].replaces # old
      BY <1>3, <2>3 DEF BatchReplaceable, SameReports
    <3>2. old # b
      BY <3>1
    <3> QED BY <1>2, <1>3, <2>3, <3>1, <3>2
  <2>4. CASE c # b
    <3>1. batch'[c] = batch[c]
      BY <1>3, <2>4
    <3>2. /\ batch[c].replaces \in Batches \ {b} /\ old # batch[c].replaces
          /\ batch[batch[c].replaces].status = "VOIDED"
          /\ Cover(batch[c].replaces) = Cover(c)
      BY <2>2, <2>4, <3>1
    <3>3. batch'[batch[c].replaces].status = "VOIDED"
      BY <1>3, <3>2
    <3>4. CoverNext(batch[c].replaces) = CoverNext(c)
      BY <1>2, <2>4, <3>2
    <3>5. batch'[d].replaces = batch[c].replaces => c = d
      <4>1. CASE d = b
        BY <1>3, <3>2, <4>1
      <4>2. CASE d # b
        BY <1>3, <3>1, <4>2 DEF PayInv, BatchesReplaced
      <4> QED BY <4>1, <4>2
    <3> QED BY <3>1, <3>3, <3>4, <3>5
  <2> QED BY <2>3, <2>4
<1> QED BY <1>4, <1>5

-----------------------------------------------------------------------------
(* The handlers that record payments.                                            *)

LEMMA NewPaymentTyped ==
    ASSUME PayInv, NEW r \in Reports, NEW a \in 1..MaxAmount, NEW b \in Batches \cup {None},
           NEW old \in 0..MaxPayments
    PROVE  /\ NewPayment(r, a, b, old) \in Payment
           /\ NewPayment(r, a, b, old).agreed = report[r].amount
           /\ NewPayment(r, a, b, old).batch = b
           /\ NewPayment(r, a, b, old).replaces = old
           /\ NewPayment(r, a, b, old).status = "AWAITING"
<1>1. report[r].amount \in 0..MaxAmount
  BY ReportTyped DEF Report
<1> QED BY <1>1 DEF NewPayment, Payment, Status

LEMMA PositiveAmount ==
    ASSUME NEW a \in 0..MaxAmount, Positive(a)
    PROVE  a \in 1..MaxAmount
  BY Amounts DEF Positive

\* RecordPayment, and ReplacePayment with the payment it replaces.
LEMMA OnePaymentStep ==
    ASSUME PayInv, NEW r \in Reports, NEW a \in 0..MaxAmount, NEW old \in 0..MaxPayments,
           Payable(r), Positive(a), old # 0 => old \in DOMAIN pays[r] /\ Replaceable(r, old),
           pays' = [pays EXCEPT ![r] = Append(pays[r], NewPayment(r, a, None, old))],
           UNCHANGED <<report, batch, active>>
    PROVE  PayInv'
<1> DEFINE new == NewPayment(r, a, None, old)
           row == [q \in {r} |-> new]
<1>1. new \in Payment /\ new.agreed = report[r].amount /\ new.batch = None /\ new.replaces = old
  <2>1. a \in 1..MaxAmount /\ None \in Batches \cup {None}
    BY PositiveAmount
  <2> HIDE DEF row, new
  <2>2. /\ NewPayment(r, a, None, old) \in Payment
        /\ NewPayment(r, a, None, old).agreed = report[r].amount
        /\ NewPayment(r, a, None, old).batch = None
        /\ NewPayment(r, a, None, old).replaces = old
    BY <2>1, NewPaymentTyped
  <2> QED BY <2>2 DEF new
<1> HIDE DEF new
<1>2. {r} \in SUBSET Reports /\ row \in [{r} -> Payment]
  BY <1>1
<1>3. /\ \A q \in {r} : row[q] = new
      /\ \A q \in {r} : q = r
  OBVIOUS
<1>4. Extended({r}, row)
  <2>1. pays' = [pays EXCEPT ![r] = Append(pays[r], new)]
    BY DEF new
  <2>2. DOMAIN pays = Reports
    BY DEF PayInv, OfOwnReport, TypeOK
  <2> QED BY <2>1, <2>2 DEF Extended
<1>5. batch' \in [Batches -> Batch]
  BY DEF PayInv, OfOwnReport, TypeOK
<1> HIDE DEF row
<1>6. OfOwnReport'
  BY <1>1, <1>2, <1>3, <1>4, <1>5, ExtendedOwn
<1>7. BatchMovesWhole' /\ BatchesReplaced'
  BY <1>1, <1>2, <1>3, <1>4, ExtendedAlone
<1> QED BY <1>6, <1>7 DEF PayInv

LEMMA RecordBatchStep ==
    ASSUME PayInv, NEW b \in Batches, NEW S \in SUBSET Reports, NEW paid \in [S -> 0..MaxAmount],
           NEW old \in Batches \cup {None}, RecordBatch(b, S, paid, old)
    PROVE  PayInv'
<1> DEFINE row == [r \in S |-> NewPayment(r, paid[r], b, 0)]
<1>1. \A r \in S : /\ NewPayment(r, paid[r], b, 0) \in Payment
                   /\ NewPayment(r, paid[r], b, 0).agreed = report[r].amount
                   /\ NewPayment(r, paid[r], b, 0).batch = b
                   /\ NewPayment(r, paid[r], b, 0).replaces = 0
                   /\ NewPayment(r, paid[r], b, 0).status = "AWAITING"
  <2> SUFFICES ASSUME NEW r \in S
               PROVE  /\ NewPayment(r, paid[r], b, 0) \in Payment
                      /\ NewPayment(r, paid[r], b, 0).agreed = report[r].amount
                      /\ NewPayment(r, paid[r], b, 0).batch = b
                      /\ NewPayment(r, paid[r], b, 0).replaces = 0
                      /\ NewPayment(r, paid[r], b, 0).status = "AWAITING"
    OBVIOUS
  <2>1. paid[r] \in 1..MaxAmount
    BY PositiveAmount DEF RecordBatch
  <2>2. 0 \in 0..MaxPayments
    BY Amounts
  <2> QED BY <2>1, <2>2, NewPaymentTyped
<1>2. row \in [S -> Payment]
  BY <1>1
<1>3. \A r \in S : /\ row[r].agreed = report[r].amount /\ row[r].batch = b
                   /\ row[r].replaces = 0 /\ row[r].status = "AWAITING"
  BY <1>1
<1>4. Extended(S, row)
  BY DEF RecordBatch, Extended
<1> HIDE DEF row
<1>5. /\ batch[b].status = "none" /\ BatchAccepted(S) /\ BatchReplaceable(old, S)
      /\ batch' = [batch EXCEPT ![b] = [status |-> "AWAITING", replaces |-> old]]
      /\ UNCHANGED <<report, active>>
  BY DEF RecordBatch, NextBatch
<1>6. batch' \in [Batches -> Batch]
  BY <1>5 DEF PayInv, OfOwnReport, TypeOK, Batch, Status
<1>7. OfOwnReport'
  BY <1>2, <1>3, <1>4, <1>5, <1>6, ExtendedOwn DEF BatchAccepted
<1>8. BatchMovesWhole' /\ BatchesReplaced'
  BY <1>2, <1>3, <1>4, <1>5, ExtendedBatch, ZenonT(60)
<1> QED BY <1>7, <1>8 DEF PayInv

-----------------------------------------------------------------------------
(* Answers and voids: rows change their status only, and keep a final one.        *)

\* What a row may become.
Onward(row, next) ==
    /\ next \in Payment
    /\ next = [row EXCEPT !.status = next.status]
    /\ row.status \in {"CONFIRMED", "DISPUTED"} => next.status \in {row.status, "VOIDED"}
    /\ row.status = "VOIDED" => next.status = "VOIDED"

Restated ==
    /\ pays' \in [Reports -> Seq(Payment)]
    /\ \A r \in Reports : /\ DOMAIN pays'[r] = DOMAIN pays[r] /\ Len(pays'[r]) = Len(pays[r])
                          /\ \A i \in DOMAIN pays[r] : Onward(pays[r][i], pays'[r][i])

LEMMA PaymentMoved ==
    ASSUME NEW row \in Payment, NEW to \in Status
    PROVE  /\ [row EXCEPT !.status = to] \in Payment
           /\ [row EXCEPT !.status = to].status = to
           /\ [row EXCEPT !.status = to].agreed = row.agreed
           /\ [row EXCEPT !.status = to].batch = row.batch
           /\ [row EXCEPT !.status = to].replaces = row.replaces
  BY DEF Payment

LEMMA OnwardFacts ==
    ASSUME NEW row \in Payment, NEW next, Onward(row, next)
    PROVE  /\ next.agreed = row.agreed /\ next.batch = row.batch /\ next.replaces = row.replaces
           /\ row.status = "VOIDED" => next.status = "VOIDED"
<1>1. PICK st \in Status : next = [row EXCEPT !.status = st]
  BY DEF Onward, Payment
<1>2. next.agreed = row.agreed /\ next.batch = row.batch /\ next.replaces = row.replaces
  BY <1>1, PaymentMoved
<1> QED BY <1>2 DEF Onward

LEMMA OnwardSame ==
    ASSUME NEW row \in Payment
    PROVE  Onward(row, row)
<1>1. row = [row EXCEPT !.status = row.status]
  BY DEF Payment
<1> QED BY <1>1 DEF Onward

\* A status that is answered is not a void one.
LEMMA OnwardAnswer ==
    ASSUME NEW row \in Payment, NEW t, NEW to \in Answers(row.status, t)
    PROVE  Onward(row, [row EXCEPT !.status = to])
<1>1. to \in Status /\ row.status \in Status /\ row.status # "VOIDED"
      /\ (row.status # "AWAITING" => to = "VOIDED")
  BY DEF Answers, Payment, Status
<1> DEFINE next == [row EXCEPT !.status = to]
<1>2. next \in Payment /\ next.status = to
  BY <1>1, PaymentMoved
<1>3. next = [row EXCEPT !.status = next.status]
  BY <1>2
<1> HIDE DEF next
<1>4. Onward(row, next)
  BY <1>1, <1>2, <1>3 DEF Onward
<1> QED BY <1>4 DEF next

LEMMA RestatedOwn ==
    ASSUME PayInv, Restated, UNCHANGED report, active' \subseteq Technicians,
           batch' \in [Batches -> Batch]
    PROVE  OfOwnReport' /\ \A b : CoverNext(b) = Cover(b)
<1>0. pays \in [Reports -> Seq(Payment)]
  BY DEF PayInv, OfOwnReport, TypeOK
<1>1. ASSUME NEW r \in Reports, NEW i \in DOMAIN pays[r]
      PROVE  /\ pays'[r][i].agreed = pays[r][i].agreed
             /\ pays'[r][i].batch = pays[r][i].batch
             /\ pays'[r][i].replaces = pays[r][i].replaces
             /\ pays[r][i].status = "VOIDED" => pays'[r][i].status = "VOIDED"
  <2>1. pays[r][i] \in Payment
    BY <1>0
  <2>2. Onward(pays[r][i], pays'[r][i])
    BY DEF Restated
  <2> QED BY <2>1, <2>2, OnwardFacts
<1>2. \A r \in Reports : DOMAIN pays'[r] = DOMAIN pays[r] /\ Len(pays'[r]) = Len(pays[r])
  BY DEF Restated
<1>3. TypeOK'
  BY DEF PayInv, OfOwnReport, TypeOK, Restated
<1>4. Bounded' /\ LastInForce' /\ SnapshotsStayTrue'
  BY <1>1, <1>2 DEF PayInv, OfOwnReport, Bounded, LastInForce, SnapshotsStayTrue
<1>5. PaymentsReplaced'
  <2> SUFFICES ASSUME NEW r \in Reports, NEW i \in DOMAIN pays[r], NEW j \in DOMAIN pays[r],
                      pays'[r][i].replaces # 0
               PROVE  /\ pays'[r][i].replaces \in 1..(i - 1)
                      /\ pays'[r][pays'[r][i].replaces].status = "VOIDED"
                      /\ pays'[r][j].replaces = pays'[r][i].replaces => i = j
    BY <1>2 DEF PaymentsReplaced
  <2> DEFINE k == pays[r][i].replaces
  <2>1. pays'[r][i].replaces = k /\ pays'[r][j].replaces = pays[r][j].replaces
    BY <1>1
  <2>2. /\ k \in 1..(i - 1) /\ pays[r][k].status = "VOIDED"
        /\ pays[r][j].replaces = k => i = j
    BY <2>1 DEF PayInv, OfOwnReport, PaymentsReplaced
  <2>3. k \in DOMAIN pays[r]
    <3>1. DOMAIN pays[r] = 1..Len(pays[r]) /\ Len(pays[r]) \in Nat
      BY <1>0
    <3> HIDE DEF k
    <3> QED BY <2>2, <3>1
  <2>4. pays'[r][k].status = "VOIDED"
    BY <1>1, <2>2, <2>3
  <2> HIDE DEF k
  <2> QED BY <2>1, <2>2, <2>4
<1>6. \A b : CoverNext(b) = Cover(b)
  BY <1>1, <1>2 DEF Cover, CoverNext
<1> QED BY <1>3, <1>4, <1>5, <1>6 DEF OfOwnReport

LEMMA AnswerPaymentRestates ==
    ASSUME PayInv, NEW r \in Reports, NEW i \in DOMAIN pays[r], NEW to \in Status,
           AnswerPayment(r, i, to)
    PROVE  /\ Restated
           /\ \A q \in Reports : \A j \in DOMAIN pays[q] :
                 pays'[q][j].status # pays[q][j].status => pays[q][j].batch = None
<1>0. pays \in [Reports -> Seq(Payment)] /\ pays[r][i] \in Payment
  BY DEF PayInv, OfOwnReport, TypeOK
<1> DEFINE next == [pays[r][i] EXCEPT !.status = to]
<1>1. pays' = [pays EXCEPT ![r] = [pays[r] EXCEPT ![i] = next]]
  BY DEF AnswerPayment
<1>2. Onward(pays[r][i], next)
  BY <1>0, OnwardAnswer DEF AnswerPayment
<1>3. next \in Payment /\ pays[r][i].batch = None
  BY <1>2 DEF Onward, AnswerPayment, OnItsOwn
<1> HIDE DEF next
<1>4. /\ [pays[r] EXCEPT ![i] = next] \in Seq(Payment)
      /\ DOMAIN [pays[r] EXCEPT ![i] = next] = DOMAIN pays[r]
      /\ Len([pays[r] EXCEPT ![i] = next]) = Len(pays[r])
      /\ \A j \in DOMAIN pays[r] :
            [pays[r] EXCEPT ![i] = next][j] = IF j = i THEN next ELSE pays[r][j]
  BY <1>0, <1>3
<1>5. pays' \in [Reports -> Seq(Payment)]
  BY <1>0, <1>1, <1>4
<1>6. ASSUME NEW q \in Reports
      PROVE  /\ DOMAIN pays'[q] = DOMAIN pays[q] /\ Len(pays'[q]) = Len(pays[q])
             /\ \A j \in DOMAIN pays[q] :
                   pays'[q][j] = IF q = r /\ j = i THEN next ELSE pays[q][j]
  BY <1>0, <1>1, <1>4
<1>7. ASSUME NEW q \in Reports, NEW j \in DOMAIN pays[q] PROVE Onward(pays[q][j], pays'[q][j])
  <2>1. pays[q][j] \in Payment
    BY <1>0
  <2> QED BY <1>2, <1>6, <2>1, OnwardSame
<1> QED BY <1>3, <1>5, <1>6, <1>7 DEF Restated

LEMMA AnswerBatchRestates ==
    ASSUME PayInv, NEW b \in Batches, NEW to \in Status, AnswerBatch(b, to)
    PROVE  /\ Restated /\ batch[b].status # "VOIDED"
           /\ \A q \in Reports : \A j \in DOMAIN pays[q] :
                 pays'[q][j].status = IF pays[q][j].batch = b THEN to ELSE pays[q][j].status
<1>0. pays \in [Reports -> Seq(Payment)]
  BY DEF PayInv, OfOwnReport, TypeOK
<1>1. pays' = Transitioned(b, to)
  BY DEF AnswerBatch
<1>2. PICK t : to \in Answers(batch[b].status, t)
  BY DEF AnswerBatch
<1>3. ASSUME NEW q \in Reports, NEW j \in DOMAIN pays[q]
      PROVE  /\ pays'[q][j] = IF pays[q][j].batch = b
                              THEN [pays[q][j] EXCEPT !.status = to] ELSE pays[q][j]
             /\ Onward(pays[q][j], pays'[q][j])
             /\ pays'[q][j].status = IF pays[q][j].batch = b THEN to ELSE pays[q][j].status
  <2>1. pays[q][j] \in Payment
    BY <1>0
  <2>2. pays'[q][j] = IF pays[q][j].batch = b
                      THEN [pays[q][j] EXCEPT !.status = to] ELSE pays[q][j]
    BY <1>1 DEF Transitioned
  <2>3. CASE pays[q][j].batch = b
    <3>1. pays[q][j].status = batch[b].status
      BY <2>3 DEF PayInv, BatchMovesWhole
    <3>2. Onward(pays[q][j], [pays[q][j] EXCEPT !.status = to])
      BY <1>2, <2>1, <3>1, OnwardAnswer
    <3> QED BY <2>1, <2>2, <2>3, <3>2, PaymentMoved
  <2>4. CASE pays[q][j].batch # b
    BY <2>1, <2>2, <2>4, OnwardSame
  <2> QED BY <2>2, <2>3, <2>4
<1>4. ASSUME NEW q \in Reports
      PROVE  /\ pays'[q] \in Seq(Payment) /\ DOMAIN pays'[q] = DOMAIN pays[q]
             /\ Len(pays'[q]) = Len(pays[q])
  <2>1. pays[q] \in Seq(Payment) /\ DOMAIN pays[q] = 1..Len(pays[q]) /\ Len(pays[q]) \in Nat
    BY <1>0
  <2>2. \A j \in DOMAIN pays[q] : pays'[q][j] \in Payment
    BY <1>3 DEF Onward
  <2>3. pays'[q] = [j \in 1..Len(pays[q]) |-> pays'[q][j]]
    BY <1>1, <2>1 DEF Transitioned
  <2>4. pays'[q] \in [1..Len(pays[q]) -> Payment]
    BY <2>1, <2>2, <2>3
  <2> QED BY <2>1, <2>4
<1>5. pays' \in [Reports -> Seq(Payment)]
  <2>1. pays' = [q \in Reports |-> pays'[q]]
    BY <1>1 DEF Transitioned
  <2> QED BY <1>4, <2>1
<1>6. batch[b].status # "VOIDED"
  BY <1>2 DEF Answers
<1> QED BY <1>3, <1>4, <1>5, <1>6 DEF Restated

LEMMA AnswerPaymentStep ==
    ASSUME PayInv, NEW r \in Reports, NEW i \in DOMAIN pays[r], NEW to \in Status,
           AnswerPayment(r, i, to)
    PROVE  PayInv'
<1>0. /\ Restated /\ UNCHANGED <<report, batch, active>>
      /\ \A q \in Reports : \A j \in DOMAIN pays[q] :
            pays'[q][j].status # pays[q][j].status => pays[q][j].batch = None
  BY AnswerPaymentRestates DEF AnswerPayment
<1>1. OfOwnReport' /\ \A b : CoverNext(b) = Cover(b)
  BY <1>0, RestatedOwn DEF PayInv, OfOwnReport, TypeOK
<1>2. ASSUME NEW q \in Reports, NEW j \in DOMAIN pays'[q]
      PROVE  /\ j \in DOMAIN pays[q] /\ pays'[q][j].batch = pays[q][j].batch
             /\ pays[q][j].batch # None => pays'[q][j].status = pays[q][j].status
  <2>1. j \in DOMAIN pays[q] /\ Onward(pays[q][j], pays'[q][j])
    BY <1>0 DEF Restated
  <2>2. pays[q][j] \in Payment
    BY <2>1 DEF PayInv, OfOwnReport, TypeOK
  <2>3. pays'[q][j].batch = pays[q][j].batch
    BY <2>1, <2>2, OnwardFacts
  <2> QED BY <1>0, <2>1, <2>3
<1>3. BatchMovesWhole'
  <2> SUFFICES ASSUME NEW c \in Batches
               PROVE  /\ batch[c].status # "none" <=> CoverNext(c) # {}
                      /\ \A q, p \in CoverNext(c) : report[q].technician = report[p].technician
                      /\ \A q \in Reports : \A j, k \in DOMAIN pays'[q] :
                            pays'[q][j].batch = c => /\ pays'[q][j].status = batch[c].status
                                                     /\ pays'[q][k].batch = c => j = k
    BY <1>0 DEF BatchMovesWhole, Cover, CoverNext
  <2> QED BY <1>1, <1>2, NullIds DEF PayInv, BatchMovesWhole
<1>4. BatchesReplaced'
  <2> SUFFICES ASSUME NEW c \in Batches, NEW d \in Batches, batch[c].replaces # None
               PROVE  /\ batch[batch[c].replaces].status = "VOIDED"
                      /\ CoverNext(batch[c].replaces) = CoverNext(c)
                      /\ batch[d].replaces = batch[c].replaces => c = d
    BY <1>0 DEF BatchesReplaced, Cover, CoverNext
  <2> QED BY <1>1 DEF PayInv, BatchesReplaced
<1> QED BY <1>1, <1>3, <1>4 DEF PayInv

LEMMA AnswerBatchStep ==
    ASSUME PayInv, NEW b \in Batches, NEW to \in Status, AnswerBatch(b, to)
    PROVE  PayInv'
<1> DEFINE moved == [batch[b] EXCEPT !.status = to]
<1>0. /\ Restated /\ UNCHANGED <<report, active>> /\ batch[b].status \notin {"VOIDED", "none"}
      /\ batch' = [batch EXCEPT ![b] = moved]
      /\ \A q \in Reports : \A j \in DOMAIN pays[q] :
            pays'[q][j].status = IF pays[q][j].batch = b THEN to ELSE pays[q][j].status
  BY AnswerBatchRestates DEF AnswerBatch
<1>1. batch \in [Batches -> Batch] /\ batch[b] \in Batch
  BY DEF PayInv, OfOwnReport, TypeOK
<1>2. moved \in Batch /\ moved.status = to /\ moved.replaces = batch[b].replaces
  BY <1>1 DEF Batch
<1> HIDE DEF moved
<1>3. /\ batch' \in [Batches -> Batch] /\ batch'[b].status = to
      /\ \A c \in Batches : batch'[c].replaces = batch[c].replaces
      /\ \A c \in Batches \ {b} : batch'[c].status = batch[c].status
  BY <1>0, <1>1, <1>2
<1>4. OfOwnReport' /\ \A c : CoverNext(c) = Cover(c)
  BY <1>0, <1>3, RestatedOwn DEF PayInv, OfOwnReport, TypeOK
<1>5. ASSUME NEW q \in Reports, NEW j \in DOMAIN pays'[q]
      PROVE  /\ j \in DOMAIN pays[q] /\ pays'[q][j].batch = pays[q][j].batch
             /\ pays'[q][j].status = IF pays[q][j].batch = b THEN to ELSE pays[q][j].status
  <2>1. j \in DOMAIN pays[q] /\ Onward(pays[q][j], pays'[q][j])
    BY <1>0 DEF Restated
  <2>2. pays[q][j] \in Payment
    BY <2>1 DEF PayInv, OfOwnReport, TypeOK
  <2>3. pays'[q][j].batch = pays[q][j].batch
    BY <2>1, <2>2, OnwardFacts
  <2> QED BY <1>0, <2>1, <2>3
<1>6. BatchMovesWhole'
  <2> SUFFICES ASSUME NEW c \in Batches
               PROVE  /\ batch'[c].status # "none" <=> CoverNext(c) # {}
                      /\ \A q, p \in CoverNext(c) : report[q].technician = report[p].technician
                      /\ \A q \in Reports : \A j, k \in DOMAIN pays'[q] :
                            pays'[q][j].batch = c => /\ pays'[q][j].status = batch'[c].status
                                                     /\ pays'[q][k].batch = c => j = k
    BY <1>0 DEF BatchMovesWhole, Cover, CoverNext
  <2>1. batch'[c].status # "none" <=> batch[c].status # "none"
    BY <1>0, <1>3 DEF Status
  <2> QED BY <1>3, <1>4, <1>5, <2>1 DEF PayInv, BatchMovesWhole
<1>7. BatchesReplaced'
  <2> SUFFICES ASSUME NEW c \in Batches, NEW d \in Batches, batch'[c].replaces # None
               PROVE  /\ batch'[batch'[c].replaces].status = "VOIDED"
                      /\ CoverNext(batch'[c].replaces) = CoverNext(c)
                      /\ batch'[d].replaces = batch'[c].replaces => c = d
    BY DEF BatchesReplaced, Cover, CoverNext
  <2>1. batch[c].replaces \in Batches
    BY <1>1, <1>3 DEF Batch
  <2>2. batch[batch[c].replaces].status = "VOIDED"
    BY <1>3 DEF PayInv, BatchesReplaced
  <2>3. batch'[batch[c].replaces].status = "VOIDED"
    BY <1>0, <1>3, <2>1, <2>2
  <2> QED BY <1>3, <1>4, <2>3 DEF PayInv, BatchesReplaced
<1> QED BY <1>4, <1>6, <1>7 DEF PayInv

LEMMA ToggleStep ==
    ASSUME PayInv, NEW t \in Technicians, ToggleMember(t)
    PROVE  PayInv'
<1>1. UNCHANGED <<report, pays, batch>> /\ active' \subseteq Technicians
  BY DEF ToggleMember, PayInv, OfOwnReport, TypeOK
<1> QED BY <1>1 DEF PayInv, OfOwnReport, TypeOK, Bounded, LastInForce, SnapshotsStayTrue,
              PaymentsReplaced, BatchMovesWhole, BatchesReplaced, Cover

-----------------------------------------------------------------------------
LEMMA ReplacePaymentStep ==
    ASSUME PayInv, NEW r \in Reports, NEW i \in DOMAIN pays[r], NEW a \in 0..MaxAmount,
           ReplacePayment(r, i, a)
    PROVE  PayInv'
<1>1. i \in 0..MaxPayments
  <2>1. pays[r] \in Seq(Payment) /\ Len(pays[r]) <= MaxPayments
    BY DEF PayInv, OfOwnReport, TypeOK, Bounded
  <2> QED BY <2>1, Amounts
<1> QED BY <1>1, OnePaymentStep DEF ReplacePayment

LEMMA RecordPaymentStep ==
    ASSUME PayInv, NEW r \in Reports, NEW a \in 0..MaxAmount, RecordPayment(r, a)
    PROVE  PayInv'
<1>1. 0 \in 0..MaxPayments
  BY Amounts
<1> QED BY <1>1, OnePaymentStep DEF RecordPayment

LEMMA PayInvStep == PayInv /\ [Next]_vars => PayInv'
<1> SUFFICES ASSUME PayInv, [Next]_vars PROVE PayInv'
  OBVIOUS
<1>1. CASE UNCHANGED vars
  <2>1. UNCHANGED <<report, pays, batch, active>>
    BY <1>1 DEF vars
  <2>2. TypeOK' /\ Bounded' /\ LastInForce' /\ SnapshotsStayTrue' /\ PaymentsReplaced'
    BY <2>1 DEF PayInv, OfOwnReport, TypeOK, Bounded, LastInForce, SnapshotsStayTrue,
                PaymentsReplaced
  <2>3. BatchMovesWhole' /\ BatchesReplaced'
    BY <2>1 DEF PayInv, BatchMovesWhole, BatchesReplaced, Cover
  <2> QED BY <2>2, <2>3 DEF PayInv, OfOwnReport
<1>2. ASSUME NEW r \in Reports, ReportStep(r) PROVE PayInv'
  <2>1. 0 \in 0..MaxAmount
    BY Amounts
  <2>2. CASE SubmitReport(r) \/ ApproveReport(r) \/ RejectReport(r)
    BY <2>1, <2>2, ReportHandlers
  <2>3. CASE \E a \in 0..MaxAmount : \/ \E t \in Technicians : CreateReport(r, t, a)
                                     \/ UpdateOwnReport(r, a) \/ CorrectApprovedReport(r, a)
    BY <2>3, ReportHandlers
  <2>4. CASE \E a \in 0..MaxAmount : RecordPayment(r, a)
    BY <2>4, RecordPaymentStep
  <2>5. CASE \E a \in 0..MaxAmount, i \in DOMAIN pays[r] : ReplacePayment(r, i, a)
    BY <2>5, ReplacePaymentStep
  <2>6. CASE \E i \in DOMAIN pays[r], to \in Status : AnswerPayment(r, i, to)
    BY <2>6, AnswerPaymentStep
  <2> QED BY <1>2, <2>2, <2>3, <2>4, <2>5, <2>6 DEF ReportStep
<1>3. ASSUME NEW b \in Batches, BatchStep(b) PROVE PayInv'
  BY <1>3, RecordBatchStep, AnswerBatchStep DEF BatchStep
<1>4. ASSUME NEW t \in Technicians, ToggleMember(t) PROVE PayInv'
  BY <1>4, ToggleStep
<1> QED BY <1>1, <1>2, <1>3, <1>4 DEF Next

LEMMA PayInvSuffices == PayInv => PaymentsAgree
<1> SUFFICES ASSUME PayInv PROVE PaymentsAgree
  OBVIOUS
<1>1. OnePaymentInForce
  BY DEF PayInv, OfOwnReport, LastInForce, OnePaymentInForce
<1>2. ReplacedByOne
  <2>1. ASSUME NEW r \in Reports, NEW i \in DOMAIN pays[r], NEW j \in DOMAIN pays[r],
               pays[r][i].replaces # 0
        PROVE  /\ pays[r][i].replaces < i
               /\ pays[r][pays[r][i].replaces].status = "VOIDED"
               /\ pays[r][j].replaces = pays[r][i].replaces => i = j
    <3>1. i \in Nat
      BY DEF PayInv, OfOwnReport, TypeOK
    <3> QED BY <2>1, <3>1 DEF PayInv, OfOwnReport, PaymentsReplaced
  <2> QED BY <2>1 DEF PayInv, BatchesReplaced, ReplacedByOne
<1> QED BY <1>1, <1>2 DEF PayInv, OfOwnReport, PaymentsAgree

-----------------------------------------------------------------------------
(* Records are history.                                                          *)

\* What every step does to the rows there are.
OnlyOnward ==
    \A r \in Reports : \A i \in DOMAIN pays[r] :
        i \in DOMAIN pays'[r] /\ Onward(pays[r][i], pays'[r][i])

LEMMA RowIsPayment ==
    ASSUME PayInv, NEW r \in Reports, NEW i \in DOMAIN pays[r]
    PROVE  pays[r][i] \in Payment
  BY DEF PayInv, OfOwnReport, TypeOK

LEMMA UnchangedOnward ==
    ASSUME PayInv, UNCHANGED pays
    PROVE  OnlyOnward
  BY RowIsPayment, OnwardSame DEF OnlyOnward

LEMMA AppendedOnward ==
    ASSUME PayInv, NEW S \in SUBSET Reports, NEW row \in [S -> Payment], Extended(S, row)
    PROVE  OnlyOnward
<1> SUFFICES ASSUME NEW r \in Reports, NEW i \in DOMAIN pays[r]
             PROVE  i \in DOMAIN pays'[r] /\ Onward(pays[r][i], pays'[r][i])
  BY DEF OnlyOnward
<1>1. TypeOK
  BY DEF PayInv, OfOwnReport
<1>2. i \in DOMAIN pays'[r] /\ pays'[r][i] = pays[r][i]
  <2>1. CASE r \in S
    BY <1>1, <2>1, ExtendedIn
  <2>2. CASE r \notin S
    BY <2>2, ExtendedOut
  <2> QED BY <2>1, <2>2
<1> QED BY <1>2, RowIsPayment, OnwardSame

\* Recorded payments in the form of Extended.
LEMMA RecordedOne ==
    ASSUME PayInv, NEW r \in Reports, NEW a \in 0..MaxAmount, NEW old \in 0..MaxPayments,
           Positive(a), pays' = [pays EXCEPT ![r] = Append(pays[r], NewPayment(r, a, None, old))]
    PROVE  \E row \in [{r} -> Payment] : Extended({r}, row) /\ row[r].status = "AWAITING"
<1> DEFINE new == NewPayment(r, a, None, old)
           row == [q \in {r} |-> new]
<1>1. new \in Payment /\ new.status = "AWAITING"
  BY NewPaymentTyped, PositiveAmount
<1>2. pays' = [pays EXCEPT ![r] = Append(pays[r], new)] /\ DOMAIN pays = Reports
  BY DEF PayInv, OfOwnReport, TypeOK
<1> HIDE DEF new
<1>3. row \in [{r} -> Payment] /\ row[r] = new
  BY <1>1
<1>4. Extended({r}, row)
  BY <1>2 DEF Extended
<1> QED BY <1>1, <1>3, <1>4

LEMMA RecordedBatch ==
    ASSUME PayInv, NEW b \in Batches, NEW S \in SUBSET Reports, NEW paid \in [S -> 0..MaxAmount],
           NEW old \in Batches \cup {None}, RecordBatch(b, S, paid, old)
    PROVE  \E row \in [S -> Payment] : Extended(S, row) /\ \A r \in S : row[r].status = "AWAITING"
<1> DEFINE row == [r \in S |-> NewPayment(r, paid[r], b, 0)]
<1>1. ASSUME NEW r \in S
      PROVE  /\ NewPayment(r, paid[r], b, 0) \in Payment
             /\ NewPayment(r, paid[r], b, 0).status = "AWAITING"
  <2>1. paid[r] \in 1..MaxAmount /\ 0 \in 0..MaxPayments
    BY PositiveAmount, Amounts DEF RecordBatch
  <2> QED BY <2>1, NewPaymentTyped
<1>2. row \in [S -> Payment] /\ \A r \in S : row[r].status = "AWAITING"
  BY <1>1
<1>3. Extended(S, row)
  BY DEF RecordBatch, Extended
<1> QED BY <1>2, <1>3

\* The kinds of steps.
Recorded == \E S \in SUBSET Reports : \E row \in [S -> Payment] :
                /\ Extended(S, row) /\ UNCHANGED report
                /\ \A r \in S : Payable(r) /\ row[r].status = "AWAITING"

AnsweredOne == \E r \in Reports : \E i \in DOMAIN pays[r], to \in Status : AnswerPayment(r, i, to)
AnsweredBatch == \E b \in Batches, to \in Status : AnswerBatch(b, to)

Reported == \E r \in Reports : \E a \in 0..MaxAmount :
                \/ \E t \in Technicians : CreateReport(r, t, a)
                \/ UpdateOwnReport(r, a) \/ CorrectApprovedReport(r, a)
                \/ SubmitReport(r) \/ ApproveReport(r) \/ RejectReport(r)

LEMMA KindsOfSteps ==
    ASSUME PayInv, [Next]_vars
    PROVE  Recorded \/ AnsweredOne \/ AnsweredBatch \/ Reported \/ UNCHANGED <<report, pays>>
<1>1. ASSUME NEW r \in Reports, NEW a \in 0..MaxAmount, RecordPayment(r, a) PROVE Recorded
  <2>1. 0 \in 0..MaxPayments
    BY Amounts
  <2>2. \E row \in [{r} -> Payment] : Extended({r}, row) /\ row[r].status = "AWAITING"
    BY <1>1, <2>1, RecordedOne DEF RecordPayment
  <2> QED BY <1>1, <2>2 DEF RecordPayment, Recorded
<1>2. ASSUME NEW r \in Reports, NEW a \in 0..MaxAmount, NEW i \in DOMAIN pays[r],
             ReplacePayment(r, i, a)
      PROVE  Recorded
  <2>1. i \in 0..MaxPayments
    <3>1. pays[r] \in Seq(Payment) /\ Len(pays[r]) <= MaxPayments
      BY DEF PayInv, OfOwnReport, TypeOK, Bounded
    <3> QED BY <3>1, Amounts
  <2>2. \E row \in [{r} -> Payment] : Extended({r}, row) /\ row[r].status = "AWAITING"
    BY <1>2, <2>1, RecordedOne DEF ReplacePayment
  <2> QED BY <1>2, <2>2 DEF ReplacePayment, Recorded
<1>3. ASSUME NEW b \in Batches, NEW S \in SUBSET Reports, NEW paid \in [S -> 0..MaxAmount],
             NEW old \in Batches \cup {None}, RecordBatch(b, S, paid, old)
      PROVE  Recorded
  <2>1. \E row \in [S -> Payment] : Extended(S, row) /\ \A r \in S : row[r].status = "AWAITING"
    BY <1>3, RecordedBatch
  <2> QED BY <1>3, <2>1 DEF RecordBatch, BatchAccepted, Recorded
<1>4. ASSUME NEW r \in Reports, ReportStep(r)
      PROVE  Recorded \/ AnsweredOne \/ Reported
  <2>1. 0 \in 0..MaxAmount
    BY Amounts
  <2> QED BY <1>1, <1>2, <1>4, <2>1 DEF ReportStep, AnsweredOne, Reported
<1>5. ASSUME NEW b \in Batches, BatchStep(b) PROVE Recorded \/ AnsweredBatch
  BY <1>3, <1>5 DEF BatchStep, AnsweredBatch
<1> QED BY <1>4, <1>5 DEF Next, ToggleMember, vars

LEMMA StepsAreOnward ==
    ASSUME PayInv, [Next]_vars
    PROVE  OnlyOnward
<1>1. CASE Recorded
  BY <1>1, AppendedOnward DEF Recorded
<1>2. CASE AnsweredOne
  BY <1>2, AnswerPaymentRestates DEF AnsweredOne, Restated, OnlyOnward
<1>3. CASE AnsweredBatch
  BY <1>3, AnswerBatchRestates DEF AnsweredBatch, Restated, OnlyOnward
<1>4. CASE UNCHANGED pays
  BY <1>4, UnchangedOnward
<1>5. Reported => UNCHANGED pays
  BY DEF Reported, CreateReport, UpdateOwnReport, CorrectApprovedReport, SubmitReport,
         ApproveReport, RejectReport
<1> QED BY <1>1, <1>2, <1>3, <1>4, <1>5, KindsOfSteps

(* Whatever is recorded, answered, voided, corrected and replaced: one payment   *)
(* of a report is in force at most, what every record says was agreed is still    *)
(* agreed, a batch and its payments move together and nothing is replaced twice.  *)
(* No step drops or rewrites a record: a voided one stays, an answered one can    *)
(* only be voided.                                                                *)
THEOREM PaymentsSound == Spec => PaymentsAreSound
<1>1. Spec => []PayInv
  BY PayInvInit, PayInvStep, PTL DEF Spec
<1>2. PayInv /\ [Next]_vars =>
        [\A r \in Reports : \A i \in DOMAIN pays[r] :
            /\ i \in DOMAIN pays'[r]
            /\ pays'[r][i] = [pays[r][i] EXCEPT !.status = pays'[r][i].status]
            /\ pays[r][i].status \in {"CONFIRMED", "DISPUTED"} =>
                  pays'[r][i].status \in {pays[r][i].status, "VOIDED"}
            /\ pays[r][i].status = "VOIDED" => pays'[r][i].status = "VOIDED"]_vars
  BY StepsAreOnward DEF OnlyOnward, Onward
<1> QED BY <1>1, <1>2, PayInvSuffices, PTL DEF Spec, AnswersAreFinal, PaymentsAreSound
-----------------------------------------------------------------------------
(* The handlers implement TechnicianPay.                                          *)

LEMMA LastRow ==
    ASSUME PayInv, NEW r \in Reports, pays[r] # <<>>
    PROVE  /\ Len(pays[r]) \in DOMAIN pays[r]
           /\ \A i \in DOMAIN pays[r] : pays[r][i].status # "VOIDED" => i = Len(pays[r])
<1>1. pays[r] \in Seq(Payment)
  BY DEF PayInv, OfOwnReport, TypeOK
<1>2. Len(pays[r]) \in DOMAIN pays[r] /\ DOMAIN pays[r] = 1..Len(pays[r]) /\ Len(pays[r]) \in Nat
  BY <1>1
<1>3. ASSUME NEW i \in DOMAIN pays[r], pays[r][i].status # "VOIDED" PROVE i = Len(pays[r])
  <2>1. ~(i < Len(pays[r]))
    BY <1>3 DEF PayInv, OfOwnReport, LastInForce
  <2> QED BY <1>2, <2>1
<1> QED BY <1>2, <1>3

\* A payment or several are recorded.
LEMMA RecordedIsRecord == ASSUME PayInv, Recorded PROVE Engagement!Record
<1>0. PICK S \in SUBSET Reports : \E row \in [S -> Payment] :
         /\ Extended(S, row) /\ UNCHANGED report
         /\ \A r \in S : Payable(r) /\ row[r].status = "AWAITING"
  BY DEF Recorded
<1>1. PICK row \in [S -> Payment] :
         /\ Extended(S, row) /\ UNCHANGED report
         /\ \A r \in S : Payable(r) /\ row[r].status = "AWAITING"
  BY <1>0
<1>2. TypeOK
  BY DEF PayInv, OfOwnReport
<1>3. ASSUME NEW r \in S
      PROVE  /\ report[r].status = "APPROVED" /\ InForce(r) = "unpaid"
             /\ InForce(r)' = "AWAITING" /\ pays'[r] # <<>>
  <2>1. report[r].status = "APPROVED" /\ \A i \in DOMAIN pays[r] : pays[r][i].status = "VOIDED"
    BY <1>1, PayableFacts
  <2>2. InForce(r) = "unpaid"
    BY <2>1, LastRow DEF InForce
  <2>3. /\ pays'[r] \in Seq(Payment) /\ Len(pays'[r]) = Len(pays[r]) + 1
        /\ Len(pays[r]) + 1 \in DOMAIN pays'[r] /\ pays'[r][Len(pays[r]) + 1] = row[r]
    BY <1>1, <1>2, ExtendedIn
  <2>4. pays'[r] # <<>> /\ pays'[r][Len(pays'[r])].status = "AWAITING"
    BY <1>1, <2>3
  <2> QED BY <2>1, <2>2, <2>4 DEF InForce
<1>4. ASSUME NEW r \in Reports \ S PROVE InForce(r)' = InForce(r) /\ pays'[r] = pays[r]
  BY <1>1, ExtendedOut DEF InForce
<1>5. [r \in Reports |-> InForce(r)]' =
        [r \in Reports |-> IF r \in S THEN "AWAITING" ELSE [q \in Reports |-> InForce(q)][r]]
  BY <1>3, <1>4
<1>6. { r \in Reports : pays[r] # <<>> }' = { r \in Reports : pays[r] # <<>> } \cup S
  BY <1>3, <1>4
<1> QED BY <1>1, <1>3, <1>5, <1>6 DEF Engagement!Record, Engagement!Answer

\* The reports of S are answered, or their payments voided.
Turned(S, from, to) ==
    /\ S \in SUBSET Reports
    /\ from \in {"AWAITING", "CONFIRMED", "DISPUTED"} /\ to \in Status \ {"AWAITING"}
    /\ from # "AWAITING" => to = "VOIDED"
    /\ \A r \in S : \E i \in DOMAIN pays[r] :
           pays[r][i].status = from /\ pays'[r][i].status = to
    /\ \A r \in Reports \ S : \A i \in DOMAIN pays[r] : pays'[r][i].status = pays[r][i].status

LEMMA AnsweredIsAnswer ==
    ASSUME PayInv, Restated, UNCHANGED report, NEW S, NEW from, NEW to, Turned(S, from, to)
    PROVE  Engagement!Reply \/ Engagement!TakeBack
<1> USE DEF Turned
<1> DEFINE state == IF to = "VOIDED" THEN "unpaid" ELSE to
<1>1. \A r \in Reports : (pays'[r] = <<>> <=> pays[r] = <<>>) /\ Len(pays'[r]) = Len(pays[r])
  <2> SUFFICES ASSUME NEW r \in Reports
               PROVE  (pays'[r] = <<>> <=> pays[r] = <<>>) /\ Len(pays'[r]) = Len(pays[r])
    OBVIOUS
  <2>1. pays[r] \in Seq(Payment) /\ pays'[r] \in Seq(Payment) /\ Len(pays'[r]) = Len(pays[r])
    BY DEF PayInv, OfOwnReport, TypeOK, Restated
  <2> QED BY <2>1
<1>2. ASSUME NEW r \in S PROVE InForce(r) = from /\ InForce(r)' = state
  <2>1. PICK i \in DOMAIN pays[r] : pays[r][i].status = from /\ pays'[r][i].status = to
    OBVIOUS
  <2>2. pays[r] # <<>>
    BY <2>1
  <2>3. i = Len(pays[r])
    BY <2>1, <2>2, LastRow
  <2> QED BY <1>1, <2>1, <2>2, <2>3 DEF InForce
<1>3. ASSUME NEW r \in Reports \ S PROVE InForce(r)' = InForce(r)
  <2>1. CASE pays[r] = <<>>
    BY <1>1, <2>1 DEF InForce
  <2>2. CASE pays[r] # <<>>
    <3>1. Len(pays[r]) \in DOMAIN pays[r]
      BY <2>2, LastRow
    <3>2. pays'[r][Len(pays[r])].status = pays[r][Len(pays[r])].status
      BY <3>1
    <3> QED BY <1>1, <2>2, <3>2 DEF InForce
  <2> QED BY <2>1, <2>2
<1>4. [r \in Reports |-> InForce(r)]' =
        [r \in Reports |-> IF r \in S THEN state ELSE [q \in Reports |-> InForce(q)][r]]
  BY <1>2, <1>3
<1>5. { r \in Reports : pays[r] # <<>> }' = { r \in Reports : pays[r] # <<>> }
  BY <1>1
<1>6. \A r \in S : [q \in Reports |-> InForce(q)][r] = from
  BY <1>2
<1>7. CASE to = "VOIDED"
  <2>1. Engagement!Answer(S, {from}, "unpaid")
    BY <1>4, <1>6, <1>7 DEF Engagement!Answer
  <2> QED BY <1>5, <2>1 DEF Engagement!TakeBack
<1>8. CASE to # "VOIDED"
  <2>1. from = "AWAITING" /\ to \in {"CONFIRMED", "DISPUTED"}
    BY <1>8 DEF Status
  <2>2. Engagement!Answer(S, {"AWAITING"}, to)
    BY <1>4, <1>6, <1>8, <2>1 DEF Engagement!Answer
  <2> QED BY <1>5, <2>1, <2>2 DEF Engagement!Reply
<1> QED BY <1>7, <1>8

LEMMA AnswersFrom ==
    ASSUME NEW st \in Status, NEW t, NEW to \in Answers(st, t)
    PROVE  /\ st \in {"AWAITING", "CONFIRMED", "DISPUTED"} /\ to \in Status \ {"AWAITING"}
           /\ st # "AWAITING" => to = "VOIDED"
  BY DEF Answers, Status
LEMMA OneIsAnswered ==
    ASSUME PayInv, NEW r \in Reports, NEW i \in DOMAIN pays[r], NEW to \in Status,
           AnswerPayment(r, i, to)
    PROVE  Engagement!Reply \/ Engagement!TakeBack
<1>1. Restated /\ UNCHANGED report
  BY AnswerPaymentRestates DEF AnswerPayment
<1>2. pays[r][i] \in Payment /\ pays[r][i].status \in Status
  BY RowIsPayment DEF Payment
<1>3. pays' = [pays EXCEPT ![r] = [pays[r] EXCEPT ![i] = [pays[r][i] EXCEPT !.status = to]]]
      /\ pays \in [Reports -> Seq(Payment)]
  BY DEF AnswerPayment, PayInv, OfOwnReport, TypeOK
<1>4. pays'[r][i] = [pays[r][i] EXCEPT !.status = to]
  BY <1>3
<1>5. pays'[r][i].status = to
  BY <1>2, <1>4, PaymentMoved
<1> DEFINE from == pays[r][i].status
           S == {r}
<1>6. \A q \in Reports \ S : \A j \in DOMAIN pays[q] : pays'[q][j].status = pays[q][j].status
  BY <1>3
<1>7. /\ from \in {"AWAITING", "CONFIRMED", "DISPUTED"} /\ to \in Status \ {"AWAITING"}
      /\ from # "AWAITING" => to = "VOIDED"
  BY <1>2, AnswersFrom DEF AnswerPayment
<1>8. \A q \in S : \E j \in DOMAIN pays[q] : pays[q][j].status = from /\ pays'[q][j].status = to
  BY <1>5
<1>9. S \in SUBSET Reports
  OBVIOUS
<1>10. Turned(S, from, to)
  BY <1>6, <1>7, <1>8, <1>9 DEF Turned
<1> HIDE DEF from, S
<1> QED BY <1>1, <1>10, AnsweredIsAnswer

LEMMA BatchIsAnswered ==
    ASSUME PayInv, NEW b \in Batches, NEW to \in Status, AnswerBatch(b, to)
    PROVE  Engagement!Reply \/ Engagement!TakeBack
<1> DEFINE from == batch[b].status
           S == Cover(b)
<1>1. Restated /\ UNCHANGED report
  BY AnswerBatchRestates DEF AnswerBatch
<1>2. \A q \in Reports : \A j \in DOMAIN pays[q] :
         pays'[q][j].status = IF pays[q][j].batch = b THEN to ELSE pays[q][j].status
  BY AnswerBatchRestates
<1>3. S \in SUBSET Reports
  BY DEF Cover
<1>4. \A r \in S : \E i \in DOMAIN pays[r] : pays[r][i].status = from /\ pays'[r][i].status = to
  BY <1>2 DEF Cover, PayInv, BatchMovesWhole
<1>5. \A r \in Reports \ S : \A i \in DOMAIN pays[r] : pays'[r][i].status = pays[r][i].status
  BY <1>2 DEF Cover
<1>6. from \in Status
  BY DEF PayInv, OfOwnReport, TypeOK, Batch, AnswerBatch
<1>7. from \in {"AWAITING", "CONFIRMED", "DISPUTED"} /\ to \in Status \ {"AWAITING"}
      /\ (from # "AWAITING" => to = "VOIDED")
  BY <1>6, AnswersFrom DEF AnswerBatch
<1>8. Turned(S, from, to)
  BY <1>3, <1>4, <1>5, <1>7 DEF Turned
<1> HIDE DEF from, S
<1> QED BY <1>1, <1>8, AnsweredIsAnswer

\* The report is written, reviewed or corrected.
LEMMA ReportedIsWritten ==
    ASSUME PayInv, Reported
    PROVE  \/ Engagement!Write \/ Engagement!Review
           \/ UNCHANGED report /\ UNCHANGED pays
<1>1. PICK r \in Reports : \E a \in 0..MaxAmount :
                \/ \E t \in Technicians : CreateReport(r, t, a)
                \/ UpdateOwnReport(r, a) \/ CorrectApprovedReport(r, a)
                \/ SubmitReport(r) \/ ApproveReport(r) \/ RejectReport(r)
  BY DEF Reported
<1>2. PICK a \in 0..MaxAmount :
                \/ \E t \in Technicians : CreateReport(r, t, a)
                \/ UpdateOwnReport(r, a) \/ CorrectApprovedReport(r, a)
                \/ SubmitReport(r) \/ ApproveReport(r) \/ RejectReport(r)
  BY <1>1
<1> DEFINE ph == [q \in Reports |-> report[q].status]
           du == [q \in Reports |-> report[q].amount]
           pa == [q \in Reports |-> InForce(q)]
           ag == { q \in Reports : pays[q] # <<>> }
<1>3. UNCHANGED pays
  BY <1>2 DEF CreateReport, UpdateOwnReport, CorrectApprovedReport, SubmitReport,
              ApproveReport, RejectReport
<1>4. pa' = pa /\ ag' = ag
  BY <1>3 DEF InForce
<1>5. report \in [Reports -> Report] /\ report[r] \in Report
  BY DEF PayInv, OfOwnReport, TypeOK
<1>6. report[r].status # "APPROVED" => r \notin ag
  BY NotApprovedNotPaid
\* A row is replaced.
<1>7. ASSUME NEW new \in Report, report' = [report EXCEPT ![r] = new]
      PROVE  ph' = [ph EXCEPT ![r] = new.status] /\ du' = [du EXCEPT ![r] = new.amount]
  BY <1>5, <1>7
<1>8. ASSUME NEW st \in {"DRAFT", "SUBMITTED", "REJECTED", "APPROVED"}
      PROVE  /\ [report[r] EXCEPT !.status = st] \in Report
             /\ [report[r] EXCEPT !.status = st].status = st
             /\ [report[r] EXCEPT !.status = st].amount = report[r].amount
             /\ [report[r] EXCEPT !.amount = a] \in Report
             /\ [report[r] EXCEPT !.amount = a].amount = a
             /\ [report[r] EXCEPT !.amount = a].status = report[r].status
  BY <1>5, RowOfReport DEF Report
<1>9. [ph EXCEPT ![r] = report[r].status] = ph /\ [du EXCEPT ![r] = report[r].amount] = du
  OBVIOUS
<1>10. ASSUME NEW t \in Technicians, CreateReport(r, t, a) PROVE Engagement!Write
  <2> DEFINE new == [status |-> "DRAFT", technician |-> t, amount |-> a]
  <2>1. new \in Report /\ new.status = "DRAFT" /\ new.amount = a
    BY DEF Report
  <2>2. report[r].status = "none" /\ report' = [report EXCEPT ![r] = new]
    BY <1>10 DEF CreateReport
  <2> HIDE DEF new
  <2>3. ph' = [ph EXCEPT ![r] = "DRAFT"] /\ du' = [du EXCEPT ![r] = a]
    BY <1>7, <2>1, <2>2
  <2> QED BY <1>4, <1>6, <2>2, <2>3 DEF Engagement!Write
<1>11. ASSUME report' = [report EXCEPT ![r].amount = a] PROVE ph' = ph /\ du' = [du EXCEPT ![r] = a]
  <2>1. report' = [report EXCEPT ![r] = [report[r] EXCEPT !.amount = a]]
    BY <1>11
  <2> DEFINE new == [report[r] EXCEPT !.amount = a]
  <2>2. new \in Report /\ new.amount = a /\ new.status = report[r].status
    BY <1>8
  <2> HIDE DEF new
  <2> QED BY <1>7, <1>9, <2>1, <2>2 DEF new
<1>12. CASE UpdateOwnReport(r, a)
  <2>1. report[r].status \in {"DRAFT", "REJECTED"} /\ r \notin ag
    BY <1>6, <1>12 DEF UpdateOwnReport, Editable
  <2>2. ph' = ph /\ du' = [du EXCEPT ![r] = a]
    BY <1>11, <1>12 DEF UpdateOwnReport
  <2>3. report[r].status = "DRAFT" => ph' = [ph EXCEPT ![r] = "DRAFT"]
    BY <1>9, <2>2
  <2> QED BY <1>4, <2>1, <2>2, <2>3 DEF Engagement!Write
<1>13. CASE CorrectApprovedReport(r, a)
  <2>1. ph' = ph /\ du' = [du EXCEPT ![r] = a] /\ report[r].status = "APPROVED"
    BY <1>11, <1>13 DEF CorrectApprovedReport
  <2>2. CASE r \notin ag
    BY <1>4, <2>1, <2>2 DEF Engagement!Write
  <2>3. CASE r \in ag
    <3>1. a = report[r].amount
      BY <1>13, <2>3 DEF CorrectApprovedReport, AmountCorrectable
    <3>2. [report[r] EXCEPT !.amount = a] = report[r]
      BY <1>5, <3>1 DEF Report
    <3>3. report' = [report EXCEPT ![r] = [report[r] EXCEPT !.amount = a]]
      BY <1>13 DEF CorrectApprovedReport
    <3> QED BY <1>3, <1>5, <3>2, <3>3
  <2> QED BY <2>2, <2>3
<1>14. ASSUME NEW st \in {"SUBMITTED", "REJECTED", "APPROVED"}, Moved(r, st)
       PROVE  ph' = [ph EXCEPT ![r] = st] /\ du' = du
  <2>1. report' = [report EXCEPT ![r] = [report[r] EXCEPT !.status = st]]
    BY <1>14 DEF Moved
  <2> DEFINE new == [report[r] EXCEPT !.status = st]
  <2>2. new \in Report /\ new.status = st /\ new.amount = report[r].amount
    BY <1>8
  <2> HIDE DEF new
  <2> QED BY <1>7, <1>9, <2>1, <2>2 DEF new
<1>15. CASE SubmitReport(r) \/ ApproveReport(r) \/ RejectReport(r)
  BY <1>4, <1>14, <1>15 DEF SubmitReport, ApproveReport, RejectReport, Editable, Engagement!Review
<1> QED BY <1>2, <1>10, <1>12, <1>13, <1>15

LEMMA PayInvStutter ==
    ASSUME UNCHANGED <<report, pays>>
    PROVE  UNCHANGED << [r \in Reports |-> report[r].status], [r \in Reports |-> report[r].amount],
                        [r \in Reports |-> InForce(r)], { r \in Reports : pays[r] # <<>> } >>
  BY DEF InForce

LEMMA StepsArePromised ==
    ASSUME PayInv, [Next]_vars
    PROVE  [Engagement!Next]_<<[r \in Reports |-> report[r].status],
                               [r \in Reports |-> report[r].amount],
                               [r \in Reports |-> InForce(r)],
                               { r \in Reports : pays[r] # <<>> }>>
<1>1. CASE Recorded
  BY <1>1, RecordedIsRecord DEF Engagement!Next
<1>2. CASE AnsweredOne
  BY <1>2, OneIsAnswered DEF AnsweredOne, Engagement!Next
<1>3. CASE AnsweredBatch
  BY <1>3, BatchIsAnswered DEF AnsweredBatch, Engagement!Next
<1>4. CASE Reported
  BY <1>4, ReportedIsWritten, PayInvStutter DEF Engagement!Next
<1>5. CASE UNCHANGED <<report, pays>>
  BY <1>5, PayInvStutter
<1> QED BY <1>1, <1>2, <1>3, <1>4, <1>5, KindsOfSteps

(* The handlers of reports, payments and batches implement the payment of          *)
(* technicians that TechnicianPay promises.                                        *)
THEOREM HandlersKeepPromise == Spec => ImplementsTechnicianPay
<1>1. Spec => []PayInv
  BY PayInvInit, PayInvStep, PTL DEF Spec
<1>2. Init => Engagement!Init
  BY DEF Init, Engagement!Init, InForce
<1>3. PayInv /\ [Next]_vars =>
        [Engagement!Next]_<<[r \in Reports |-> report[r].status],
                            [r \in Reports |-> report[r].amount],
                            [r \in Reports |-> InForce(r)],
                            { r \in Reports : pays[r] # <<>> }>>
  BY StepsArePromised
<1> QED BY <1>1, <1>2, <1>3, PTL DEF Spec, ImplementsTechnicianPay, Engagement!Spec

-----------------------------------------------------------------------------
(* The inductive invariant: what a request carries is of its kind, and with      *)
(* requests in turn it is still what the definitions and values call for.          *)
Columns == {"value_text", "value_number"}

Carries(request) ==
    /\ request.op = "define" => request.field \in Fields /\ request.def \in Definition
    /\ request.op \in {"submitted", "checked"} =>
          /\ request.record \in Holders
          /\ DOMAIN request.given \subseteq Fields
          /\ \A f \in DOMAIN request.given : request.given[f] \in Contents \cup {Blank}
    /\ request.op = "checked" => \A f \in DOMAIN request.given : request.column[f] \in Columns

StillFits(request) ==
    /\ request.op = "define" =>
          /\ Defined(request.field)
          /\ HasValues(request.field) => request.def.kind = def[request.field].kind
    /\ request.op \in {"submitted", "checked"} =>
          /\ DOMAIN request.given = { f \in Fields : Shown(f, Mode(request.record)) }
          /\ \A f \in DOMAIN request.given : Accepts(f, request.given[f])
    /\ request.op = "checked" =>
          \A f \in DOMAIN request.given : request.column[f] = Column(def[f].kind)

RequestsTyped ==
    /\ DOMAIN form = FieldRequests
    /\ \A u \in FieldRequests :
          /\ form[u] = Free \/ form[u].op \in {"define", "submitted", "checked"}
          /\ Carries(form[u])

InTurn ==
    fieldsInTurn =>
        /\ \A u, w \in FieldRequests : form[u] # Free /\ form[w] # Free => u = w
        /\ \A u \in FieldRequests : StillFits(form[u])

FieldInv == FieldTypeOK /\ ValuesFitFields /\ RequestsTyped /\ InTurn

LEMMA FreeRequest == Free.op = "none" /\ Carries(Free) /\ StillFits(Free)
  BY DEF Free, Carries, StillFits

LEMMA DefinitionsAreDefined == \A d \in Definition : d # Undefined /\ d.kind \in FieldKinds
  BY DEF Definition, Undefined, FieldKinds

LEMMA ColumnTyped == \A k : Column(k) \in Columns
  BY DEF Column, Columns

LEMMA FieldInitInv == FieldInit => FieldInv
  <1> SUFFICES ASSUME FieldInit PROVE FieldInv
    OBVIOUS
  <1>1. FieldTypeOK /\ ValuesFitFields
    BY DEF FieldInit, FieldTypeOK, ValuesFitFields
  <1>2. RequestsTyped /\ InTurn
    BY FreeRequest DEF FieldInit, RequestsTyped, InTurn
  <1> QED  BY <1>1, <1>2 DEF FieldInv

\* A request takes its next step while the rows stay as they are.
LEMMA RequestStep ==
    ASSUME FieldInv, UNCHANGED <<def, value, saved, removed, fieldsInTurn>>, NEW u \in FieldRequests, NEW request,
           form' = [form EXCEPT ![u] = request],
           request = Free \/ request.op \in {"define", "submitted", "checked"},
           Carries(request),
           fieldsInTurn => StillFits(request) /\ (request = Free \/ form[u] # Free \/ \A w \in FieldRequests : form[w] = Free)
    PROVE  FieldInv'
  <1>1. /\ DOMAIN form' = FieldRequests
        /\ \A w \in FieldRequests : form'[w] = IF w = u THEN request ELSE form[w]
    BY DEF FieldInv, RequestsTyped
  <1>2. FieldTypeOK' /\ ValuesFitFields'
    BY DEF FieldInv, FieldTypeOK, ValuesFitFields, Defined
  <1>3. RequestsTyped'
    <2>1. \A w \in FieldRequests : Carries(form'[w]) /\ (form'[w] = Free \/ form'[w].op \in {"define", "submitted", "checked"})
      BY <1>1 DEF FieldInv, RequestsTyped
    <2> QED  BY <1>1, <2>1 DEF RequestsTyped, Carries
  <1>4. ASSUME fieldsInTurn PROVE /\ \A v, w \in FieldRequests : form'[v] # Free /\ form'[w] # Free => v = w
                                  /\ \A w \in FieldRequests : StillFits(form'[w])
    BY <1>1, <1>4 DEF FieldInv, InTurn
  <1>5. ASSUME NEW r, StillFits(r) PROVE StillFits(r)'
    BY <1>5 DEF StillFits, Defined, HasValues, Shown, Available, Mode, Accepts, Column
  <1>6. InTurn'
    BY <1>4, <1>5 DEF InTurn
  <1> QED  BY <1>2, <1>3, <1>6 DEF FieldInv

\* What is known of a request under way.
LEMMA RequestKnown ==
    ASSUME FieldInv, NEW u \in FieldRequests
    PROVE  /\ DOMAIN form = FieldRequests /\ Carries(form[u])
           /\ fieldsInTurn => StillFits(form[u])
  BY DEF FieldInv, RequestsTyped, InTurn

\* A request that starts in turn is alone.
LEMMA Alone == ASSUME MayStart, fieldsInTurn PROVE \A w \in FieldRequests : form[w] = Free
  BY DEF MayStart

\* What FieldInv' needs of a step that frees the request that takes it, or takes none.
LEMMA RequestsEnd ==
    ASSUME FieldInv, FieldTypeOK', ValuesFitFields', UNCHANGED fieldsInTurn,
           \/ \E u \in FieldRequests : form[u] # Free /\ form' = [form EXCEPT ![u] = Free]
           \/ MayStart /\ UNCHANGED form
    PROVE  FieldInv'
  <1>1. /\ DOMAIN form' = FieldRequests
        /\ \A w \in FieldRequests : form'[w] = Free \/ form'[w] = form[w]
    BY DEF FieldInv, RequestsTyped
  <1>2. RequestsTyped'
    <2>1. \A w \in FieldRequests : Carries(form'[w]) /\ (form'[w] = Free \/ form'[w].op \in {"define", "submitted", "checked"})
      BY <1>1, FreeRequest DEF FieldInv, RequestsTyped
    <2> QED  BY <1>1, <2>1 DEF RequestsTyped, Carries
  <1>3. ASSUME fieldsInTurn PROVE \A w \in FieldRequests : form'[w] = Free
    <2>1. CASE \E u \in FieldRequests : form[u] # Free /\ form' = [form EXCEPT ![u] = Free]
      BY <2>1, <1>3 DEF FieldInv, InTurn, RequestsTyped
    <2>2. CASE MayStart /\ UNCHANGED form
      BY <2>2, <1>3, Alone
    <2> QED  BY <2>1, <2>2
  <1>4. StillFits(Free)'
    BY FreeRequest DEF StillFits, Free
  <1>5. InTurn'
    BY <1>3, <1>4 DEF InTurn
  <1> QED  BY <1>2, <1>5 DEF FieldInv

LEMMA FieldCreate ==
    ASSUME FieldInv, NEW f \in Fields, NEW d \in Drafts, CreateDefinition(f, d)
    PROVE  FieldInv'
  <1> USE DEF CreateDefinition
  <1>0. d \in Definition
    BY DraftsAreDefinitions
  <1>1. FieldTypeOK'
    BY <1>0 DEF FieldInv, FieldTypeOK
  <1>2. ValuesFitFields'
    <2>1. ASSUME fieldsInTurn, NEW g \in Fields, NEW o \in Holders, value[g][o] # NoValue
          PROVE  g # f
      BY <2>1 DEF FieldInv, ValuesFitFields
    <2>2. \A g \in Fields : g # f => def'[g] = def[g]
      BY DEF FieldInv, FieldTypeOK
    <2> QED  BY <2>1, <2>2 DEF FieldInv, ValuesFitFields, Defined
  <1> QED  BY <1>1, <1>2, RequestsEnd

LEMMA FieldDeactivate ==
    ASSUME FieldInv, NEW f \in Fields, Deactivate(f)
    PROVE  FieldInv'
  <1> USE DEF Deactivate
  <1>0. def[f] \in Definition /\ def'[f] = [def[f] EXCEPT !.active = FALSE]
    BY DEF FieldInv, FieldTypeOK, Defined
  <1>1. def'[f] \in Definition /\ def'[f].kind = def[f].kind
    BY <1>0 DEF Definition
  <1>2. FieldTypeOK'
    BY <1>1 DEF FieldInv, FieldTypeOK
  <1>3. def'[f] # Undefined
    BY <1>1, DefinitionsAreDefined
  <1>4. \A g \in Fields : (g = f \/ def'[g] = def[g])
    BY DEF FieldInv, FieldTypeOK
  <1>5. ValuesFitFields'
    BY <1>1, <1>3, <1>4 DEF FieldInv, ValuesFitFields, Defined
  <1> QED  BY <1>2, <1>5, RequestsEnd

LEMMA FieldWriteDefinition ==
    ASSUME FieldInv, NEW u \in FieldRequests, WriteDefinition(u)
    PROVE  FieldInv'
  <1> USE DEF WriteDefinition
  <1> DEFINE f == form[u].field
             d == form[u].def
  <1>0. /\ f \in Fields /\ d \in Definition
        /\ fieldsInTurn /\ HasValues(f) => d.kind = def[f].kind
    BY RequestKnown DEF Carries, StillFits
  <1>1. FieldTypeOK'
    BY <1>0 DEF FieldInv, FieldTypeOK
  <1>2. d # Undefined /\ \A g \in Fields : def'[g] = IF g = f THEN d ELSE def[g]
    BY <1>0, DefinitionsAreDefined DEF FieldInv, FieldTypeOK
  <1>3. ValuesFitFields'
    BY <1>0, <1>2 DEF FieldInv, ValuesFitFields, Defined, HasValues
  <1>4. form[u] # Free
    BY FreeRequest
  <1> QED  BY <1>1, <1>3, <1>4, RequestsEnd

LEMMA FieldFail ==
    ASSUME FieldInv, NEW u \in FieldRequests, FailForm(u)
    PROVE  FieldInv'
  <1>1. FieldTypeOK' /\ ValuesFitFields'
    BY DEF FieldInv, FieldTypeOK, ValuesFitFields, Defined, FailForm
  <1> QED  BY <1>1, RequestsEnd DEF FailForm

LEMMA FieldCheckDefinition ==
    ASSUME FieldInv, NEW u \in FieldRequests, NEW f \in Fields, NEW d \in Drafts, CheckDefinition(u, f, d)
    PROVE  FieldInv'
  <1> DEFINE request == [op |-> "define", field |-> f, def |-> d]
  <1>1. Carries(request)
    BY DraftsAreDefinitions DEF Carries
  <1>2. StillFits(request)
    BY DEF CheckDefinition, StillFits, KindEditable
  <1>3. fieldsInTurn => \A w \in FieldRequests : form[w] = Free
    BY Alone DEF CheckDefinition, Idle
  <1>4. form' = [form EXCEPT ![u] = request] /\ UNCHANGED <<def, value, saved, removed, fieldsInTurn>>
    BY DEF CheckDefinition
  <1>5. request.op \in {"define", "submitted", "checked"}
    OBVIOUS
  <1> HIDE DEF request
  <1> QED  BY <1>1, <1>2, <1>3, <1>4, <1>5, RequestStep

LEMMA FieldSubmit ==
    ASSUME FieldInv, NEW u \in FieldRequests, NEW o \in Holders, NEW S \in SUBSET Fields,
           NEW given \in [S -> Contents \cup {Blank}], SubmitForm(u, o, given)
    PROVE  FieldInv'
  <1> DEFINE request == [op |-> "submitted", record |-> o, given |-> given]
  <1>1. Carries(request)
    BY DEF Carries
  <1>2. StillFits(request)
    BY DEF SubmitForm, StillFits
  <1>3. fieldsInTurn => \A w \in FieldRequests : form[w] = Free
    BY Alone DEF SubmitForm, Idle
  <1>4. form' = [form EXCEPT ![u] = request] /\ UNCHANGED <<def, value, saved, removed, fieldsInTurn>>
    BY DEF SubmitForm
  <1>5. request.op \in {"define", "submitted", "checked"}
    OBVIOUS
  <1> HIDE DEF request
  <1> QED  BY <1>1, <1>2, <1>3, <1>4, <1>5, RequestStep

LEMMA FieldCheckValues ==
    ASSUME FieldInv, NEW u \in FieldRequests, CheckValues(u)
    PROVE  FieldInv'
  <1> DEFINE request == [op |-> "checked", record |-> form[u].record, given |-> form[u].given,
                         column |-> [f \in DOMAIN form[u].given |-> Column(def[f].kind)]]
  <1>0. form[u].op = "submitted" /\ form[u] # Free
    BY FreeRequest DEF CheckValues
  <1>1. Carries(request)
    BY <1>0, RequestKnown, ColumnTyped DEF Carries
  <1>2. fieldsInTurn => StillFits(request)
    BY <1>0, RequestKnown DEF StillFits
  <1>4. form' = [form EXCEPT ![u] = request] /\ UNCHANGED <<def, value, saved, removed, fieldsInTurn>>
    BY DEF CheckValues
  <1>5. request.op \in {"define", "submitted", "checked"}
    OBVIOUS
  <1> HIDE DEF request
  <1> QED  BY <1>0, <1>1, <1>2, <1>4, <1>5, RequestStep

\* What a save leaves of a value.
LEMMA WrittenValue ==
    ASSUME FieldInv, NEW u \in FieldRequests, WriteValues(u), NEW f \in Fields, NEW o \in Holders
    PROVE  LET given == form[u].given IN
           /\ form[u].record \in Holders
           /\ f \in DOMAIN given /\ o = form[u].record =>
                 value'[f][o] = IF given[f] = Blank THEN NoValue
                                ELSE [column |-> form[u].column[f], content |-> given[f]]
           /\ f \notin DOMAIN given \/ o # form[u].record => value'[f][o] = value[f][o]
  <1> DEFINE given == form[u].given
  <1>1. form[u].record \in Holders
    BY RequestKnown DEF WriteValues, Carries
  <1>2. value[f] \in [Holders -> Values \cup {NoValue}]
    BY DEF FieldInv, FieldTypeOK
  <1>3. value'[f] = IF f \in DOMAIN given
                      THEN [value[f] EXCEPT ![form[u].record] = Stored(@, given[f], form[u].column[f])]
                      ELSE value[f]
    BY DEF WriteValues
  <1> QED  BY <1>1, <1>2, <1>3 DEF Stored

LEMMA FieldWriteValues ==
    ASSUME FieldInv, NEW u \in FieldRequests, WriteValues(u)
    PROVE  FieldInv'
  <1> DEFINE given == form[u].given
             r == form[u].record
  <1>0. /\ form[u].op = "checked" /\ r \in Holders /\ DOMAIN given \subseteq Fields
        /\ \A f \in DOMAIN given : given[f] \in Contents \cup {Blank} /\ form[u].column[f] \in Columns
        /\ form[u] # Free
    BY RequestKnown, FreeRequest DEF WriteValues, Carries
  <1>1. ASSUME NEW f \in Fields
        PROVE  value'[f] \in [Holders -> Values \cup {NoValue}]
    <2>1. value[f] \in [Holders -> Values \cup {NoValue}]
      BY DEF FieldInv, FieldTypeOK
    <2>2. CASE f \notin DOMAIN given
      BY <2>1, <2>2 DEF WriteValues
    <2>3. CASE f \in DOMAIN given
      <3>1. Stored(value[f][r], given[f], form[u].column[f]) \in Values \cup {NoValue}
        BY <1>0, <2>3 DEF Stored, Values, Columns
      <3>2. value'[f] = [value[f] EXCEPT ![r] = Stored(value[f][r], given[f], form[u].column[f])]
        BY <2>1, <2>3, <1>0 DEF WriteValues
      <3> QED  BY <2>1, <3>1, <3>2, <1>0
    <2> QED  BY <2>2, <2>3
  <1>2. FieldTypeOK'
    <2>1. value' \in [Fields -> [Holders -> Values \cup {NoValue}]]
      <3>1. value' = [f \in Fields |-> value'[f]]
        BY DEF WriteValues
      <3> QED  BY <1>1, <3>1
    <2> QED  BY <2>1, <1>0 DEF FieldInv, FieldTypeOK, WriteValues
  <1>3. ASSUME fieldsInTurn, NEW f \in Fields, NEW o \in Holders, value'[f][o] # NoValue
        PROVE  Defined(f) /\ value'[f][o].column = Column(def[f].kind)
    <2>1. CASE f \in DOMAIN given /\ o = r
      <3>1. value'[f][o] = [column |-> form[u].column[f], content |-> given[f]]
        BY <1>3, <2>1, WrittenValue
      <3>2. form[u].column[f] = Column(def[f].kind) /\ Defined(f)
        BY <1>0, <1>3, <2>1, RequestKnown DEF StillFits, Shown, Available
      <3> QED  BY <3>1, <3>2
    <2>2. CASE ~(f \in DOMAIN given /\ o = r)
      <3>1. value'[f][o] = value[f][o]
        BY <2>2, WrittenValue
      <3> QED  BY <1>3, <3>1 DEF FieldInv, ValuesFitFields
    <2> QED  BY <2>1, <2>2
  <1>4. ValuesFitFields'
    BY <1>3 DEF ValuesFitFields, Defined, WriteValues
  <1> QED  BY <1>0, <1>2, <1>4, RequestsEnd DEF WriteValues

LEMMA FieldRemoveRecord ==
    ASSUME FieldInv, NEW o \in Holders, RemoveRecord(o)
    PROVE  FieldInv'
  <1>1. FieldTypeOK' /\ ValuesFitFields'
    BY DEF FieldInv, FieldTypeOK, ValuesFitFields, Defined, RemoveRecord
  <1> QED  BY <1>1, RequestsEnd DEF RemoveRecord

LEMMA FieldStep == FieldInv /\ [FieldNext]_fieldVars => FieldInv'
  <1> SUFFICES ASSUME FieldInv, [FieldNext]_fieldVars PROVE FieldInv'
    OBVIOUS
  <1>1. ASSUME NEW f \in Fields, NEW d \in Drafts, CreateDefinition(f, d) PROVE FieldInv'
    BY <1>1, FieldCreate
  <1>2. ASSUME NEW f \in Fields, Deactivate(f) PROVE FieldInv'
    BY <1>2, FieldDeactivate
  <1>3. ASSUME NEW u \in FieldRequests, NEW f \in Fields, NEW d \in Drafts, CheckDefinition(u, f, d) PROVE FieldInv'
    BY <1>3, FieldCheckDefinition
  <1>4. ASSUME NEW u \in FieldRequests, NEW o \in Holders, NEW S \in SUBSET Fields,
               NEW given \in [S -> Contents \cup {Blank}], SubmitForm(u, o, given) PROVE FieldInv'
    BY <1>4, FieldSubmit
  <1>5. ASSUME NEW u \in FieldRequests, WriteDefinition(u) PROVE FieldInv'
    BY <1>5, FieldWriteDefinition
  <1>6. ASSUME NEW u \in FieldRequests, CheckValues(u) PROVE FieldInv'
    BY <1>6, FieldCheckValues
  <1>7. ASSUME NEW u \in FieldRequests, WriteValues(u) PROVE FieldInv'
    BY <1>7, FieldWriteValues
  <1>8. ASSUME NEW u \in FieldRequests, FailForm(u) PROVE FieldInv'
    BY <1>8, FieldFail
  <1>9. CASE UNCHANGED fieldVars
    BY <1>9 DEF fieldVars, FieldInv, FieldTypeOK, ValuesFitFields, RequestsTyped, InTurn,
                Carries, StillFits, Defined, HasValues, Shown, Available, Mode, Accepts, Column
  <1>10. ASSUME NEW o \in Holders, RemoveRecord(o) PROVE FieldInv'
    BY <1>10, FieldRemoveRecord
  <1> QED  BY <1>1, <1>2, <1>3, <1>4, <1>5, <1>6, <1>7, <1>8, <1>9, <1>10 DEF FieldNext

\* A form saves what it requires and nothing it hides.
LEMMA SavesComplete ==
    ASSUME FieldInv, NEW u \in FieldRequests, fieldsInTurn, WriteValues(u), NEW f \in Fields
    PROVE  LET o == form[u].record IN
           /\ Shown(f, Mode(o)) /\ def[f].required => value'[f][o] # NoValue
           /\ ~Shown(f, Mode(o)) => value'[f][o] = value[f][o]
  <1> DEFINE o == form[u].record
             given == form[u].given
  <1>1. /\ o \in Holders
        /\ DOMAIN given = { g \in Fields : Shown(g, Mode(o)) }
        /\ \A g \in DOMAIN given : Accepts(g, given[g]) /\ form[u].column[g] \in Columns
    BY RequestKnown DEF WriteValues, Carries, StillFits
  <1>2. ASSUME Shown(f, Mode(o)), def[f].required PROVE value'[f][o] # NoValue
    <2>1. f \in DOMAIN given /\ given[f] # Blank
      BY <1>1, <1>2 DEF Accepts
    <2>2. value'[f][o] = [column |-> form[u].column[f], content |-> given[f]]
      BY <1>1, <2>1, WrittenValue
    <2> QED  BY <1>1, <2>1, <2>2 DEF NoValue, Columns
  <1>3. ASSUME ~Shown(f, Mode(o)) PROVE value'[f][o] = value[f][o]
    BY <1>1, <1>3, WrittenValue
  <1> QED  BY <1>2, <1>3

(* Custom values stay with their definitions however both are edited, and forms    *)
(* save what they require and nothing they hide.                                    *)
THEOREM FieldsSound == FieldSpec => FieldsAreSound
  <1>1. FieldInv => FieldTypeOK /\ ValuesFitFields
    BY DEF FieldInv
  <1>2. FieldInv /\ [FieldNext]_fieldVars =>
          [\A u \in FieldRequests :
              fieldsInTurn /\ WriteValues(u) =>
                  \A f \in Fields :
                      LET o == form[u].record IN
                      /\ Shown(f, Mode(o)) /\ def[f].required => value'[f][o] # NoValue
                      /\ ~Shown(f, Mode(o)) => value'[f][o] = value[f][o]]_fieldVars
    BY SavesComplete
  <1> QED  BY <1>1, <1>2, FieldInitInv, FieldStep, PTL DEF FieldSpec, FieldsAreSound, SavesAreComplete

-----------------------------------------------------------------------------
(* What the trail of one customer says. *)
StatusEntries(log) == { i \in DOMAIN log : log[i].action \in {"upserted", "soft_deleted"} }
FiledEntries(log) == { i \in DOMAIN log : log[i].action \in {"soft_deleted", "restored"} }
HasLast(S) == S # {} => \E i \in S : \A j \in S : j <= i

\* The customer was archived, and not restored since.
Filed(log) == LET FiledBy(entry) == entry.action \in {"soft_deleted", "restored"}
                  i == LastWhere(log, FiledBy)
              IN  i # 0 /\ log[i].action = "soft_deleted"

ChangesTold(log) ==
    \A i \in DOMAIN log : log[i].action = "status_changed" =>
        /\ log[i].from # log[i].to
        /\ StatusAt(SubSeq(log, 1, i - 2), log[i].from) = log[i].from

LogFits(log) ==
    /\ log \in Seq(Entry)
    /\ HasLast(StatusEntries(log)) /\ HasLast(FiledEntries(log))
    /\ ChangesTold(log)

\* Where the last status of a log stands.
LEMMA StatusFound ==
    ASSUME NEW log \in Seq(Entry), HasLast(StatusEntries(log)), NEW x
    PROVE  /\ StatusEntries(log) = {} => StatusAt(log, x) = x
           /\ \A i \in StatusEntries(log) :
                 (\A j \in StatusEntries(log) : j <= i) => StatusAt(log, x) = log[i].to
  <1> DEFINE S == { i \in DOMAIN log : SaysStatus(log[i]) }
  <1>0. S = StatusEntries(log) /\ S \subseteq Nat \ {0}
    BY DEF StatusEntries, SaysStatus
  <1>1. StatusAt(log, x) =
            LET i == IF S = {} THEN 0 ELSE CHOOSE i \in S : \A j \in S : j <= i
            IN  IF i = 0 THEN x ELSE log[i].to
    BY DEF StatusAt, LastWhere
  <1> HIDE DEF S
  <1>2. ASSUME NEW i \in S, \A j \in S : j <= i
        PROVE  StatusAt(log, x) = log[i].to
    <2>1. PICK k \in S : k = CHOOSE q \in S : \A j \in S : j <= q
      BY <1>2
    <2>2. k = i
      <3>1. \A j \in S : j <= k
        BY <1>2, <2>1
      <3> QED  BY <1>0, <1>2, <3>1
    <2> QED  BY <1>0, <1>1, <1>2, <2>1, <2>2
  <1> QED  BY <1>0, <1>1, <1>2

LEMMA FiledFound ==
    ASSUME NEW log \in Seq(Entry), HasLast(FiledEntries(log))
    PROVE  /\ FiledEntries(log) = {} => ~Filed(log)
           /\ \A i \in FiledEntries(log) :
                 (\A j \in FiledEntries(log) : j <= i) => (Filed(log) <=> log[i].action = "soft_deleted")
  <1> DEFINE S == { i \in DOMAIN log : log[i].action \in {"soft_deleted", "restored"} }
  <1>0. S = FiledEntries(log) /\ S \subseteq Nat \ {0}
    BY DEF FiledEntries
  <1>1. Filed(log) <=>
            LET i == IF S = {} THEN 0 ELSE CHOOSE i \in S : \A j \in S : j <= i
            IN  i # 0 /\ log[i].action = "soft_deleted"
    BY DEF Filed, LastWhere
  <1> HIDE DEF S
  <1>2. ASSUME NEW i \in S, \A j \in S : j <= i
        PROVE  Filed(log) <=> log[i].action = "soft_deleted"
    <2>1. PICK k \in S : k = CHOOSE q \in S : \A j \in S : j <= q
      BY <1>2
    <2>2. k = i
      <3>1. \A j \in S : j <= k
        BY <1>2, <2>1
      <3> QED  BY <1>0, <1>2, <3>1
    <2>3. S # {} /\ i # 0
      BY <1>0, <1>2
    <2> QED  BY <1>1, <2>1, <2>2, <2>3
  <1> QED  BY <1>0, <1>1, <1>2

\* One more entry.
LEMMA OneMore ==
    ASSUME NEW log \in Seq(Entry), NEW e \in Entry
    PROVE  LET more == log \o <<e>> IN
           /\ more \in Seq(Entry) /\ Len(more) = Len(log) + 1
           /\ DOMAIN more = DOMAIN log \cup {Len(log) + 1} /\ DOMAIN log = 1 .. Len(log)
           /\ \A i \in DOMAIN log : more[i] = log[i]
           /\ more[Len(log) + 1] = e /\ Len(log) \in Nat
           /\ \A i \in DOMAIN log : SubSeq(more, 1, i - 2) = SubSeq(log, 1, i - 2)
           /\ SubSeq(more, 1, Len(log)) = log
  <1> DEFINE more == log \o <<e>>
  <1>0. <<e>> \in Seq(Entry) /\ Len(<<e>>) = 1 /\ <<e>>[1] = e
    OBVIOUS
  <1>1. /\ more \in Seq(Entry) /\ Len(more) = Len(log) + 1 /\ Len(log) \in Nat
        /\ \A i \in 1 .. Len(log) + 1 : more[i] = IF i <= Len(log) THEN log[i] ELSE <<e>>[i - Len(log)]
        /\ DOMAIN log = 1 .. Len(log) /\ DOMAIN more = 1 .. Len(more)
    BY <1>0, ConcatProperties, LenProperties
  <1> HIDE DEF more
  <1>2. /\ DOMAIN more = DOMAIN log \cup {Len(log) + 1}
        /\ \A i \in DOMAIN log : more[i] = log[i]
    BY <1>1
  <1>3. more[Len(log) + 1] = e
    BY <1>0, <1>1
  <1>4. ASSUME NEW n \in Int, n <= Len(log)
        PROVE  SubSeq(more, 1, n) = SubSeq(log, 1, n)
    BY <1>4, <1>0, SubSeqOfConcat1 DEF more
  <1>5. SubSeq(log, 1, Len(log)) = log
    BY SubSeqFull
  <1>6. \A i \in DOMAIN log : SubSeq(more, 1, i - 2) = SubSeq(log, 1, i - 2)
    BY <1>1, <1>4
  <1>7. SubSeq(more, 1, Len(log)) = log
    BY <1>1, <1>4, <1>5
  <1> QED  BY <1>1, <1>2, <1>3, <1>6, <1>7 DEF more

LEMMA StatusAfter ==
    ASSUME NEW log \in Seq(Entry), NEW e \in Entry, HasLast(StatusEntries(log)), NEW x
    PROVE  LET more == log \o <<e>> IN
           /\ HasLast(StatusEntries(more))
           /\ SaysStatus(e) => StatusAt(more, x) = e.to
           /\ ~SaysStatus(e) => StatusAt(more, x) = StatusAt(log, x)
  <1> DEFINE more == log \o <<e>>
             n == Len(log) + 1
  <1>1. /\ more \in Seq(Entry) /\ DOMAIN more = DOMAIN log \cup {n} /\ DOMAIN log = 1 .. Len(log)
        /\ \A i \in DOMAIN log : more[i] = log[i]
        /\ more[n] = e /\ n \in Nat /\ n \notin DOMAIN log /\ \A i \in DOMAIN log : i <= n
    BY OneMore
  <1> HIDE DEF more, n
  <1>2. CASE SaysStatus(e)
    <2>1. n \in StatusEntries(more) /\ \A j \in StatusEntries(more) : j <= n
      BY <1>1, <1>2 DEF StatusEntries, SaysStatus
    <2>2. HasLast(StatusEntries(more))
      BY <2>1 DEF HasLast
    <2> QED  BY <1>1, <1>2, <2>1, <2>2, StatusFound DEF more
  <1>3. CASE ~SaysStatus(e)
    <2>1. StatusEntries(more) = StatusEntries(log)
      BY <1>1, <1>3 DEF StatusEntries, SaysStatus
    <2>2. CASE StatusEntries(log) = {}
      BY <1>1, <1>3, <2>1, <2>2, StatusFound DEF more
    <2>3. CASE StatusEntries(log) # {}
      <3>1. PICK i \in StatusEntries(log) : \A j \in StatusEntries(log) : j <= i
        BY <2>3 DEF HasLast
      <3>2. i \in DOMAIN log
        BY DEF StatusEntries
      <3>3. StatusAt(log, x) = log[i].to
        BY <3>1, StatusFound
      <3>4. StatusAt(more, x) = more[i].to
        BY <1>1, <2>1, <3>1, StatusFound
      <3> QED  BY <1>1, <1>3, <2>1, <3>2, <3>3, <3>4 DEF more
    <2> QED  BY <2>2, <2>3
  <1> QED  BY <1>2, <1>3 DEF more

LEMMA FiledAfter ==
    ASSUME NEW log \in Seq(Entry), NEW e \in Entry, HasLast(FiledEntries(log))
    PROVE  LET more == log \o <<e>> IN
           /\ HasLast(FiledEntries(more))
           /\ e.action = "soft_deleted" => Filed(more)
           /\ e.action = "restored" => ~Filed(more)
           /\ e.action \notin {"soft_deleted", "restored"} => (Filed(more) <=> Filed(log))
  <1> DEFINE more == log \o <<e>>
             n == Len(log) + 1
  <1>1. /\ more \in Seq(Entry) /\ DOMAIN more = DOMAIN log \cup {n} /\ DOMAIN log = 1 .. Len(log)
        /\ \A i \in DOMAIN log : more[i] = log[i]
        /\ more[n] = e /\ n \in Nat /\ n \notin DOMAIN log /\ \A i \in DOMAIN log : i <= n
    BY OneMore
  <1> HIDE DEF more, n
  <1>2. CASE e.action \in {"soft_deleted", "restored"}
    <2>1. n \in FiledEntries(more) /\ \A j \in FiledEntries(more) : j <= n
      BY <1>1, <1>2 DEF FiledEntries
    <2>2. HasLast(FiledEntries(more))
      BY <2>1 DEF HasLast
    <2>3. Filed(more) <=> e.action = "soft_deleted"
      BY <1>1, <2>1, <2>2, FiledFound
    <2> QED  BY <1>2, <2>2, <2>3 DEF more
  <1>3. CASE e.action \notin {"soft_deleted", "restored"}
    <2>1. FiledEntries(more) = FiledEntries(log)
      BY <1>1, <1>3 DEF FiledEntries
    <2>2. Filed(more) <=> Filed(log)
      <3>1. CASE FiledEntries(log) = {}
        BY <1>1, <2>1, <3>1, FiledFound
      <3>2. CASE FiledEntries(log) # {}
        <4>1. PICK i \in FiledEntries(log) : \A j \in FiledEntries(log) : j <= i
          BY <3>2 DEF HasLast
        <4>2. i \in DOMAIN log
          BY DEF FiledEntries
        <4>3. Filed(log) <=> log[i].action = "soft_deleted"
          BY <4>1, FiledFound
        <4>4. Filed(more) <=> more[i].action = "soft_deleted"
          BY <1>1, <2>1, <4>1, FiledFound
        <4> QED  BY <1>1, <4>2, <4>3, <4>4
      <3> QED  BY <3>1, <3>2
    <2> QED  BY <1>3, <2>1, <2>2 DEF more
  <1> QED  BY <1>2, <1>3 DEF more

\* Any entry but a change of status may follow any other; a change of status follows
\* the entry of the save that made it.
LEMMA FitsAfter ==
    ASSUME NEW log, LogFits(log), NEW e \in Entry, e.action # "status_changed"
    PROVE  LogFits(log \o <<e>>)
  <1>1. log \in Seq(Entry) /\ HasLast(StatusEntries(log)) /\ HasLast(FiledEntries(log)) /\ ChangesTold(log)
    BY DEF LogFits
  <1>2. HasLast(StatusEntries(log \o <<e>>)) /\ HasLast(FiledEntries(log \o <<e>>))
    BY <1>1, StatusAfter, FiledAfter
  <1> DEFINE more == log \o <<e>>
             n == Len(log) + 1
  <1>3. /\ more \in Seq(Entry) /\ DOMAIN more = DOMAIN log \cup {n} /\ more[n] = e
        /\ \A i \in DOMAIN log : more[i] = log[i] /\ SubSeq(more, 1, i - 2) = SubSeq(log, 1, i - 2)
    BY <1>1, OneMore
  <1> HIDE DEF more, n
  <1>4. ChangesTold(more)
    BY <1>1, <1>3 DEF ChangesTold
  <1> QED  BY <1>2, <1>3, <1>4 DEF LogFits, more

LEMMA FitsAfterChange ==
    ASSUME NEW log, LogFits(log), NEW e \in Entry, e.action = "upserted",
           NEW d \in Entry, d.action = "status_changed", d.from # d.to,
           StatusAt(log, d.from) = d.from
    PROVE  LogFits(log \o <<e>> \o <<d>>)
  <1> DEFINE base == log \o <<e>>
             more == base \o <<d>>
             n == Len(base) + 1
  <1>1. LogFits(base)
    BY FitsAfter
  <1>2. base \in Seq(Entry) /\ log \in Seq(Entry) /\ HasLast(StatusEntries(base)) /\ HasLast(FiledEntries(base)) /\ ChangesTold(base)
    BY <1>1 DEF LogFits
  <1>3. Len(base) = Len(log) + 1 /\ SubSeq(base, 1, Len(log)) = log /\ Len(log) \in Nat
    BY <1>2, OneMore
  <1>4. HasLast(StatusEntries(more)) /\ HasLast(FiledEntries(more))
    <2> HIDE DEF base
    <2> QED  BY <1>2, StatusAfter, FiledAfter
  <1>5. /\ more \in Seq(Entry) /\ DOMAIN more = DOMAIN base \cup {n} /\ more[n] = d
        /\ \A i \in DOMAIN base : more[i] = base[i] /\ SubSeq(more, 1, i - 2) = SubSeq(base, 1, i - 2)
    <2> HIDE DEF base
    <2> QED  BY <1>2, OneMore
  <1>6. SubSeq(more, 1, n - 2) = log
    <2>1. n - 2 = Len(log) /\ Len(log) <= Len(base)
      BY <1>3
    <2>2. SubSeq(more, 1, Len(log)) = SubSeq(base, 1, Len(log))
      <3> HIDE DEF base
      <3>1. <<d>> \in Seq(Entry)
        OBVIOUS
      <3> QED  BY <1>2, <1>3, <2>1, <3>1, SubSeqOfConcat1
    <2> QED  BY <1>3, <2>1, <2>2
  <1> HIDE DEF more, n, base
  <1>7. ChangesTold(more)
    BY <1>2, <1>5, <1>6 DEF ChangesTold
  <1> QED  BY <1>4, <1>5, <1>7 DEF LogFits, more, base

--------------------------------------------------------------------------------
(* The inductive invariant: each customer's trail fits its record, and in turn an    *)
(* edit still has the reason it needs.                                              *)
StatusTold(c) == StatusAt(history[c], customer[c].status) = customer[c].status
NeverRemoved(c) == \A i \in DOMAIN history[c] : history[c][i].action # "hard_deleted"

TrailFits(c) ==
    /\ LogFits(history[c])
    /\ Exists(c) =>
          /\ StatusTold(c) /\ NeverRemoved(c)
          /\ customer[c].archived <=> Filed(history[c])
          /\ customer[c].archived => customer[c].status = "inactive"
    /\ ~Exists(c) => \A i \in DOMAIN history[c] : history[c][i].action = "hard_deleted" =>
          i = 2 /\ \A j \in DOMAIN history[c] : j > i => history[c][j].action = "attempt"

ReasonsGiven(c) ==
    \A i \in DOMAIN history[c] : history[c][i].action = "status_changed" => history[c][i].reasoned

NeedsNoMore(e) ==
    edit[e] # NoEdit /\ Exists(edit[e].of) /\ edit[e].post.status # customer[edit[e].of].status
        => edit[e].post.reasoned

EditsFit ==
    /\ DOMAIN edit = Editors
    /\ \A e \in Editors : edit[e] = NoEdit \/ (edit[e].of \in Customers /\ edit[e].post \in Posted)

EditsInTurn ==
    recordsInTurn =>
        /\ \A e, d \in Editors : edit[e] # NoEdit /\ edit[d] # NoEdit => e = d
        /\ \A e \in Editors : NeedsNoMore(e)
        /\ \A c \in Customers : ReasonsGiven(c)

RecordInv ==
    /\ RecordTypeOK /\ EditsFit /\ EditsInTurn
    /\ \A c \in Customers : TrailFits(c)

LEMMA EmptyTrail ==
    LogFits(<<>>) /\ ~Filed(<<>>) /\ \A x : StatusAt(<<>>, x) = x
  <1>0. <<>> \in Seq(Entry) /\ DOMAIN <<>> = {}
    OBVIOUS
  <1>1. StatusEntries(<<>>) = {} /\ FiledEntries(<<>>) = {}
    BY <1>0 DEF StatusEntries, FiledEntries
  <1>2. HasLast(StatusEntries(<<>>)) /\ HasLast(FiledEntries(<<>>))
    BY <1>1 DEF HasLast
  <1>3. ChangesTold(<<>>)
    BY <1>0 DEF ChangesTold
  <1> QED  BY <1>0, <1>1, <1>2, <1>3, StatusFound, FiledFound DEF LogFits

LEMMA RecordInitInv == RecordInit => RecordInv
  <1> SUFFICES ASSUME RecordInit PROVE RecordInv
    OBVIOUS
  <1>0. DOMAIN customer = {} /\ DOMAIN <<>> = {} /\ <<>> \in Seq(Entry)
    BY DEF RecordInit
  <1>1. RecordTypeOK
    BY <1>0 DEF RecordInit, RecordTypeOK
  <1>2. ASSUME NEW c \in Customers PROVE TrailFits(c) /\ ReasonsGiven(c)
    <2>1. history[c] = <<>> /\ ~Exists(c)
      BY <1>0 DEF RecordInit, Exists
    <2> QED  BY <1>0, <2>1, EmptyTrail DEF TrailFits, ReasonsGiven
  <1>3. EditsFit /\ EditsInTurn
    BY <1>2 DEF RecordInit, EditsFit, EditsInTurn, NeedsNoMore
  <1> QED  BY <1>1, <1>2, <1>3 DEF RecordInv

\* What the invariant says of one customer.
LEMMA CustomerKnown ==
    ASSUME RecordInv, NEW c \in Customers
    PROVE  /\ history[c] \in Seq(Entry) /\ DOMAIN history = Customers /\ TrailFits(c)
           /\ LogFits(history[c]) /\ HasLast(StatusEntries(history[c])) /\ HasLast(FiledEntries(history[c]))
           /\ Exists(c) => customer[c] \in Record
  BY DEF RecordInv, RecordTypeOK, TrailFits, LogFits, Exists

\* An entry says nothing of a removal, nor of a change.
Ordinary(e) == e \in Entry /\ e.action \notin {"hard_deleted", "status_changed"}

\* One more entry on the trail of c and a row that agrees with it.
LEMMA TrailGrows ==
    ASSUME RecordInv, NEW c \in Customers, NEW e, Ordinary(e),
           history'[c] = history[c] \o <<e>>, Exists(c)',
           Exists(c) \/ history[c] = <<>>,
           SaysStatus(e) => customer'[c].status = e.to,
           ~SaysStatus(e) => Exists(c) /\ customer'[c].status = customer[c].status,
           e.action = "soft_deleted" => customer'[c].archived,
           e.action = "restored" => ~customer'[c].archived,
           e.action \notin {"soft_deleted", "restored"} =>
               (customer'[c].archived <=> Exists(c) /\ customer[c].archived),
           customer'[c].archived => customer'[c].status = "inactive"
    PROVE  TrailFits(c)'
  <1> DEFINE log == history[c]
             more == history'[c]
  <1>1. LogFits(log) /\ log \in Seq(Entry) /\ HasLast(StatusEntries(log)) /\ HasLast(FiledEntries(log))
    BY CustomerKnown
  <1>2. LogFits(more)
    BY <1>1, FitsAfter DEF Ordinary
  <1>3. StatusTold(c)'
    <2>1. CASE SaysStatus(e)
      BY <1>1, <2>1, StatusAfter DEF StatusTold, Ordinary
    <2>2. CASE ~SaysStatus(e)
      <3>1. StatusAt(more, customer'[c].status) = StatusAt(log, customer'[c].status)
        BY <1>1, <2>2, StatusAfter DEF Ordinary
      <3>2. StatusAt(log, customer[c].status) = customer[c].status
        BY <2>2, CustomerKnown DEF TrailFits, StatusTold
      <3> QED  BY <2>2, <3>1, <3>2 DEF StatusTold
    <2> QED  BY <2>1, <2>2
  <1>4. NeverRemoved(c)'
    <2>1. \A i \in DOMAIN log : log[i].action # "hard_deleted"
      BY CustomerKnown DEF TrailFits, NeverRemoved
    <2>2. \A i \in DOMAIN more : (i \in DOMAIN log /\ more[i] = log[i]) \/ more[i] = e
      BY <1>1, OneMore DEF Ordinary
    <2> QED  BY <2>1, <2>2 DEF NeverRemoved, Ordinary
  <1>5. Exists(c) => (customer[c].archived <=> Filed(log))
    BY CustomerKnown DEF TrailFits
  <1>6. ~Exists(c) => ~Filed(log)
    BY EmptyTrail
  <1>7. /\ e.action = "soft_deleted" => Filed(more)
        /\ e.action = "restored" => ~Filed(more)
        /\ e.action \notin {"soft_deleted", "restored"} => (Filed(more) <=> Filed(log))
    BY <1>1, FiledAfter DEF Ordinary
  <1>8. customer'[c].archived <=> Filed(more)
    BY <1>5, <1>6, <1>7
  <1> QED  BY <1>2, <1>3, <1>4, <1>8 DEF TrailFits

\* Reasons stay, and an ordinary entry needs none.
LEMMA ReasonsGrow ==
    ASSUME RecordInv, NEW c \in Customers, ReasonsGiven(c), NEW e, Ordinary(e),
           history'[c] = history[c] \o <<e>>
    PROVE  ReasonsGiven(c)'
  <1>1. \A i \in DOMAIN history'[c] : (i \in DOMAIN history[c] /\ history'[c][i] = history[c][i]) \/ history'[c][i] = e
    BY CustomerKnown, OneMore DEF Ordinary
  <1> QED  BY <1>1 DEF ReasonsGiven, Ordinary

LEMMA TrailStays ==
    ASSUME RecordInv, NEW c \in Customers, history'[c] = history[c],
           Exists(c)' <=> Exists(c), Exists(c) => customer'[c].status = customer[c].status
                                                /\ customer'[c].archived = customer[c].archived
    PROVE  TrailFits(c)' /\ (ReasonsGiven(c) => ReasonsGiven(c)')
  BY CustomerKnown DEF TrailFits, StatusTold, NeverRemoved, ReasonsGiven

\* A step on the record of c, while no edit matters to it.
OthersStay(c) ==
    /\ \A d \in Customers : d # c => history'[d] = history[d] /\ (Exists(d)' <=> Exists(d))
                                     /\ (Exists(d) => customer'[d] = customer[d])
    /\ UNCHANGED recordsInTurn

LEMMA RecordStepOn ==
    ASSUME RecordInv, Undisturbed, NEW c \in Customers, OthersStay(c), UNCHANGED edit,
           RecordTypeOK', TrailFits(c)', ReasonsGiven(c) => ReasonsGiven(c)'
    PROVE  RecordInv'
  <1>1. ASSUME NEW d \in Customers, d # c
        PROVE  TrailFits(d)' /\ (ReasonsGiven(d) => ReasonsGiven(d)')
    <2>1. /\ history'[d] = history[d] /\ (Exists(d)' <=> Exists(d))
          /\ Exists(d) => customer'[d] = customer[d]
      BY <1>1 DEF OthersStay
    <2> QED  BY <2>1, TrailStays
  <1>2. \A d \in Customers : TrailFits(d)' /\ (ReasonsGiven(d) => ReasonsGiven(d)')
    BY <1>1
  <1>3. EditsFit'
    BY DEF RecordInv, EditsFit
  <1>4. EditsInTurn'
    <2>1. recordsInTurn => \A e \in Editors : edit[e] = NoEdit
      BY DEF Undisturbed
    <2>2. recordsInTurn' = recordsInTurn
      BY DEF OthersStay
    <2>3. recordsInTurn => \A d \in Customers : ReasonsGiven(d)'
      BY <1>2 DEF RecordInv, EditsInTurn
    <2> QED  BY <2>1, <2>2, <2>3 DEF EditsInTurn, NeedsNoMore
  <1> QED  BY <1>2, <1>3, <1>4 DEF RecordInv

\* The audit entry of one customer.
LEMMA OneEntry ==
    ASSUME RecordInv, NEW c \in Customers, NEW e, Ordinary(e), Log(c, <<e>>)
    PROVE  /\ history'[c] = history[c] \o <<e>>
           /\ \A d \in Customers : d # c => history'[d] = history[d]
           /\ history' \in [Customers -> Seq(Entry)]
  <1>1. history[c] \o <<e>> \in Seq(Entry) /\ history \in [Customers -> Seq(Entry)]
    BY CustomerKnown, OneMore DEF Ordinary, RecordInv, RecordTypeOK
  <1> QED  BY <1>1 DEF Log

LEMMA NotesAreOrdinary ==
    \A a \in {"upserted", "soft_deleted", "restored", "anonymized", "attempt"}, s \in Statuses \cup {"none"} :
        Ordinary(Note(a, s)) /\ Note(a, s).action = a /\ Note(a, s).to = s
  BY DEF Ordinary, Note, Entry

LEMMA RecordCreate ==
    ASSUME RecordInv, NEW c \in Customers, NEW s \in Statuses, NEW i \in BOOLEAN, CreateCustomer(c, s, i)
    PROVE  RecordInv'
  <1> DEFINE e == Note("upserted", s)
  <1>0. Ordinary(e) /\ e.action = "upserted" /\ e.to = s
    BY NotesAreOrdinary
  <1>1. /\ DOMAIN customer' = DOMAIN customer \cup {c} /\ ~Exists(c) /\ history[c] = <<>> /\ Undisturbed
        /\ customer'[c] = Created(s, i) /\ \A d \in DOMAIN customer : d # c => customer'[d] = customer[d]
        /\ Log(c, <<e>>) /\ UNCHANGED <<billed, edit, refused, recordsInTurn>>
    BY DEF CreateCustomer, With, Fresh
  <1> HIDE DEF e
  <1>2. /\ history'[c] = history[c] \o <<e>> /\ history' \in [Customers -> Seq(Entry)]
        /\ \A d \in Customers : d # c => history'[d] = history[d]
    BY <1>0, <1>1, OneEntry
  <1>3. customer'[c] \in Record /\ ~customer'[c].archived /\ customer'[c].status = s
    BY <1>1 DEF Created, Record
  <1>4. RecordTypeOK'
    BY <1>1, <1>2, <1>3 DEF RecordInv, RecordTypeOK
  <1>5. OthersStay(c)
    BY <1>1, <1>2 DEF OthersStay, Exists
  <1>6. Exists(c)' /\ SaysStatus(e)
    BY <1>0, <1>1 DEF Exists, SaysStatus
  <1>7. TrailFits(c)'
    BY <1>0, <1>1, <1>2, <1>3, <1>6, TrailGrows
  <1>8. ReasonsGiven(c) => ReasonsGiven(c)'
    BY <1>0, <1>2, ReasonsGrow
  <1> QED  BY <1>1, <1>4, <1>5, <1>7, <1>8, RecordStepOn

LEMMA RecordEnter ==
    ASSUME RecordInv, NEW c \in Customers, NEW s \in Statuses, NEW i \in BOOLEAN, EnterCustomer(c, s, i)
    PROVE  RecordInv'
  <1>1. /\ DOMAIN customer' = DOMAIN customer \cup {c} /\ ~Exists(c) /\ history[c] = <<>> /\ Undisturbed
        /\ customer'[c] = Created(s, i) /\ \A d \in DOMAIN customer : d # c => customer'[d] = customer[d]
        /\ UNCHANGED <<billed, history, edit, refused, recordsInTurn>>
    BY DEF EnterCustomer, With, Fresh
  <1>3. customer'[c] \in Record /\ ~customer'[c].archived /\ customer'[c].status = s
    BY <1>1 DEF Created, Record
  <1>4. RecordTypeOK'
    BY <1>1, <1>3 DEF RecordInv, RecordTypeOK
  <1>5. OthersStay(c)
    BY <1>1 DEF OthersStay, Exists
  <1>6. Exists(c)' /\ history'[c] = <<>> /\ DOMAIN history'[c] = {}
    BY <1>1 DEF Exists
  <1>7. TrailFits(c)'
    <2>1. StatusTold(c)' /\ NeverRemoved(c)' /\ ~Filed(history'[c]) /\ LogFits(history'[c])
      BY <1>6, EmptyTrail DEF StatusTold, NeverRemoved
    <2> QED  BY <1>3, <1>6, <2>1 DEF TrailFits
  <1>8. ReasonsGiven(c)'
    BY <1>6 DEF ReasonsGiven
  <1> QED  BY <1>1, <1>4, <1>5, <1>7, <1>8, RecordStepOn

\* A step that logs one thing about a customer that is there.
LEMMA RecordLogs ==
    ASSUME RecordInv, NEW c \in Customers, NEW e, Ordinary(e), ~SaysStatus(e) \/ e.to = customer'[c].status,
           ~SaysStatus(e) => customer'[c].status = customer[c].status,
           e.action = "soft_deleted" => customer'[c].archived,
           e.action = "restored" => ~customer'[c].archived,
           e.action \notin {"soft_deleted", "restored"} => customer'[c].archived = customer[c].archived,
           customer'[c].archived => customer'[c].status = "inactive",
           Undisturbed, Exists(c), NEW row \in Record, customer'[c] = row, DOMAIN customer' = DOMAIN customer,
           \A d \in DOMAIN customer : d # c => customer'[d] = customer[d],
           Log(c, <<e>>), UNCHANGED <<billed, edit, refused, recordsInTurn>>
    PROVE  RecordInv'
  <1>1. /\ history'[c] = history[c] \o <<e>> /\ history' \in [Customers -> Seq(Entry)]
        /\ \A d \in Customers : d # c => history'[d] = history[d]
    BY OneEntry
  <1>2. /\ DOMAIN customer' = DOMAIN customer /\ customer'[c] = row
        /\ \A d \in DOMAIN customer : d # c => customer'[d] = customer[d]
    OBVIOUS
  <1>3. RecordTypeOK'
    BY <1>1, <1>2 DEF RecordInv, RecordTypeOK
  <1>4. OthersStay(c)
    BY <1>1, <1>2 DEF OthersStay, Exists
  <1>5. Exists(c)'
    BY <1>2 DEF Exists
  <1>6. customer'[c].archived = customer[c].archived => (customer'[c].archived <=> customer[c].archived)
    BY Zenon
  <1>7. TrailFits(c)'
    BY <1>1, <1>5, <1>6, TrailGrows
  <1>8. ReasonsGiven(c) => ReasonsGiven(c)'
    BY <1>1, ReasonsGrow
  <1> QED  BY <1>3, <1>4, <1>7, <1>8, RecordStepOn

LEMMA RecordArchive ==
    ASSUME RecordInv, NEW c \in Customers, SoftDelete(c)
    PROVE  RecordInv'
  <1> DEFINE e == Note("soft_deleted", "inactive")
             row == [customer[c] EXCEPT !.archived = TRUE, !.status = "inactive"]
  <1>0. Ordinary(e) /\ e.action = "soft_deleted" /\ e.to = "inactive"
    BY NotesAreOrdinary DEF Statuses
  <1>1. Exists(c) /\ Undisturbed /\ Log(c, <<e>>) /\ UNCHANGED <<billed, edit, refused, recordsInTurn>>
    BY DEF SoftDelete, Listed
  <1>2. customer[c] \in Record
    BY <1>1, CustomerKnown
  <1>3. row \in Record /\ row.archived /\ row.status = "inactive"
    BY <1>2 DEF Record, Statuses
  <1>4. /\ DOMAIN customer' = DOMAIN customer /\ customer'[c] = row
        /\ \A d \in DOMAIN customer : d # c => customer'[d] = customer[d]
    BY <1>1 DEF SoftDelete, Exists
  <1> HIDE DEF e, row
  <1> QED  BY <1>0, <1>1, <1>3, <1>4, RecordLogs DEF SaysStatus

LEMMA RecordRestore ==
    ASSUME RecordInv, NEW c \in Customers, RestoreCustomer(c)
    PROVE  RecordInv'
  <1> DEFINE e == Note("restored", "none")
             row == [customer[c] EXCEPT !.archived = FALSE]
  <1>0. Ordinary(e) /\ e.action = "restored"
    BY NotesAreOrdinary
  <1>1. Exists(c) /\ Undisturbed /\ Log(c, <<e>>) /\ UNCHANGED <<billed, edit, refused, recordsInTurn>>
    BY DEF RestoreCustomer
  <1>2. customer[c] \in Record
    BY <1>1, CustomerKnown
  <1>3. row \in Record /\ ~row.archived /\ row.status = customer[c].status
    BY <1>2 DEF Record
  <1>4. /\ DOMAIN customer' = DOMAIN customer /\ customer'[c] = row
        /\ \A d \in DOMAIN customer : d # c => customer'[d] = customer[d]
    BY <1>1 DEF RestoreCustomer, Exists
  <1> HIDE DEF e, row
  <1> QED  BY <1>0, <1>1, <1>3, <1>4, RecordLogs DEF SaysStatus

LEMMA RecordAnonymize ==
    ASSUME RecordInv, NEW c \in Customers, Anonymize(c)
    PROVE  RecordInv'
  <1> DEFINE e == Note("anonymized", "none")
             row == [customer[c] EXCEPT !.identity = "removed"]
  <1>0. Ordinary(e) /\ e.action = "anonymized"
    BY NotesAreOrdinary
  <1>1. Exists(c) /\ Undisturbed /\ Log(c, <<e>>) /\ UNCHANGED <<billed, edit, refused, recordsInTurn>>
    BY DEF Anonymize
  <1>2. customer[c] \in Record
    BY <1>1, CustomerKnown
  <1>3. row \in Record /\ row.archived = customer[c].archived /\ row.status = customer[c].status
    BY <1>2 DEF Record
  <1>4. /\ DOMAIN customer' = DOMAIN customer /\ customer'[c] = row
        /\ \A d \in DOMAIN customer : d # c => customer'[d] = customer[d]
    BY <1>1 DEF Anonymize, Exists
  <1>5. customer[c].archived => customer[c].status = "inactive"
    BY <1>1, CustomerKnown DEF TrailFits
  <1> HIDE DEF e, row
  <1>7. customer'[c].archived => customer'[c].status = "inactive"
    BY <1>3, <1>4, <1>5
  <1>8. e.action \notin {"soft_deleted", "restored", "upserted"} /\ ~SaysStatus(e)
    BY <1>0 DEF SaysStatus
  <1> QED  BY <1>0, <1>1, <1>3, <1>4, <1>7, <1>8, RecordLogs

LEMMA RecordRefuse ==
    ASSUME RecordInv, NEW c \in Customers, RefuseRemoval(c)
    PROVE  RecordInv'
  <1>1. Undisturbed /\ refused' \subseteq Customers /\ UNCHANGED <<customer, billed, history, edit, recordsInTurn>>
    BY DEF RefuseRemoval, RecordInv, RecordTypeOK
  <1>2. RecordTypeOK' /\ OthersStay(c)
    BY <1>1 DEF RecordInv, RecordTypeOK, OthersStay, Exists
  <1>3. TrailFits(c)' /\ (ReasonsGiven(c) => ReasonsGiven(c)')
    BY <1>1, TrailStays DEF Exists
  <1> QED  BY <1>1, <1>2, <1>3, RecordStepOn

\* The entry of a refusal, on the trail of a customer that may be gone.
LEMMA RecordLogRefusal ==
    ASSUME RecordInv, NEW c \in Customers, LogRefusal(c)
    PROVE  RecordInv'
  <1> DEFINE e == Note("attempt", "none")
  <1>0. Ordinary(e) /\ e.action = "attempt" /\ ~SaysStatus(e)
    BY NotesAreOrdinary DEF SaysStatus
  <1>1. Log(c, <<e>>) /\ refused' \subseteq Customers /\ UNCHANGED <<customer, billed, edit, recordsInTurn>>
    BY DEF LogRefusal, RecordInv, RecordTypeOK
  <1> HIDE DEF e
  <1>2. /\ history'[c] = history[c] \o <<e>> /\ history' \in [Customers -> Seq(Entry)]
        /\ \A d \in Customers : d # c => history'[d] = history[d]
    BY <1>0, <1>1, OneEntry
  <1>3. RecordTypeOK' /\ EditsFit'
    BY <1>1, <1>2 DEF RecordInv, RecordTypeOK, EditsFit
  <1>4. OthersStay(c)
    BY <1>1, <1>2 DEF OthersStay, Exists
  <1>5. ASSUME Exists(c) PROVE TrailFits(c)'
    <2>0. customer' = customer
      BY <1>1
    <2>1. Exists(c)' /\ customer'[c] = customer[c]
      BY <1>5, <2>0 DEF Exists
    <2>2. customer[c].archived => customer[c].status = "inactive"
      BY <1>5, CustomerKnown DEF TrailFits
    <2>3. customer'[c].archived <=> Exists(c) /\ customer[c].archived
      BY <1>5, <2>1, Zenon
    <2>4. customer'[c].archived => customer'[c].status = "inactive"
      BY <2>1, <2>2, Zenon
    <2>5. e.action \notin {"soft_deleted", "restored"}
      BY <1>0
    <2>6. customer'[c].status = customer[c].status
      BY <2>1
    <2>7. history'[c] = history[c] \o <<e>>
      BY <1>2
    <2>8. TrailFits(c)'
      BY <1>0, <1>5, <2>1, <2>3, <2>4, <2>5, <2>6, <2>7, TrailGrows
    <2> QED  BY <2>8
  <1>6. ASSUME ~Exists(c) PROVE TrailFits(c)'
    <2>1. LogFits(history'[c])
      BY <1>0, <1>2, CustomerKnown, FitsAfter DEF Ordinary
    <2>2. /\ Len(history[c]) \in Nat /\ DOMAIN history'[c] = DOMAIN history[c] \cup {Len(history[c]) + 1}
          /\ history'[c][Len(history[c]) + 1] = e
          /\ \A i \in DOMAIN history[c] : history'[c][i] = history[c][i]
      BY <1>0, <1>2, CustomerKnown, OneMore DEF Ordinary
    <2>3. \A i \in DOMAIN history[c] : history[c][i].action = "hard_deleted" =>
             i = 2 /\ \A j \in DOMAIN history[c] : j > i => history[c][j].action = "attempt"
      BY <1>6, CustomerKnown DEF TrailFits
    <2>4. ASSUME NEW i \in DOMAIN history'[c], history'[c][i].action = "hard_deleted"
          PROVE  i = 2 /\ \A j \in DOMAIN history'[c] : j > i => history'[c][j].action = "attempt"
      <3>1. i \in DOMAIN history[c] /\ history[c][i].action = "hard_deleted"
        BY <1>0, <2>2, <2>4
      <3>2. i = 2 /\ \A j \in DOMAIN history[c] : j > i => history[c][j].action = "attempt"
        BY <2>3, <3>1
      <3>3. \A j \in DOMAIN history'[c] :
               (j \in DOMAIN history[c] /\ history'[c][j] = history[c][j]) \/ history'[c][j].action = "attempt"
        BY <1>0, <2>2
      <3> QED  BY <3>2, <3>3
    <2>5. ~Exists(c)'
      BY <1>1, <1>6 DEF Exists
    <2> DEFINE Gone == \A i \in DOMAIN history'[c] : history'[c][i].action = "hard_deleted" =>
                  i = 2 /\ \A j \in DOMAIN history'[c] : j > i => history'[c][j].action = "attempt"
    <2>6. Gone
      BY <2>4
    <2>7. Gone => (\A i \in DOMAIN history[c] : history[c][i].action = "hard_deleted" =>
                     i = 2 /\ \A j \in DOMAIN history[c] : j > i => history[c][j].action = "attempt")'
      OBVIOUS
    <2> HIDE DEF Gone
    <2> QED  BY <2>1, <2>5, <2>6, <2>7 DEF TrailFits
  <1>7. ASSUME NEW d \in Customers PROVE TrailFits(d)' /\ (ReasonsGiven(d) => ReasonsGiven(d)')
    <2>1. CASE d = c
      <3>1. TrailFits(c)'
        BY <1>5, <1>6
      <3>2. ReasonsGiven(c) => ReasonsGiven(c)'
        BY <1>0, <1>2, ReasonsGrow
      <3> QED  BY <2>1, <3>1, <3>2
    <2>2. CASE d # c
      BY <1>1, <1>2, <2>2, TrailStays DEF Exists
    <2> QED  BY <2>1, <2>2
  <1>8. EditsInTurn'
    BY <1>1, <1>7 DEF RecordInv, EditsInTurn, NeedsNoMore, Exists
  <1> QED  BY <1>3, <1>7, <1>8 DEF RecordInv

\* A customer goes when nothing was ever recorded about it, and leaves two entries.
LEMMA RecordRemove ==
    ASSUME RecordInv, NEW c \in Customers, HardDelete(c)
    PROVE  RecordInv'
  <1> DEFINE a == Note("attempt", "none")
             h == Note("hard_deleted", "none")
  <1>0. a \in Entry /\ h \in Entry /\ a.action = "attempt" /\ h.action = "hard_deleted"
    BY DEF Note, Entry
  <1>1. /\ Undisturbed /\ Exists(c) /\ history[c] = <<>> /\ Log(c, <<a, h>>)
        /\ DOMAIN customer' = DOMAIN customer \ {c} /\ billed' = billed \ {c}
        /\ \A d \in DOMAIN customer' : customer'[d] = customer[d]
        /\ UNCHANGED <<edit, refused, recordsInTurn>>
    BY DEF HardDelete, Blocked, Without
  <1> HIDE DEF a, h
  <1>2. /\ history'[c] = <<a, h>> /\ <<a, h>> \in Seq(Entry) /\ history' \in [Customers -> Seq(Entry)]
        /\ \A d \in Customers : d # c => history'[d] = history[d]
    <2>1. <<>> \o <<a, h>> = <<a, h>> /\ <<a, h>> \in Seq(Entry)
      BY <1>0
    <2>2. history \in [Customers -> Seq(Entry)]
      BY DEF RecordInv, RecordTypeOK
    <2> QED  BY <1>1, <2>1, <2>2 DEF Log
  <1>3. RecordTypeOK'
    BY <1>1, <1>2 DEF RecordInv, RecordTypeOK
  <1>4. OthersStay(c)
    BY <1>1, <1>2 DEF OthersStay, Exists
  <1>5. DOMAIN <<a, h>> = {1, 2} /\ <<a, h>>[1] = a /\ <<a, h>>[2] = h /\ Len(<<a, h>>) = 2
    OBVIOUS
  <1>6. LogFits(history'[c])
    <2>1. LogFits(<<>> \o <<a>> \o <<h>>)
      <3>1. LogFits(<<>> \o <<a>>)
        BY <1>0, EmptyTrail, FitsAfter
      <3> QED  BY <1>0, <3>1, FitsAfter
    <2>2. <<>> \o <<a>> = <<a>>
      <3>1. <<a>> \in Seq(Entry)
        BY <1>0
      <3> QED  BY <3>1, ConcatEmptySeq
    <2>3. <<a>> \o <<h>> = <<a, h>>
      <3>1. <<a>> \in Seq(Entry) /\ <<h>> \in Seq(Entry) /\ <<a, h>> \in Seq(Entry)
        BY <1>0
      <3>2. /\ <<a>> \o <<h>> \in Seq(Entry) /\ Len(<<a>> \o <<h>>) = 2
            /\ (<<a>> \o <<h>>)[1] = a /\ (<<a>> \o <<h>>)[2] = h
        BY <3>1, ConcatProperties
      <3>3. Len(<<a, h>>) = 2 /\ <<a, h>>[1] = a /\ <<a, h>>[2] = h
        OBVIOUS
      <3>4. \A i \in 1 .. 2 : (<<a>> \o <<h>>)[i] = <<a, h>>[i]
        BY <3>2, <3>3
      <3> QED  BY <3>1, <3>2, <3>3, <3>4, SeqEqual
    <2> QED  BY <1>2, <2>1, <2>2, <2>3
  <1>7. TrailFits(c)'
    <2>1. ~Exists(c)'
      BY <1>1 DEF Exists
    <2>2. \A i \in DOMAIN history'[c] : history'[c][i].action = "hard_deleted" =>
             i = 2 /\ \A j \in DOMAIN history'[c] : j > i => history'[c][j].action = "attempt"
      BY <1>0, <1>2, <1>5
    <2> QED  BY <1>6, <2>1, <2>2 DEF TrailFits
  <1>8. ReasonsGiven(c)'
    BY <1>0, <1>2, <1>5 DEF ReasonsGiven
  <1> QED  BY <1>1, <1>3, <1>4, <1>7, <1>8, RecordStepOn

LEMMA RecordName ==
    ASSUME RecordInv, NEW c \in Customers, NameInDocument(c)
    PROVE  RecordInv'
  <1>1. /\ Undisturbed /\ c \in DOMAIN customer /\ billed' = billed \cup {c}
        /\ UNCHANGED <<customer, history, edit, refused, recordsInTurn>>
    BY DEF NameInDocument, Listed, Exists
  <1>2. RecordTypeOK' /\ OthersStay(c)
    BY <1>1 DEF RecordInv, RecordTypeOK, OthersStay, Exists
  <1>3. TrailFits(c)' /\ (ReasonsGiven(c) => ReasonsGiven(c)')
    BY <1>1, TrailStays DEF Exists
  <1> QED  BY <1>1, <1>2, <1>3, RecordStepOn

LEMMA RecordRead ==
    ASSUME RecordInv, NEW c \in Customers, NEW e \in Editors, NEW post \in Posted, ReadCustomer(e, c, post)
    PROVE  RecordInv'
  <1>1. /\ Undisturbed /\ edit[e] = NoEdit
        /\ post.status # customer[c].status => post.reasoned
        /\ UNCHANGED <<customer, billed, history, refused, recordsInTurn>>
    BY DEF ReadCustomer
  <1>2. /\ DOMAIN edit' = Editors /\ edit'[e].of = c /\ edit'[e].post = post
        /\ \A d \in Editors : d # e => edit'[d] = edit[d]
    BY DEF ReadCustomer, RecordInv, EditsFit
  <1>3. RecordTypeOK' /\ EditsFit'
    BY <1>1, <1>2 DEF RecordInv, RecordTypeOK, EditsFit
  <1>4. EditsInTurn'
    <2>1. recordsInTurn => \A d \in Editors : edit[d] = NoEdit
      BY <1>1 DEF Undisturbed
    <2>2. recordsInTurn => \A d \in Editors : d # e => edit'[d] = NoEdit
      BY <1>2, <2>1
    <2>3. NeedsNoMore(e)'
      BY <1>1, <1>2 DEF NeedsNoMore
    <2>4. recordsInTurn => \A d \in Editors : NeedsNoMore(d)'
      BY <2>2, <2>3 DEF NeedsNoMore
    <2>5. \A d \in Customers : ReasonsGiven(d) => ReasonsGiven(d)'
      BY <1>1 DEF ReasonsGiven
    <2> QED  BY <1>1, <2>2, <2>4, <2>5 DEF EditsInTurn, RecordInv
  <1>5. \A d \in Customers : TrailFits(d)'
    BY <1>1, TrailStays DEF Exists
  <1> QED  BY <1>3, <1>4, <1>5 DEF RecordInv

LEMMA RecordGiveUp ==
    ASSUME RecordInv, NEW e \in Editors, GiveUpEdit(e)
    PROVE  RecordInv'
  <1>1. /\ UNCHANGED <<customer, billed, history, refused, recordsInTurn>>
        /\ DOMAIN edit' = Editors /\ \A d \in Editors : edit'[d] = NoEdit \/ edit'[d] = edit[d]
    BY DEF GiveUpEdit, RecordInv, EditsFit
  <1>2. RecordTypeOK' /\ EditsFit'
    BY <1>1 DEF RecordInv, RecordTypeOK, EditsFit
  <1>3. EditsInTurn'
    <2>1. \A d \in Editors : NeedsNoMore(d) => NeedsNoMore(d)'
      BY <1>1 DEF NeedsNoMore, Exists
    <2>2. \A d \in Customers : ReasonsGiven(d) => ReasonsGiven(d)'
      BY <1>1 DEF ReasonsGiven
    <2> QED  BY <1>1, <2>1, <2>2 DEF EditsInTurn, RecordInv
  <1>4. \A d \in Customers : TrailFits(d)'
    BY <1>1, TrailStays DEF Exists
  <1> QED  BY <1>2, <1>3, <1>4 DEF RecordInv

--------------------------------------------------------------------------------
(* The save of an edit: one entry, or two when the status changes.                  *)

\* Two entries: the save's own, and the change of status it made.
LEMMA ChangeAppended ==
    ASSUME NEW log \in Seq(Entry), NEW e \in Entry, NEW d \in Entry,
           LogFits(log), e.action = "upserted", d.action = "status_changed",
           d.from # d.to, e.to = d.to, StatusAt(log, d.from) = d.from
    PROVE  LET told == log \o <<e>> \o <<d>> IN
           /\ LogFits(told) /\ StatusAt(told, d.to) = d.to
           /\ Filed(told) <=> Filed(log)
           /\ \A i \in DOMAIN told : (i \in DOMAIN log /\ told[i] = log[i]) \/ told[i] = e \/ told[i] = d
  <1> DEFINE base == log \o <<e>>
             told == base \o <<d>>
  <1>2. /\ log \in Seq(Entry)
        /\ HasLast(StatusEntries(log)) /\ HasLast(FiledEntries(log))
    BY DEF LogFits
  <1>3. LogFits(base) /\ base \in Seq(Entry) /\ HasLast(StatusEntries(base)) /\ HasLast(FiledEntries(base))
    BY <1>2, FitsAfter DEF LogFits
  <1>4. LogFits(told)
    BY FitsAfterChange
  <1>5. StatusAt(told, d.to) = d.to
    <2>1. StatusAt(base, d.to) = d.to
      BY <1>2, StatusAfter DEF SaysStatus
    <2>2. ~SaysStatus(d)
      BY DEF SaysStatus
    <2> HIDE DEF base
    <2> QED  BY <1>3, <2>1, <2>2, StatusAfter
  <1>6. Filed(told) <=> Filed(log)
    <2>1. Filed(base) <=> Filed(log)
      BY <1>2, FiledAfter
    <2> HIDE DEF base
    <2>2. Filed(told) <=> Filed(base)
      BY <1>3, FiledAfter
    <2> QED  BY <2>1, <2>2
  <1>7. \A i \in DOMAIN told : (i \in DOMAIN log /\ told[i] = log[i]) \/ told[i] = e \/ told[i] = d
    <2>1. \A i \in DOMAIN base : (i \in DOMAIN log /\ base[i] = log[i]) \/ base[i] = e
      BY <1>2, OneMore
    <2> HIDE DEF base
    <2>2. \A i \in DOMAIN told : (i \in DOMAIN base /\ told[i] = base[i]) \/ told[i] = d
      BY <1>3, OneMore
    <2> QED  BY <2>1, <2>2
  <1> HIDE DEF told, base
  <1> QED  BY <1>4, <1>5, <1>6, <1>7 DEF told, base

LEMMA RecordSave ==
    ASSUME RecordInv, NEW u \in Editors, SaveCustomer(u)
    PROVE  RecordInv'
  <1>a. PICK c \in Customers, post \in Posted : c = edit[u].of /\ post = edit[u].post
    BY DEF SaveCustomer, RecordInv, EditsFit
  <1> DEFINE e == Note("upserted", post.status)
             d == [action |-> "status_changed", from |-> customer[c].status, to |-> post.status,
                   reasoned |-> post.reasoned]
             row == [status |-> post.status, internet |-> post.internet,
                     archived |-> FALSE, identity |-> "given"]
  <1>1. /\ edit[u] # NoEdit /\ Exists(c) /\ ~customer[c].archived
        /\ customer[c] \in Record
    BY <1>a, CustomerKnown DEF SaveCustomer, Listed
  <1>2. post.status \in Statuses /\ post.reasoned \in BOOLEAN /\ row \in Record
    BY <1>1 DEF Posted, Record
  <1>3. /\ DOMAIN customer' = DOMAIN customer /\ customer'[c] = row
        /\ \A k \in DOMAIN customer : k # c => customer'[k] = customer[k]
        /\ UNCHANGED <<billed, refused, recordsInTurn>>
    BY <1>a, <1>1 DEF SaveCustomer, Exists
  <1>4. DOMAIN edit' = Editors /\ edit'[u] = NoEdit /\ \A w \in Editors : w # u => edit'[w] = edit[w]
    BY DEF SaveCustomer, RecordInv, EditsFit
  <1>5. /\ post.status = customer[c].status => Log(c, <<e>> \o <<>>)
        /\ post.status # customer[c].status => Log(c, <<e>> \o <<d>>)
    BY <1>a DEF SaveCustomer, Previous
  <1>6. Ordinary(e) /\ e \in Entry /\ e.action = "upserted" /\ e.to = post.status /\ SaysStatus(e)
    BY <1>2, NotesAreOrdinary DEF SaysStatus, Ordinary
  <1>7. d \in Entry
    BY <1>1, <1>2 DEF Entry, Record
  <1>8. /\ customer'[c].status = post.status /\ customer'[c].archived = FALSE
    BY <1>3
  <1>9. history \in [Customers -> Seq(Entry)] /\ history[c] \in Seq(Entry)
    BY <1>1, CustomerKnown DEF RecordInv, RecordTypeOK
  <1>. HIDE DEF e, d, row
  <1>10. /\ <<e>> \o <<>> = <<e>>
         /\ history[c] \o (<<e>> \o <<d>>) = history[c] \o <<e>> \o <<d>>
    <2>1. <<e>> \in Seq(Entry) /\ <<d>> \in Seq(Entry)
      BY <1>6, <1>7
    <2> QED  BY <1>9, <2>1, ConcatEmptySeq, ConcatAssociative
  <1>11. /\ \A k \in Customers : k # c => history'[k] = history[k]
         /\ post.status = customer[c].status => history'[c] = history[c] \o <<e>>
         /\ post.status # customer[c].status => history'[c] = history[c] \o <<e>> \o <<d>>
    BY <1>1, <1>5, <1>9, <1>10 DEF Log
  <1>12. Exists(c)' /\ \A k \in Customers : k # c => (Exists(k)' <=> Exists(k))
    BY <1>1, <1>3 DEF Exists
  <1>13. recordsInTurn /\ post.status # customer[c].status => post.reasoned
    BY <1>a, <1>1 DEF RecordInv, EditsInTurn, NeedsNoMore
  <1>14. TrailFits(c)' /\ (recordsInTurn => ReasonsGiven(c)')
    <2>1. recordsInTurn => ReasonsGiven(c)
      BY <1>1 DEF RecordInv, EditsInTurn
    <2>2. CASE post.status = customer[c].status
      <3>1. history'[c] = history[c] \o <<e>>
        BY <1>11, <2>2
      <3>2. TrailFits(c)'
        BY <1>1, <1>6, <1>8, <1>12, <3>1, TrailGrows
      <3>3. ReasonsGiven(c) => ReasonsGiven(c)'
        BY <1>1, <1>6, <3>1, ReasonsGrow
      <3> QED  BY <2>1, <3>2, <3>3
    <2>3. CASE post.status # customer[c].status
      <3> DEFINE more == history'[c]
      <3>1. more = history[c] \o <<e>> \o <<d>>
        BY <1>11, <2>3
      <3>2. /\ LogFits(more) /\ StatusAt(more, post.status) = post.status
            /\ Filed(more) <=> Filed(history[c])
            /\ \A i \in DOMAIN more :
                  \/ i \in DOMAIN history[c] /\ more[i] = history[c][i]
                  \/ more[i].action = "upserted"
                  \/ more[i].action = "status_changed" /\ more[i].reasoned = post.reasoned
        <4> DEFINE told == history[c] \o <<e>> \o <<d>>
        <4>1. /\ LogFits(told) /\ StatusAt(told, post.status) = post.status
              /\ Filed(told) <=> Filed(history[c])
              /\ \A i \in DOMAIN told :
                    \/ i \in DOMAIN history[c] /\ told[i] = history[c][i]
                    \/ told[i].action = "upserted"
                    \/ told[i].action = "status_changed" /\ told[i].reasoned = post.reasoned
          <5>1. /\ e.action = "upserted" /\ e.to = post.status
                /\ d.action = "status_changed" /\ d.from = customer[c].status /\ d.to = post.status
                /\ d.reasoned = post.reasoned
            BY DEF e, d, Note
          <5>2. LogFits(history[c]) /\ StatusAt(history[c], d.from) = d.from
            BY <1>1, <5>1, CustomerKnown DEF TrailFits, StatusTold
          <5>3. /\ LogFits(told) /\ StatusAt(told, d.to) = d.to
                /\ Filed(told) <=> Filed(history[c])
                /\ \A i \in DOMAIN told :
                      (i \in DOMAIN history[c] /\ told[i] = history[c][i]) \/ told[i] = e \/ told[i] = d
            <6>1. d.from # d.to /\ e.to = d.to
              BY <2>3, <5>1
            <6> QED  BY <1>6, <1>7, <1>9, <5>1, <5>2, <6>1, ChangeAppended, Zenon
          <5> HIDE DEF told
          <5> QED  BY <5>1, <5>3
        <4>2. more = told
          BY <3>1
        <4> HIDE DEF more, told
        <4> QED  BY <4>1, <4>2
      <3> HIDE DEF more
      <3>3. ~Filed(history[c]) /\ NeverRemoved(c)
        BY <1>1, CustomerKnown DEF TrailFits
      <3>4. TrailFits(c)'
        <4>1. StatusTold(c)'
          BY <1>8, <3>2 DEF StatusTold, more
        <4>2. NeverRemoved(c)'
          BY <3>2, <3>3 DEF NeverRemoved, more
        <4>3. LogFits(history'[c]) /\ ~Filed(history'[c])
          BY <3>2, <3>3 DEF more
        <4> QED  BY <1>8, <1>12, <4>1, <4>2, <4>3 DEF TrailFits
      <3>5. recordsInTurn => ReasonsGiven(c)'
        BY <1>13, <2>1, <2>3, <3>2 DEF ReasonsGiven, more
      <3> QED  BY <3>4, <3>5
    <2> QED  BY <2>2, <2>3
  <1>15. RecordTypeOK'
    <2>1. history'[c] \in Seq(Entry)
      BY <1>14 DEF TrailFits, LogFits
    <2>2. history' = [k \in Customers |-> history'[k]]
      BY <1>5, <1>9 DEF Log
    <2>3. \A k \in Customers : history'[k] \in Seq(Entry)
      BY <1>9, <1>11, <2>1
    <2>4. history' \in [Customers -> Seq(Entry)]
      BY <2>2, <2>3
    <2> QED  BY <1>2, <1>3, <2>4 DEF RecordInv, RecordTypeOK
  <1>16. ASSUME NEW k \in Customers, k # c
         PROVE  TrailFits(k)' /\ (ReasonsGiven(k) => ReasonsGiven(k)')
    <2>1. /\ history'[k] = history[k] /\ (Exists(k)' <=> Exists(k))
          /\ Exists(k) => customer'[k] = customer[k]
      BY <1>3, <1>11, <1>12, <1>16 DEF Exists
    <2> QED  BY <2>1, TrailStays
  <1>17. EditsFit'
    BY <1>4 DEF RecordInv, EditsFit
  <1>18. EditsInTurn'
    <2>1. recordsInTurn => \A w \in Editors : edit'[w] = NoEdit
      BY <1>1, <1>4 DEF RecordInv, EditsInTurn
    <2>2. recordsInTurn => \A k \in Customers : ReasonsGiven(k)'
      BY <1>14, <1>16 DEF RecordInv, EditsInTurn
    <2> QED  BY <1>3, <2>1, <2>2 DEF EditsInTurn, NeedsNoMore
  <1> QED  BY <1>14, <1>15, <1>16, <1>17, <1>18 DEF RecordInv

LEMMA RecordStepInv == RecordInv /\ [RecordNext]_recordVars => RecordInv'
  <1> SUFFICES ASSUME RecordInv, [RecordNext]_recordVars PROVE RecordInv'
    OBVIOUS
  <1>1. ASSUME NEW c \in Customers, NEW s \in Statuses, NEW i \in BOOLEAN,
               CreateCustomer(c, s, i) \/ EnterCustomer(c, s, i) PROVE RecordInv'
    BY <1>1, RecordCreate, RecordEnter
  <1>2. ASSUME NEW c \in Customers, NameInDocument(c) \/ SoftDelete(c) \/ RestoreCustomer(c) PROVE RecordInv'
    BY <1>2, RecordName, RecordArchive, RecordRestore
  <1>3. ASSUME NEW c \in Customers, Anonymize(c) \/ RefuseRemoval(c) \/ LogRefusal(c) \/ HardDelete(c)
        PROVE  RecordInv'
    BY <1>3, RecordAnonymize, RecordRefuse, RecordLogRefusal, RecordRemove
  <1>4. ASSUME NEW c \in Customers, NEW e \in Editors, NEW post \in Posted, ReadCustomer(e, c, post)
        PROVE  RecordInv'
    BY <1>4, RecordRead
  <1>5. ASSUME NEW e \in Editors, SaveCustomer(e) \/ GiveUpEdit(e) PROVE RecordInv'
    BY <1>5, RecordSave, RecordGiveUp
  <1>6. CASE UNCHANGED recordVars
    <2>1. UNCHANGED <<customer, billed, history, edit, refused, recordsInTurn>>
      BY <1>6 DEF recordVars
    <2>2. \A c \in Customers : TrailFits(c)' /\ (ReasonsGiven(c) => ReasonsGiven(c)')
      BY <2>1, TrailStays DEF Exists
    <2>3. RecordTypeOK' /\ EditsFit'
      BY <2>1 DEF RecordInv, RecordTypeOK, EditsFit
    <2>4. EditsInTurn'
      BY <2>1, <2>2 DEF RecordInv, EditsInTurn, NeedsNoMore, Exists
    <2> QED  BY <2>2, <2>3, <2>4 DEF RecordInv
  <1> QED  BY <1>1, <1>2, <1>3, <1>4, <1>5, <1>6 DEF RecordNext, RecordStep

LEMMA RecordInvSound == RecordInv => RecordsAreSound
  <1> SUFFICES ASSUME RecordInv PROVE RecordsAreSound
    OBVIOUS
  <1>1. RecordTypeOK
    BY DEF RecordInv
  <1>2. TrailTellsStatus
    BY CustomerKnown DEF TrailTellsStatus, TrailFits, StatusTold, LogFits, ChangesTold
  <1>3. StatusChangesHaveReasons
    <2>1. ASSUME recordsInTurn, NEW c \in Customers, NEW i \in 1..MaxEntries,
                 i <= Len(history[c]), history[c][i].action = "status_changed"
          PROVE  history[c][i].reasoned
      <3>1. i \in DOMAIN history[c]
        BY <2>1, CustomerKnown
      <3> QED  BY <2>1, <3>1 DEF RecordInv, EditsInTurn, ReasonsGiven
    <2> QED  BY <2>1 DEF StatusChangesHaveReasons
  <1>4. ArchivedIsClosed
    <2>1. ASSUME NEW c \in DOMAIN customer
          PROVE  /\ customer[c].archived <=> Filed(history[c])
                 /\ customer[c].archived => customer[c].status = "inactive"
      BY CustomerKnown DEF RecordInv, RecordTypeOK, TrailFits, Exists
    <2> QED  BY <2>1 DEF ArchivedIsClosed, Filed
  <1>5. RemovedLeavesNothing
    BY CustomerKnown DEF RemovedLeavesNothing, TrailFits, NeverRemoved, Exists, RecordInv, RecordTypeOK
  <1> QED  BY <1>1, <1>2, <1>3, <1>4, <1>5 DEF RecordsAreSound

(* A customer's record and its audit trail agree, however edits overlap.              *)
THEOREM RecordsSound == RecordSpec => []RecordsAreSound
  BY RecordInitInv, RecordStepInv, RecordInvSound, PTL DEF RecordSpec

-----------------------------------------------------------------------------
(* The inductive invariant: what a snapshot keeps locked stays as it found it, and *)
(* one without a rival has every other row of its customer in hand when it deletes. *)
PutRow ==
    [at : {"locking", "writing", "deleting"}, customer : Customers, given : SUBSET Assets,
     alone : BOOLEAN, toLock : SUBSET Assets, locked : SUBSET Assets, existing : SUBSET Assets,
     written : SUBSET Assets, dropped : SUBSET Assets]

AssetsTyped ==
    /\ held \in [Assets -> Customers \cup {Nobody}]
    /\ put \in [Puts -> {NoPut} \cup PutRow]

\* What is true of a request that has come to r.
Progress(r) ==
    /\ r.existing \subseteq r.locked /\ r.written \subseteq r.given
    /\ r.at = "locking" => r.written = {}
    /\ r.at # "deleting" => r.dropped = {}
    /\ r.at = "deleting" => r.written = r.given /\ r.toLock \cap r.given = {}
    /\ r.dropped \cap r.given = {}
Fits(r) ==
    /\ Progress(r)
    /\ \A x \in r.dropped : held[x] = r.customer
    /\ r.written # {} => Exists(r.customer)
    /\ r.alone /\ r.at = "deleting" =>
          \A x \in Assets \ r.given : held[x] = r.customer => x \in r.toLock \cup r.dropped

KeptBy(r) == r.locked \cup r.written \cup r.dropped

PutsFit == \A u \in Puts : Under(u) => Fits(put[u])
AloneMeansAlone ==
    \A u, v \in Puts : u # v /\ Under(u) /\ Under(v) /\ put[u].alone => put[v].customer # put[u].customer

AssetInv == AssetsTyped /\ AssetsHaveOwners /\ PutsFit /\ AloneMeansAlone

\* What a snapshot that commits does, as SnapshotsReplace says it.
Replaced ==
    \A u \in Puts : CommitPut(u) =>
        LET c == put[u].customer  given == put[u].given
            after == { x \in Assets : held'[x] = c }
        IN  /\ given \subseteq after
            /\ put[u].alone => after = given
            /\ \A x \in Assets \ given : held'[x] = held[x] \/ held[x] = c

LEMMA UnderFields ==
    ASSUME AssetsTyped, NEW u \in Puts, Under(u)
    PROVE  /\ put[u] \in PutRow /\ put[u] # NoPut
           /\ put[u].at \in {"locking", "writing", "deleting"} /\ put[u].customer \in Customers
           /\ put[u].alone \in BOOLEAN
           /\ put[u].given \subseteq Assets /\ put[u].toLock \subseteq Assets
           /\ put[u].locked \subseteq Assets /\ put[u].existing \subseteq Assets
           /\ put[u].written \subseteq Assets /\ put[u].dropped \subseteq Assets
  BY DEF AssetsTyped, Under, NoPut, PutRow

LEMMA RowIsUnder ==
    ASSUME NEW r \in PutRow
    PROVE  r.at # "none"
  BY DEF PutRow

LEMMA NotUnder ==
    ASSUME AssetsTyped, NEW u \in Puts, ~Under(u)
    PROVE  put[u] = NoPut /\ Keeps(u) = {}
  BY DEF AssetsTyped, Under, PutRow, NoPut, Keeps

LEMMA AtIsUnder ==
    ASSUME NEW u, put[u].at \in {"locking", "writing", "deleting"}
    PROVE  Under(u)
  BY DEF Under

LEMMA AssetsTypeOK == AssetsTyped => AssetTypeOK
  BY DEF AssetsTyped, AssetTypeOK, PutRow, NoPut

LEMMA AssetInitHolds == RecordInit /\ AssetInit => AssetInv
  <1> SUFFICES ASSUME RecordInit, AssetInit PROVE AssetInv
    OBVIOUS
  <1>1. AssetsTyped
    BY DEF AssetInit, AssetsTyped
  <1>2. \A u \in Puts : ~Under(u)
    BY DEF AssetInit, Under, NoPut
  <1>3. \A x \in Assets : held[x] = Nobody
    BY DEF AssetInit
  <1>4. AssetsHaveOwners
    BY <1>1, <1>2, <1>3, AssetsTypeOK, NotUnder DEF AssetsHaveOwners
  <1> QED
    BY <1>1, <1>2, <1>4 DEF AssetInv, PutsFit, AloneMeansAlone

-----------------------------------------------------------------------------
\* A step of one request that writes nothing down yet.
LEMMA OwnStep ==
    ASSUME AssetInv, NEW u \in Puts, Under(u), NEW r \in PutRow,
           put' = [put EXCEPT ![u] = r], UNCHANGED <<recordVars, held>>,
           r.customer = put[u].customer, r.alone = put[u].alone,
           Fits(r),
           \A v \in Puts \ {u} : KeptBy(r) \cap Keeps(v) = {}
    PROVE  AssetInv'
  <1>1. AssetsTyped'
    BY DEF AssetInv, AssetsTyped
  <1>2. /\ put'[u] = r /\ \A v \in Puts : v # u => put'[v] = put[v]
        /\ Under(u)'
    BY RowIsUnder DEF AssetInv, AssetsTyped, Under
  <1>3. \A v \in Puts : v # u => (Under(v)' <=> Under(v)) /\ Keeps(v)' = Keeps(v)
    BY <1>2 DEF Under, Keeps
  <1>4. Keeps(u)' = KeptBy(r)
    BY <1>2 DEF Keeps, KeptBy
  <1>5. AssetsHaveOwners'
    <2>1. \A v, z \in Puts : v # z => Keeps(v)' \cap Keeps(z)' = {}
      BY <1>3, <1>4 DEF AssetInv, AssetsHaveOwners
    <2>2. \A x \in Assets : held'[x] # Nobody => Exists(held[x])'
      BY DEF AssetInv, AssetsHaveOwners, recordVars, Exists
    <2>3. AssetTypeOK'
      BY <1>1, AssetsTypeOK DEF AssetsTyped, AssetTypeOK, PutRow, NoPut
    <2> QED
      BY <2>1, <2>2, <2>3 DEF AssetsHaveOwners
  <1>6. \A q \in PutRow : Fits(q) => Fits(q)'
    BY DEF Fits, Progress, recordVars, Exists
  <1>7. PutsFit'
    <2> SUFFICES ASSUME NEW v \in Puts, Under(v)' PROVE Fits(put[v])'
      BY DEF PutsFit
    <2>1. CASE v = u
      BY <1>2, <2>1 DEF Fits, Progress, recordVars, Exists
    <2>2. CASE v # u
      <3>1. put'[v] = put[v] /\ Fits(put[v])
        BY <1>2, <1>3, <2>2 DEF AssetInv, PutsFit
      <3> QED
        BY <3>1 DEF Fits, Progress, recordVars, Exists
    <2> QED
      BY <2>1, <2>2
  <1>8. AloneMeansAlone'
    BY <1>2, <1>3 DEF AssetInv, AloneMeansAlone
  <1> QED
    BY <1>1, <1>5, <1>7, <1>8 DEF AssetInv

LEMMA LockRowStep ==
    ASSUME AssetInv, NEW u \in Puts, NEW x \in Assets, LockRow(u, x)
    PROVE  AssetInv'
  <1> DEFINE found == IF held[x] = put[u].customer \/ x \in put[u].given
                      THEN put[u].existing \cup {x} ELSE put[u].existing
             r == [put[u] EXCEPT !.toLock = @ \ {x}, !.locked = @ \cup {x}, !.existing = found]
  <1>1. put[u].at = "locking" /\ FreeFor(u, x) /\ Under(u) /\ UNCHANGED <<recordVars, held>>
    BY AtIsUnder DEF LockRow
  <1>2. put[u] \in PutRow /\ found \subseteq Assets /\ Fits(put[u])
    BY <1>1, UnderFields DEF AssetInv, PutsFit
  <1>3. put' = [put EXCEPT ![u] = r]
    BY DEF LockRow, AssetInv, AssetsTyped
  <1>4. found \subseteq put[u].existing \cup {x}
    OBVIOUS
  <1> HIDE DEF found
  <1>5. /\ r \in PutRow /\ r.customer = put[u].customer /\ r.alone = put[u].alone
        /\ r.at = "locking" /\ r.given = put[u].given /\ r.locked = put[u].locked \cup {x}
        /\ r.existing = found /\ r.written = put[u].written /\ r.dropped = put[u].dropped
    BY <1>1, <1>2 DEF PutRow
  <1> HIDE DEF r
  <1>6. Fits(r)
    BY <1>1, <1>2, <1>4, <1>5 DEF Fits, Progress
  <1>7. \A v \in Puts \ {u} : KeptBy(r) \cap Keeps(v) = {}
    <2>1. KeptBy(r) = Keeps(u) \cup {x}
      BY <1>1, <1>5 DEF KeptBy, Keeps
    <2> QED
      BY <1>1, <2>1 DEF FreeFor, AssetInv, AssetsHaveOwners
  <1> QED
    BY <1>1, <1>3, <1>5, <1>6, <1>7, OwnStep

LEMMA StartWritingStep ==
    ASSUME AssetInv, NEW u \in Puts, StartWriting(u)
    PROVE  AssetInv'
  <1> DEFINE r == [put[u] EXCEPT !.at = "writing"]
  <1>1. put[u].at = "locking" /\ Under(u) /\ UNCHANGED <<recordVars, held>>
    BY AtIsUnder DEF StartWriting
  <1>2. put[u] \in PutRow /\ Fits(put[u])
    BY <1>1, UnderFields DEF AssetInv, PutsFit
  <1>3. put' = [put EXCEPT ![u] = r]
    BY DEF StartWriting
  <1>4. /\ r \in PutRow /\ r.customer = put[u].customer /\ r.alone = put[u].alone
        /\ r.at = "writing" /\ r.given = put[u].given /\ r.locked = put[u].locked
        /\ r.existing = put[u].existing /\ r.written = put[u].written /\ r.dropped = put[u].dropped
    BY <1>2 DEF PutRow
  <1> HIDE DEF r
  <1>5. Fits(r)
    BY <1>1, <1>2, <1>4 DEF Fits, Progress
  <1>6. \A v \in Puts \ {u} : KeptBy(r) \cap Keeps(v) = {}
    BY <1>1, <1>4 DEF KeptBy, Keeps, AssetInv, AssetsHaveOwners
  <1> QED
    BY <1>1, <1>3, <1>4, <1>5, <1>6, OwnStep

LEMMA WriteAssetStep ==
    ASSUME AssetInv, NEW u \in Puts, NEW x \in Assets, WriteAsset(u, x)
    PROVE  AssetInv'
  <1> DEFINE r == [put[u] EXCEPT !.written = @ \cup {x}]
  <1>1. /\ put[u].at = "writing" /\ x \in put[u].given /\ Exists(put[u].customer)
        /\ x \in put[u].existing \/ FreeFor(u, x)
        /\ Under(u) /\ UNCHANGED <<recordVars, held>>
    BY AtIsUnder DEF WriteAsset
  <1>2. put[u] \in PutRow /\ Fits(put[u])
    BY <1>1, UnderFields DEF AssetInv, PutsFit
  <1>3. put' = [put EXCEPT ![u] = r]
    BY DEF WriteAsset, AssetInv, AssetsTyped
  <1>4. /\ r \in PutRow /\ r.customer = put[u].customer /\ r.alone = put[u].alone
        /\ r.at = "writing" /\ r.given = put[u].given /\ r.locked = put[u].locked
        /\ r.existing = put[u].existing /\ r.written = put[u].written \cup {x}
        /\ r.dropped = put[u].dropped
    BY <1>1, <1>2 DEF PutRow
  <1> HIDE DEF r
  <1>5. Fits(r)
    BY <1>1, <1>2, <1>4 DEF Fits, Progress
  <1>6. \A v \in Puts \ {u} : KeptBy(r) \cap Keeps(v) = {}
    <2>1. KeptBy(r) = Keeps(u) \cup {x}
      BY <1>1, <1>4 DEF KeptBy, Keeps
    <2>2. x \in Keeps(u) \/ FreeFor(u, x)
      BY <1>1, <1>2 DEF Keeps, Fits, Progress
    <2> QED
      BY <2>1, <2>2 DEF FreeFor, AssetInv, AssetsHaveOwners
  <1> QED
    BY <1>1, <1>3, <1>4, <1>5, <1>6, OwnStep

LEMMA StartDeletingStep ==
    ASSUME AssetInv, NEW u \in Puts, StartDeleting(u)
    PROVE  AssetInv'
  <1> DEFINE r == [put[u] EXCEPT !.at = "deleting", !.toLock = Stale(u)]
  <1>1. /\ put[u].at = "writing" /\ put[u].written = put[u].given
        /\ Under(u) /\ UNCHANGED <<recordVars, held>>
    BY AtIsUnder DEF StartDeleting
  <1>2. put[u] \in PutRow /\ Fits(put[u])
    BY <1>1, UnderFields DEF AssetInv, PutsFit
  <1>3. put' = [put EXCEPT ![u] = r]
    BY DEF StartDeleting, AssetInv, AssetsTyped
  <1>4. Stale(u) \subseteq Assets /\ Stale(u) \cap put[u].given = {}
    BY DEF Stale
  <1>5. /\ r \in PutRow /\ r.customer = put[u].customer /\ r.alone = put[u].alone
        /\ r.at = "deleting" /\ r.given = put[u].given /\ r.locked = put[u].locked
        /\ r.existing = put[u].existing /\ r.written = put[u].written
        /\ r.dropped = put[u].dropped /\ r.toLock = Stale(u)
    BY <1>2, <1>4 DEF PutRow
  <1>6. \A x \in Assets \ put[u].given : held[x] = put[u].customer => x \in Stale(u)
    BY <1>1 DEF Stale, SeenHolder
  <1> HIDE DEF r
  <1>7. Fits(r)
    BY <1>1, <1>2, <1>4, <1>5, <1>6 DEF Fits, Progress
  <1>8. \A v \in Puts \ {u} : KeptBy(r) \cap Keeps(v) = {}
    BY <1>1, <1>5 DEF KeptBy, Keeps, AssetInv, AssetsHaveOwners
  <1> QED
    BY <1>1, <1>3, <1>5, <1>7, <1>8, OwnStep

LEMMA DropRowStep ==
    ASSUME AssetInv, NEW u \in Puts, NEW x \in Assets, DropRow(u, x)
    PROVE  AssetInv'
  <1> DEFINE gone == IF SeenHolder(u, x) = put[u].customer
                     THEN put[u].dropped \cup {x} ELSE put[u].dropped
             r == [put[u] EXCEPT !.toLock = @ \ {x}, !.locked = @ \cup {x}, !.dropped = gone]
  <1>1. /\ put[u].at = "deleting" /\ x \in put[u].toLock /\ FreeFor(u, x)
        /\ Under(u) /\ UNCHANGED <<recordVars, held>>
    BY AtIsUnder DEF DropRow
  <1>2. put[u] \in PutRow /\ Fits(put[u])
    BY <1>1, UnderFields DEF AssetInv, PutsFit
  <1>3. put' = [put EXCEPT ![u] = r]
    BY DEF DropRow, AssetInv, AssetsTyped
  <1>4. x \notin put[u].given /\ x \notin put[u].written
    BY <1>1, <1>2 DEF Fits, Progress
  <1>5. /\ gone \subseteq Assets /\ gone \subseteq put[u].dropped \cup {x}
        /\ put[u].dropped \subseteq gone /\ (x \in gone => held[x] = put[u].customer)
        /\ held[x] = put[u].customer => x \in gone
    <2>1. SeenHolder(u, x) = held[x]
      BY <1>4 DEF SeenHolder
    <2>2. put[u].dropped \subseteq Assets /\ \A y \in put[u].dropped : held[y] = put[u].customer
      BY <1>1, <1>2, UnderFields DEF AssetInv, Fits
    <2> QED
      BY <2>1, <2>2
  <1> HIDE DEF gone
  <1>6. /\ r \in PutRow /\ r.customer = put[u].customer /\ r.alone = put[u].alone
        /\ r.at = "deleting" /\ r.given = put[u].given /\ r.locked = put[u].locked \cup {x}
        /\ r.existing = put[u].existing /\ r.written = put[u].written
        /\ r.dropped = gone /\ r.toLock = put[u].toLock \ {x}
    BY <1>1, <1>2, <1>5 DEF PutRow
  <1> HIDE DEF r
  <1>7. Fits(r)
    <2>1. Progress(r)
      <3>1. Progress(put[u])
        BY <1>2 DEF Fits
      <3>2. r.existing \subseteq r.locked /\ r.written \subseteq r.given
        BY <1>6, <3>1 DEF Progress
      <3>3. r.written = r.given /\ r.toLock \cap r.given = {}
        BY <1>1, <1>6, <3>1 DEF Progress
      <3>4. r.dropped \cap r.given = {}
        BY <1>4, <1>5, <1>6, <3>1 DEF Progress
      <3> QED
        BY <1>6, <3>2, <3>3, <3>4 DEF Progress
    <2>2. \A y \in r.dropped : held[y] = r.customer
      BY <1>2, <1>5, <1>6 DEF Fits
    <2>3. r.written # {} => Exists(r.customer)
      BY <1>2, <1>6 DEF Fits
    <2>4. r.alone => \A y \in Assets \ r.given : held[y] = r.customer => y \in r.toLock \cup r.dropped
      BY <1>1, <1>2, <1>5, <1>6 DEF Fits
    <2> QED
      BY <2>1, <2>2, <2>3, <2>4 DEF Fits
  <1>8. \A v \in Puts \ {u} : KeptBy(r) \cap Keeps(v) = {}
    <2>1. KeptBy(r) \subseteq Keeps(u) \cup {x}
      BY <1>1, <1>5, <1>6 DEF KeptBy, Keeps
    <2> QED
      BY <1>1, <2>1 DEF FreeFor, AssetInv, AssetsHaveOwners
  <1> QED
    BY <1>1, <1>3, <1>6, <1>7, <1>8, OwnStep

-----------------------------------------------------------------------------
\* A request that another step has not taken further: it may have lost rows it was
\* going to lock, or be no longer alone.
Like(r, old) ==
    /\ r.at = old.at /\ r.customer = old.customer /\ r.given = old.given
    /\ r.locked = old.locked /\ r.existing = old.existing
    /\ r.written = old.written /\ r.dropped = old.dropped
    /\ r.toLock \subseteq old.toLock /\ (r.alone => old.alone)
Starting(r) ==
    /\ r.at = "locking" /\ r.locked = {} /\ r.existing = {} /\ r.written = {} /\ r.dropped = {}

LEMMA OthersStep ==
    ASSUME AssetInv,
           held' \in [Assets -> Customers \cup {Nobody}], put' \in [Puts -> {NoPut} \cup PutRow],
           \A v \in Puts : Under(v)' => Starting(put'[v]) \/ (Under(v) /\ Like(put'[v], put[v])),
           \A v \in Puts : Under(v)' /\ Under(v) =>
               /\ \A x \in Keeps(v) : held'[x] = held[x]
               /\ put[v].written # {} => put[v].customer \in DOMAIN customer'
               /\ put'[v].alone => \A x \in Assets : held'[x] = put[v].customer =>
                      held[x] = put[v].customer /\ (x \in put[v].toLock => x \in put'[v].toLock),
           \A x \in Assets : held'[x] # Nobody => Exists(held[x])',
           AloneMeansAlone'
    PROVE  AssetInv'
  <1>1. AssetsTyped' /\ AssetTypeOK'
    BY DEF AssetsTyped, AssetTypeOK, PutRow, NoPut
  <1>2. \A v \in Puts : Keeps(v)' \subseteq Keeps(v)
    BY DEF Keeps, Under, Starting, Like
  <1>3. AssetsHaveOwners'
    BY <1>1, <1>2 DEF AssetInv, AssetsHaveOwners
  <1>4. PutsFit'
    <2> SUFFICES ASSUME NEW v \in Puts, Under(v)' PROVE Fits(put[v])'
      BY DEF PutsFit
    <2>1. CASE Starting(put'[v])
      BY <2>1 DEF Starting, Fits, Progress
    <2>2. CASE Under(v) /\ Like(put'[v], put[v])
      <3> DEFINE r == put'[v]
                 old == put[v]
      <3>0. Like(r, old)
        BY <2>2
      <3>1. Fits(old)
        BY <2>2 DEF AssetInv, PutsFit
      <3>2. old.dropped \subseteq Keeps(v) /\ old.dropped \subseteq Assets
        BY <2>2, UnderFields DEF Keeps, AssetInv
      <3>3. Keeps(v) \subseteq Assets
        BY <2>2, UnderFields DEF Keeps, AssetInv
      <3>4. Progress(r)
        BY <3>0, <3>1 DEF Like, Fits, Progress
      <3>5. \A x \in r.dropped : held'[x] = r.customer
        BY <2>2, <3>0, <3>1, <3>2 DEF Like, Fits
      <3>6. r.written # {} => r.customer \in DOMAIN customer'
        BY <2>2, <3>0, <3>1 DEF Like, Fits
      <3>7. r.alone /\ r.at = "deleting" =>
                \A x \in Assets \ r.given : held'[x] = r.customer => x \in r.toLock \cup r.dropped
        <4> SUFFICES ASSUME r.alone, r.at = "deleting", NEW x \in Assets \ r.given, held'[x] = r.customer
                     PROVE  x \in r.toLock \cup r.dropped
          OBVIOUS
        <4>1. /\ old.alone /\ old.at = "deleting" /\ x \notin old.given /\ held'[x] = old.customer
              /\ r.dropped = old.dropped
          BY <3>0 DEF Like
        <4>2. held[x] = old.customer /\ (x \in old.toLock => x \in r.toLock)
          BY <2>2, <4>1
        <4> QED
          BY <3>1, <4>1, <4>2 DEF Fits
      <3> QED
        BY <3>4, <3>5, <3>6, <3>7 DEF Fits, Progress, Exists
    <2> QED
      BY <2>1, <2>2
  <1> QED
    BY <1>1, <1>3, <1>4 DEF AssetInv

LEMMA LikeItself == ASSUME NEW r PROVE Like(r, r)
  BY DEF Like

LEMMA BeginPutStep ==
    ASSUME AssetInv, NEW u \in Puts, NEW c \in Customers, NEW given \in SUBSET Assets,
           BeginPut(u, c, given)
    PROVE  AssetInv'
  <1> DEFINE new == [at |-> "locking", customer |-> c, given |-> given, alone |-> Rival(u, c) = {},
                     toLock |-> RowsOf(c) \cup { x \in given : held[x] # Nobody },
                     locked |-> {}, existing |-> {}, written |-> {}, dropped |-> {}]
  <1>1. /\ ~Under(u) /\ UNCHANGED <<recordVars, held>>
        /\ put' = [other \in Puts |->
               IF other = u THEN new
               ELSE IF other \in Rival(u, c) THEN [put[other] EXCEPT !.alone = FALSE] ELSE put[other]]
    BY DEF BeginPut
  <1>2. /\ new \in PutRow /\ Starting(new) /\ new.customer = c /\ (new.alone <=> Rival(u, c) = {})
    BY DEF PutRow, Starting, RowsOf
  <1> HIDE DEF new
  <1>3. /\ put'[u] = new
        /\ \A v \in Puts \ {u} : v \notin Rival(u, c) => put'[v] = put[v]
        /\ \A v \in Rival(u, c) : put'[v] = [put[v] EXCEPT !.alone = FALSE] /\ Under(v) /\ v \in Puts \ {u}
                                 /\ put[v].customer = c
    BY <1>1 DEF Rival
  <1>4. \A v \in Rival(u, c) : put'[v] \in PutRow /\ Like(put'[v], put[v]) /\ ~put'[v].alone
    <2> TAKE v \in Rival(u, c)
    <2>1. put[v] \in PutRow
      BY <1>3, UnderFields DEF AssetInv
    <2>2. put'[v] = [put[v] EXCEPT !.alone = FALSE]
      BY <1>3
    <2>3. put'[v] \in PutRow /\ ~put'[v].alone
      BY <2>1, <2>2 DEF PutRow
    <2>4. /\ put'[v].at = put[v].at /\ put'[v].customer = put[v].customer
          /\ put'[v].given = put[v].given /\ put'[v].locked = put[v].locked
          /\ put'[v].existing = put[v].existing /\ put'[v].written = put[v].written
          /\ put'[v].dropped = put[v].dropped /\ put'[v].toLock = put[v].toLock
      BY <2>1, <2>2 DEF PutRow
    <2> QED
      BY <2>3, <2>4 DEF Like
  <1>5. put' \in [Puts -> {NoPut} \cup PutRow]
    BY <1>1, <1>2, <1>3, <1>4 DEF AssetInv, AssetsTyped
  <1>6. \A v \in Puts \ {u} : (Under(v)' <=> Under(v)) /\ Like(put'[v], put[v])
    BY <1>3, <1>4, LikeItself DEF Under, Like
  <1>7. \A v \in Puts : Under(v)' => Starting(put'[v]) \/ (Under(v) /\ Like(put'[v], put[v]))
    BY <1>2, <1>3, <1>6
  <1>8. \A v \in Puts : Under(v)' /\ Under(v) =>
               /\ \A x \in Keeps(v) : held'[x] = held[x]
               /\ put[v].written # {} => put[v].customer \in DOMAIN customer'
               /\ put'[v].alone => \A x \in Assets : held'[x] = put[v].customer =>
                      held[x] = put[v].customer /\ (x \in put[v].toLock => x \in put'[v].toLock)
    <2> SUFFICES ASSUME NEW v \in Puts \ {u}, Under(v)
                 PROVE  /\ \A x \in Keeps(v) : held'[x] = held[x]
                        /\ put[v].written # {} => put[v].customer \in DOMAIN customer'
                        /\ put'[v].alone => \A x \in Assets : held'[x] = put[v].customer =>
                               held[x] = put[v].customer /\ (x \in put[v].toLock => x \in put'[v].toLock)
      BY <1>1
    <2>1. put[v].written # {} => Exists(put[v].customer)
      BY DEF AssetInv, PutsFit, Fits
    <2>2. put'[v].alone => put'[v] = put[v]
      BY <1>3, <1>4
    <2> QED
      BY <1>1, <2>1, <2>2 DEF recordVars, Exists
  <1>9. AloneMeansAlone'
    <2> SUFFICES ASSUME NEW v \in Puts, NEW z \in Puts, v # z, Under(v)', Under(z)', put'[v].alone,
                        put'[z].customer = put'[v].customer
                 PROVE  FALSE
      BY DEF AloneMeansAlone
    <2>1. CASE v = u
      <3>1. Under(z) /\ put[z].customer = c /\ z \in Puts \ {u}
        BY <1>2, <1>3, <1>6, <2>1 DEF Like
      <3>2. z \in Rival(u, c)
        BY <3>1 DEF Rival
      <3> QED
        BY <1>2, <1>3, <2>1, <3>2
    <2>2. CASE z = u
      <3>1. Under(v) /\ put[v].customer = c
        BY <1>2, <1>3, <1>6, <2>2 DEF Like
      <3>2. v \in Rival(u, c)
        BY <2>2, <3>1 DEF Rival
      <3> QED
        BY <1>4, <3>2
    <2>3. CASE v # u /\ z # u
      BY <1>6, <2>3 DEF Like, AssetInv, AloneMeansAlone
    <2> QED
      BY <2>1, <2>2, <2>3
  <1>10. held' \in [Assets -> Customers \cup {Nobody}] /\ \A x \in Assets : held'[x] # Nobody => Exists(held[x])'
    BY <1>1 DEF AssetInv, AssetsTyped, AssetsHaveOwners, recordVars, Exists
  <1> QED
    BY <1>5, <1>7, <1>8, <1>9, <1>10, OthersStep

LEMMA FailPutStep ==
    ASSUME AssetInv, NEW u \in Puts, FailPut(u)
    PROVE  AssetInv'
  <1>1. put' = [put EXCEPT ![u] = NoPut] /\ UNCHANGED <<recordVars, held>>
    BY DEF FailPut
  <1>2. put' \in [Puts -> {NoPut} \cup PutRow]
    BY <1>1 DEF AssetInv, AssetsTyped
  <1>3. NoPut.at = "none"
    BY DEF NoPut
  <1>4. \A v \in Puts : Under(v)' => Under(v) /\ put'[v] = put[v]
    BY <1>1, <1>3 DEF Under, AssetInv, AssetsTyped
  <1>5. \A v \in Puts : Under(v)' => Under(v) /\ Like(put'[v], put[v])
    BY <1>4, LikeItself
  <1>6. AloneMeansAlone'
    BY <1>4 DEF AssetInv, AloneMeansAlone
  <1>7. held' \in [Assets -> Customers \cup {Nobody}] /\ \A x \in Assets : held'[x] # Nobody => Exists(held[x])'
    BY <1>1 DEF AssetInv, AssetsTyped, AssetsHaveOwners, recordVars, Exists
  <1>8. \A v \in Puts : Under(v)' /\ Under(v) =>
               /\ \A x \in Keeps(v) : held'[x] = held[x]
               /\ put[v].written # {} => put[v].customer \in DOMAIN customer'
               /\ put'[v].alone => \A x \in Assets : held'[x] = put[v].customer =>
                      held[x] = put[v].customer /\ (x \in put[v].toLock => x \in put'[v].toLock)
    BY <1>1, <1>4 DEF AssetInv, PutsFit, Fits, recordVars, Exists
  <1> QED
    BY <1>2, <1>5, <1>6, <1>7, <1>8, OthersStep

\* Rows that are gone leave the lists of those who were to lock them.
LEMMA Forgotten ==
    ASSUME AssetInv, NEW gone \in SUBSET Assets, NEW v \in Puts
    PROVE  /\ Forget(gone)[v] \in {NoPut} \cup PutRow
           /\ ~Under(v) => Forget(gone)[v] = NoPut
           /\ Under(v) => /\ Forget(gone)[v].at = put[v].at /\ Like(Forget(gone)[v], put[v])
                          /\ Forget(gone)[v].alone = put[v].alone
                          /\ Forget(gone)[v].toLock = put[v].toLock \ gone
  <1>1. CASE ~Under(v)
    BY <1>1, NotUnder DEF Forget, AssetInv
  <1>2. CASE Under(v)
    <2>1. put[v] \in PutRow
      BY <1>2, UnderFields DEF AssetInv
    <2>2. Forget(gone)[v] = [put[v] EXCEPT !.toLock = @ \ gone]
      BY <1>2 DEF Forget
    <2> QED
      BY <1>2, <2>1, <2>2 DEF PutRow, Like
  <1> QED
    BY <1>1, <1>2

\* What a commit leaves: rows given to the customer, rows dropped, the rest as it was.
LEMMA Committed ==
    ASSUME AssetInv, NEW u \in Puts, put[u].at = "deleting"
    PROVE  /\ \A x \in put[u].given : Outcome(u)[x] = put[u].customer /\ x \in Keeps(u)
           /\ \A x \in put[u].dropped : Outcome(u)[x] = Nobody /\ held[x] = put[u].customer
                                       /\ x \in Keeps(u) /\ x \notin put[u].given
           /\ \A x \in Assets : x \notin put[u].given \cup put[u].dropped => Outcome(u)[x] = held[x]
           /\ put[u].given \subseteq Assets /\ put[u].dropped \subseteq Assets
           /\ put[u].customer \in Customers /\ Under(u)
           /\ put[u].given # {} => Exists(put[u].customer)
  <1>1. Under(u)
    BY AtIsUnder
  <1>2. put[u].given \subseteq Assets /\ put[u].dropped \subseteq Assets /\ put[u].customer \in Customers
    BY <1>1, UnderFields DEF AssetInv
  <1>3. Fits(put[u])
    BY <1>1 DEF AssetInv, PutsFit
  <1>4. put[u].written = put[u].given /\ put[u].dropped \cap put[u].given = {}
    BY <1>3 DEF Fits, Progress
  <1>5. Keeps(u) = put[u].locked \cup put[u].written \cup put[u].dropped
    BY <1>1 DEF Keeps
  <1>6. /\ \A x \in put[u].dropped : held[x] = put[u].customer
        /\ put[u].given # {} => Exists(put[u].customer)
    BY <1>3, <1>4 DEF Fits
  <1>7. \A x \in Assets : Outcome(u)[x] = IF x \in put[u].dropped THEN Nobody
                            ELSE IF x \in put[u].given THEN put[u].customer ELSE held[x]
    BY <1>4 DEF Outcome
  <1> QED
    BY <1>1, <1>2, <1>4, <1>5, <1>6, <1>7

LEMMA CommitPutStep ==
    ASSUME AssetInv, NEW u \in Puts, CommitPut(u)
    PROVE  AssetInv'
  <1> DEFINE c == put[u].customer
  <1>1. /\ put[u].at = "deleting" /\ held' = Outcome(u)
        /\ put' = [Forget(put[u].dropped) EXCEPT ![u] = NoPut] /\ UNCHANGED recordVars
    BY DEF CommitPut
  <1>2. /\ \A x \in put[u].given : held'[x] = c /\ x \in Keeps(u)
        /\ \A x \in put[u].dropped : held'[x] = Nobody /\ held[x] = c /\ x \in Keeps(u)
        /\ \A x \in Assets : x \notin put[u].given \cup put[u].dropped => held'[x] = held[x]
        /\ put[u].given \subseteq Assets /\ put[u].dropped \subseteq Assets /\ c \in Customers /\ Under(u)
        /\ put[u].given # {} => Exists(c)
    BY <1>1, Committed
  <1>3. held' \in [Assets -> Customers \cup {Nobody}]
    <2>1. \A x \in Assets : held'[x] \in Customers \cup {Nobody}
      BY <1>2 DEF AssetInv, AssetsTyped
    <2>2. held' = [x \in Assets |-> held'[x]]
      BY <1>1 DEF Outcome
    <2> QED
      BY <2>1, <2>2
  <1>4. /\ put'[u] = NoPut /\ \A v \in Puts \ {u} : put'[v] = Forget(put[u].dropped)[v]
        /\ put' = [v \in Puts |-> put'[v]]
    BY <1>1 DEF Forget
  <1>5. put' \in [Puts -> {NoPut} \cup PutRow]
    <2>1. \A v \in Puts : put'[v] \in {NoPut} \cup PutRow
      BY <1>2, <1>4, Forgotten
    <2> QED
      BY <1>4, <2>1
  <1>6. ~Under(u)'
    BY <1>4 DEF Under, NoPut
  <1>7. \A v \in Puts : Under(v)' => v # u /\ Under(v) /\ Like(put'[v], put[v])
                                  /\ put'[v].toLock = put[v].toLock \ put[u].dropped
                                  /\ put'[v].alone = put[v].alone
    <2> SUFFICES ASSUME NEW v \in Puts, Under(v)'
                 PROVE  v # u /\ Under(v) /\ Like(put'[v], put[v])
                        /\ put'[v].toLock = put[v].toLock \ put[u].dropped
                        /\ put'[v].alone = put[v].alone
      OBVIOUS
    <2>1. v # u /\ put'[v] = Forget(put[u].dropped)[v]
      BY <1>4, <1>6
    <2>2. Under(v)
      BY <1>2, <2>1, Forgotten DEF Under, NoPut
    <2> QED
      BY <1>2, <2>1, <2>2, Forgotten
  <1>8. AloneMeansAlone'
    BY <1>7 DEF AssetInv, AloneMeansAlone, Like
  <1>9. \A x \in Assets : held'[x] # Nobody => Exists(held[x])'
    <2>1. \A x \in Assets : held'[x] # Nobody => Exists(held'[x])
      BY <1>2 DEF AssetInv, AssetsHaveOwners
    <2>2. \A d : Exists(d)' <=> Exists(d)
      BY <1>1 DEF Exists, recordVars
    <2> QED
      BY <1>1, <2>1 DEF Exists, recordVars
  <1>10. ASSUME NEW v \in Puts, Under(v)', Under(v)
         PROVE  /\ \A x \in Keeps(v) : held'[x] = held[x]
                /\ put[v].written # {} => put[v].customer \in DOMAIN customer'
                /\ put'[v].alone => \A x \in Assets : held'[x] = put[v].customer =>
                       held[x] = put[v].customer /\ (x \in put[v].toLock => x \in put'[v].toLock)
    <2>1. v # u /\ put'[v].toLock = put[v].toLock \ put[u].dropped /\ put'[v].alone = put[v].alone
      BY <1>7, <1>10
    <2>2. Keeps(v) \cap Keeps(u) = {} /\ Keeps(v) \subseteq Assets
      BY <1>10, <2>1, UnderFields DEF AssetInv, AssetsHaveOwners, Keeps
    <2>3. \A x \in Keeps(v) : held'[x] = held[x]
      BY <1>2, <2>2
    <2>4. put[v].written # {} => put[v].customer \in DOMAIN customer'
      BY <1>1, <1>10 DEF AssetInv, PutsFit, Fits, Exists, recordVars
    <2>5. ASSUME put'[v].alone, NEW x \in Assets, held'[x] = put[v].customer
          PROVE  held[x] = put[v].customer /\ (x \in put[v].toLock => x \in put'[v].toLock)
      <3>1. put[v].customer # c /\ put[v].customer \in Customers
        BY <1>2, <1>10, <2>1, <2>5, UnderFields DEF AssetInv, AloneMeansAlone
      <3>2. x \notin put[u].given /\ x \notin put[u].dropped
        BY <1>2, <2>5, <3>1, NobodyIsNoCustomer
      <3> QED
        BY <1>2, <2>1, <2>5, <3>2
    <2> QED
      BY <2>3, <2>4, <2>5
  <1> QED
    BY <1>3, <1>5, <1>7, <1>8, <1>9, <1>10, OthersStep

LEMMA CommitReplaces == AssetInv => Replaced
  <1> SUFFICES ASSUME AssetInv, NEW u \in Puts, CommitPut(u)
               PROVE  LET c == put[u].customer  given == put[u].given
                          after == { x \in Assets : held'[x] = c }
                      IN  /\ given \subseteq after
                          /\ put[u].alone => after = given
                          /\ \A x \in Assets \ given : held'[x] = held[x] \/ held[x] = c
    BY DEF Replaced
  <1> DEFINE c == put[u].customer
             given == put[u].given
             after == { x \in Assets : held'[x] = c }
  <1>1. /\ put[u].at = "deleting" /\ put[u].toLock = {} /\ held' = Outcome(u)
    BY DEF CommitPut
  <1>2. /\ \A x \in given : held'[x] = c
        /\ \A x \in put[u].dropped : held'[x] = Nobody /\ held[x] = c
        /\ \A x \in Assets : x \notin given \cup put[u].dropped => held'[x] = held[x]
        /\ given \subseteq Assets /\ c \in Customers /\ Under(u)
    BY <1>1, Committed
  <1>3. given \subseteq after
    BY <1>2
  <1>4. \A x \in Assets \ given : held'[x] = held[x] \/ held[x] = c
    BY <1>2
  <1>5. ASSUME put[u].alone, NEW x \in Assets \ given PROVE held'[x] # c
    <2>1. held[x] = c => x \in put[u].dropped
      BY <1>1, <1>2, <1>5 DEF AssetInv, PutsFit, Fits
    <2> QED
      BY <1>2, <2>1, NobodyIsNoCustomer
  <1> QED
    BY <1>3, <1>4, <1>5

-----------------------------------------------------------------------------
\* Steps of the customer's record that remove nobody.
LEMMA RecordStepKeeps ==
    ASSUME AssetInv, UNCHANGED assetVars, \A d : Exists(d) => Exists(d)'
    PROVE  AssetInv'
  <1>1. held' = held /\ put' = put
    BY DEF assetVars
  <1>2. \A v \in Puts : (Under(v)' <=> Under(v)) /\ Like(put'[v], put[v])
    BY <1>1, LikeItself DEF Under
  <1>3. AloneMeansAlone'
    BY <1>1 DEF AssetInv, AloneMeansAlone, Under
  <1>4. \A x \in Assets : held'[x] # Nobody => Exists(held[x])'
    BY <1>1 DEF AssetInv, AssetsHaveOwners, Exists
  <1>5. \A v \in Puts : Under(v) => (put[v].written # {} => put[v].customer \in DOMAIN customer')
    BY <1>1 DEF AssetInv, PutsFit, Fits, Exists
  <1> QED
    BY <1>1, <1>2, <1>3, <1>4, <1>5, OthersStep DEF AssetInv, AssetsTyped

LEMMA RemoveStep ==
    ASSUME AssetInv, NEW c \in Customers, RemoveWithAssets(c)
    PROVE  AssetInv'
  <1>1. /\ customer' = Without(c)
        /\ \A u \in Puts : Under(u) /\ put[u].customer = c => put[u].written = {}
        /\ \A x \in RowsOf(c), u \in Puts : x \notin Keeps(u)
        /\ held' = [x \in Assets |-> IF held[x] = c THEN Nobody ELSE held[x]]
        /\ put' = Forget(RowsOf(c))
    BY DEF RemoveWithAssets, HardDelete
  <1>2. RowsOf(c) \in SUBSET Assets /\ \A x \in Assets : x \in RowsOf(c) <=> held[x] = c
    BY DEF RowsOf
  <1>3. \A d : Exists(d)' <=> Exists(d) /\ d # c
    BY <1>1 DEF Exists, Without
  <1>4. held' \in [Assets -> Customers \cup {Nobody}]
    BY <1>1 DEF AssetInv, AssetsTyped
  <1>5. put' \in [Puts -> {NoPut} \cup PutRow]
    <2>1. \A v \in Puts : put'[v] \in {NoPut} \cup PutRow
      BY <1>1, <1>2, Forgotten
    <2> QED
      BY <1>1, <2>1 DEF Forget
  <1>6. \A v \in Puts : Under(v)' => Under(v) /\ Like(put'[v], put[v])
                                  /\ put'[v].toLock = put[v].toLock \ RowsOf(c)
                                  /\ put'[v].alone = put[v].alone
    BY <1>1, <1>2, Forgotten DEF Under, NoPut
  <1>7. AloneMeansAlone'
    BY <1>6 DEF AssetInv, AloneMeansAlone, Like
  <1>8. \A x \in Assets : held'[x] # Nobody => Exists(held[x])'
    <2> SUFFICES ASSUME NEW x \in Assets, held'[x] # Nobody PROVE held'[x] \in DOMAIN customer'
      BY DEF Exists
    <2>1. held'[x] = held[x] /\ held[x] # c /\ held[x] # Nobody
      BY <1>1
    <2>2. Exists(held[x])
      BY <2>1 DEF AssetInv, AssetsHaveOwners
    <2> QED
      BY <1>1, <2>1, <2>2 DEF Exists, Without
  <1>9. ASSUME NEW v \in Puts, Under(v)', Under(v)
        PROVE  /\ \A x \in Keeps(v) : held'[x] = held[x]
               /\ put[v].written # {} => put[v].customer \in DOMAIN customer'
               /\ put'[v].alone => \A x \in Assets : held'[x] = put[v].customer =>
                      held[x] = put[v].customer /\ (x \in put[v].toLock => x \in put'[v].toLock)
    <2>1. Keeps(v) \subseteq Assets /\ put[v].customer \in Customers
      BY <1>9, UnderFields DEF AssetInv, Keeps
    <2>2. \A x \in Keeps(v) : held'[x] = held[x]
      BY <1>1, <1>2, <2>1
    <2>3. put[v].written # {} => Exists(put[v].customer) /\ put[v].customer # c
      BY <1>1, <1>9 DEF AssetInv, PutsFit, Fits
    <2>4. put[v].written # {} => put[v].customer \in DOMAIN customer'
      BY <1>1, <2>3 DEF Exists, Without
    <2>5. ASSUME NEW x \in Assets, held'[x] = put[v].customer
          PROVE  held[x] = put[v].customer /\ (x \in put[v].toLock => x \in put'[v].toLock)
      <3>1. held[x] # c /\ held'[x] = held[x]
        BY <1>1, <2>1, <2>5, NobodyIsNoCustomer
      <3> QED
        BY <1>2, <1>6, <1>9, <2>5, <3>1
    <2> QED
      BY <2>2, <2>4, <2>5
  <1> QED
    BY <1>4, <1>5, <1>6, <1>7, <1>8, <1>9, OthersStep

LEMMA AssetInvStep ==
    AssetInv /\ [AssetNext]_<<recordVars, assetVars>> => AssetInv'
  <1> SUFFICES ASSUME AssetInv, [AssetNext]_<<recordVars, assetVars>>
               PROVE  AssetInv'
    OBVIOUS
  <1>1. CASE UNCHANGED <<recordVars, assetVars>>
    <2>1. \A d : Exists(d) => Exists(d)'
      BY <1>1 DEF recordVars, Exists
    <2> QED
      BY <1>1, <2>1, RecordStepKeeps
  <1>2. CASE \E u \in Puts : PutStep(u)
    BY <1>2, BeginPutStep, LockRowStep, WriteAssetStep, DropRowStep, StartWritingStep,
       StartDeletingStep, CommitPutStep, FailPutStep DEF PutStep
  <1>3. CASE \E c \in Customers : RemoveWithAssets(c)
    BY <1>3, RemoveStep
  <1>4. ASSUME NEW c \in Customers, UNCHANGED assetVars,
               EnterCustomer(c, "active", FALSE) \/ SoftDelete(c) \/ RestoreCustomer(c)
        PROVE  AssetInv'
    <2>1. \A d : Exists(d) => Exists(d)'
      BY <1>4 DEF EnterCustomer, SoftDelete, RestoreCustomer, With, Exists
    <2> QED
      BY <1>4, <2>1, RecordStepKeeps
  <1> QED
    BY <1>1, <1>2, <1>3, <1>4 DEF AssetNext

\* Whatever requests overlap, fail or wait, no two of them write one row, every asset
\* has an owner, and a snapshot leaves the customer with what it names and takes
\* nothing from another one but that (replace_customer_asset_snapshot of
\* integrations/services.py).
THEOREM AssetsSound == AssetSpec => AssetsAreSound
  <1>1. RecordInit /\ AssetInit => AssetInv
    BY AssetInitHolds
  <1>2. AssetInv /\ [AssetNext]_<<recordVars, assetVars>> => AssetInv'
    BY AssetInvStep
  <1>3. AssetInv => AssetsHaveOwners
    BY DEF AssetInv
  <1>4. AssetInv => [\A u \in Puts : CommitPut(u) =>
            LET c == put[u].customer  given == put[u].given
                after == { x \in Assets : held'[x] = c }
            IN  /\ given \subseteq after
                /\ put[u].alone => after = given
                /\ \A x \in Assets \ given : held'[x] = held[x] \/ held[x] = c]_<<recordVars, assetVars>>
    BY CommitReplaces DEF Replaced
  <1> QED
    BY <1>1, <1>2, <1>3, <1>4, PTL DEF AssetSpec, AssetsAreSound, SnapshotsReplace
================================================================================
