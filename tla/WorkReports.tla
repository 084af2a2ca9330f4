------------------------------ MODULE WorkReports ------------------------------
(***************************************************************************)
(* Work reports of technicians and the payments recorded for them            *)
(* (work_reports/services.py, models.py).                                    *)
(*                                                                          *)
(* Every handler locks the rows it judges, reports before payments and       *)
(* batches before their allocations, so each is one action; a refused one    *)
(* rolls back and is no step.  Forms may have been read long before: what a  *)
(* handler is given is any value, and what it finds is the row as it is.     *)
(* A payment is a record the manager makes and the technician answers; a     *)
(* batch records one payment for each of several reports.  Titles, dates,    *)
(* notes and reasons are left out; a paid amount that differs from the       *)
(* agreed one comes with its reason and confirmation.                        *)
(***************************************************************************)
EXTENDS Naturals, Sequences

CONSTANTS
    Reports, Technicians, Batches,  \* ids
    MaxAmount,                      \* bound on amounts
    MaxPayments,                    \* bound on the payment records of a report
    None

ASSUME Amounts == MaxAmount \in Nat /\ MaxPayments \in Nat
ASSUME NullIds == None \notin Batches \cup Technicians

VARIABLES
    report,  \* TechnicianWorkReport rows
    pays,    \* of each report its TechnicianPaymentRecord rows, oldest first
    batch,   \* TechnicianPaymentBatch rows
    active   \* technicians whose membership is active

vars == <<report, pays, batch, active>>

\* TechnicianPaymentRecord.Status
Status == {"AWAITING", "CONFIRMED", "DISPUTED", "VOIDED"}

Report == [status : {"none", "DRAFT", "SUBMITTED", "REJECTED", "APPROVED"},
           technician : Technicians \cup {None}, amount : 0..MaxAmount]
\* agreed: agreed_amount_snapshot.  replaces: the payment of the same report it
\* replaces, 0 for none.
Payment == [status : Status, paid : 1..MaxAmount, agreed : 0..MaxAmount,
            batch : Batches \cup {None}, replaces : 0..MaxPayments]
Batch == [status : Status \cup {"none"}, replaces : Batches \cup {None}]

TypeOK ==
    /\ report \in [Reports -> Report]
    /\ pays \in [Reports -> Seq(Payment)]
    /\ batch \in [Batches -> Batch]
    /\ active \subseteq Technicians

Init ==
    /\ report = [r \in Reports |-> [status |-> "none", technician |-> None, amount |-> 0]]
    /\ pays = [r \in Reports |-> <<>>]
    /\ batch = [b \in Batches |-> [status |-> "none", replaces |-> None]]
    /\ active = Technicians

--------------------------------------------------------------------------------
(* The report. *)

Own(r) == report[r].technician \in active

CreateReport(r, t, a) ==
    /\ t \in active /\ report[r].status = "none"
    /\ report' = [report EXCEPT ![r] = [status |-> "DRAFT", technician |-> t, amount |-> a]]
    /\ UNCHANGED <<pays, batch, active>>

EditableAlways(r) == report[r].status # "none"
Editable(r) == report[r].status \in {"DRAFT", "REJECTED"}

UpdateOwnReport(r, a) ==
    /\ Own(r) /\ Editable(r)
    /\ report' = [report EXCEPT ![r].amount = a]
    /\ UNCHANGED <<pays, batch, active>>

Moved(r, st) == report' = [report EXCEPT ![r].status = st]

SubmitReport(r) ==
    /\ Own(r) /\ Editable(r)
    /\ Moved(r, "SUBMITTED")
    /\ UNCHANGED <<pays, batch, active>>

ApproveReport(r) ==
    /\ report[r].status = "SUBMITTED"
    /\ Moved(r, "APPROVED")
    /\ UNCHANGED <<pays, batch, active>>

RejectReport(r) ==
    /\ report[r].status = "SUBMITTED"
    /\ Moved(r, "REJECTED")
    /\ UNCHANGED <<pays, batch, active>>

\* Voided payments fix the amount as well.
AmountCorrectable(r) == pays[r] = <<>>

CorrectApprovedReport(r, a) ==
    /\ report[r].status = "APPROVED"
    /\ a # report[r].amount => AmountCorrectable(r)
    /\ report' = [report EXCEPT ![r].amount = a]
    /\ UNCHANGED <<pays, batch, active>>

--------------------------------------------------------------------------------
(* A payment is recorded. *)

Unpaid(r) == \A i \in DOMAIN pays[r] : pays[r][i].status = "VOIDED"

Payable(r) == /\ report[r].status = "APPROVED" /\ Own(r) /\ Unpaid(r)
              /\ Len(pays[r]) < MaxPayments

Positive(a) == a > 0

NewPayment(r, a, b, old) ==
    [status |-> "AWAITING", paid |-> a, agreed |-> report[r].amount, batch |-> b, replaces |-> old]

RecordPayment(r, a) ==
    /\ Payable(r) /\ Positive(a)
    /\ pays' = [pays EXCEPT ![r] = Append(pays[r], NewPayment(r, a, None, 0))]
    /\ UNCHANGED <<report, batch, active>>

\* replace_technician_payment, of a payment on its own or of an allocation.
Replaceable(r, i) == /\ pays[r][i].status = "VOIDED"
                     /\ \A j \in DOMAIN pays[r] : pays[r][j].replaces # i

ReplacePayment(r, i, a) ==
    /\ Payable(r) /\ Positive(a) /\ Replaceable(r, i)
    /\ pays' = [pays EXCEPT ![r] = Append(pays[r], NewPayment(r, a, None, i))]
    /\ UNCHANGED <<report, batch, active>>

\* The reports of a batch.
Cover(b) == { r \in Reports : \E i \in DOMAIN pays[r] : pays[r][i].batch = b }

BatchAccepted(S) ==
    /\ S # {}
    /\ \A r, q \in S : report[r].technician = report[q].technician
    /\ \A r \in S : Payable(r)
    /\ \E r \in S : report[r].amount > 0

SameReports(b, S) == Cover(b) = S

\* A replacement names a voided batch of the same reports, not replaced before.
BatchReplaceable(old, S) ==
    \/ old = None
    \/ /\ old # None /\ batch[old].status = "VOIDED"
       /\ \A c \in Batches : batch[c].replaces # old
       /\ SameReports(old, S)

\* New rows take the next id.
NextBatch(b) == /\ batch[b].status = "none"
                /\ b = CHOOSE x \in Batches : batch[x].status = "none"

\* record_technician_payment_batch: all of its reports or none.
RecordBatch(b, S, paid, old) ==
    /\ NextBatch(b) /\ BatchAccepted(S) /\ BatchReplaceable(old, S)
    /\ \A r \in S : Positive(paid[r])
    /\ batch' = [batch EXCEPT ![b] = [status |-> "AWAITING", replaces |-> old]]
    /\ pays' = [r \in Reports |->
                  IF r \in S THEN Append(pays[r], NewPayment(r, paid[r], b, 0)) ELSE pays[r]]
    /\ UNCHANGED <<report, active>>

--------------------------------------------------------------------------------
(* A payment is answered by its technician, or voided by a manager. *)

AnswersReopened(st, t) == Status \ {"AWAITING", st}
\* The answers a payment in a status still takes: its own technician's while they
\* are active, a manager's void.
Answers(st, t) == (IF st = "AWAITING" /\ t \in active THEN {"CONFIRMED", "DISPUTED"} ELSE {})
                  \cup (IF st # "VOIDED" THEN {"VOIDED"} ELSE {})

\* An allocation is answered through its batch.
OnItsOwn(row) == row.batch = None

AnswerPayment(r, i, to) ==
    /\ OnItsOwn(pays[r][i])
    /\ to \in Answers(pays[r][i].status, report[r].technician)
    /\ pays' = [pays EXCEPT ![r][i].status = to]
    /\ UNCHANGED <<report, batch, active>>

\* _transition_batch moves the batch and every allocation.
Transitioned(b, to) ==
    [r \in Reports |-> [i \in DOMAIN pays[r] |->
        IF pays[r][i].batch = b THEN [pays[r][i] EXCEPT !.status = to] ELSE pays[r][i]]]

AnswerBatch(b, to) ==
    /\ batch[b].status # "none"
    /\ \E r \in Cover(b) : to \in Answers(batch[b].status, report[r].technician)
    /\ batch' = [batch EXCEPT ![b].status = to]
    /\ pays' = Transitioned(b, to)
    /\ UNCHANGED <<report, active>>

\* member_toggle_active, in users/views.py.
ToggleMember(t) ==
    /\ active' = IF t \in active THEN active \ {t} ELSE active \cup {t}
    /\ UNCHANGED <<report, pays, batch>>

--------------------------------------------------------------------------------
ReportStep(r) ==
    \/ \E a \in 0..MaxAmount : \/ \E t \in Technicians : CreateReport(r, t, a)
                               \/ UpdateOwnReport(r, a) \/ CorrectApprovedReport(r, a)
                               \/ RecordPayment(r, a)
                               \/ \E i \in DOMAIN pays[r] : ReplacePayment(r, i, a)
    \/ SubmitReport(r) \/ ApproveReport(r) \/ RejectReport(r)
    \/ \E i \in DOMAIN pays[r], to \in Status : AnswerPayment(r, i, to)

BatchStep(b) ==
    \/ \E S \in SUBSET Reports : \E paid \in [S -> 0..MaxAmount], old \in Batches \cup {None} :
          RecordBatch(b, S, paid, old)
    \/ \E to \in Status : AnswerBatch(b, to)

Next == \/ \E r \in Reports : ReportStep(r)
        \/ \E b \in Batches : BatchStep(b)
        \/ \E t \in Technicians : ToggleMember(t)

Spec == Init /\ [][Next]_vars

--------------------------------------------------------------------------------
(* A report has one payment in force at most, its last one, and it has none   *)
(* before it is approved (record_technician_payment, the unique constraint).   *)
OnePaymentInForce ==
    \A r \in Reports, i \in 1..MaxPayments :
        i \in DOMAIN pays[r] =>
            /\ report[r].status = "APPROVED"
            /\ i < Len(pays[r]) => pays[r][i].status = "VOIDED"

(* What every payment record, voided ones too, says was agreed is still the   *)
(* agreed amount of its report (correct_approved_report).                      *)
SnapshotsStayTrue ==
    \A r \in Reports : \A i \in DOMAIN pays[r] : pays[r][i].agreed = report[r].amount

(* A batch and its allocations have one status, it pays one technician and     *)
(* each of its reports once.                                                   *)
BatchMovesWhole ==
    \A b \in Batches :
        /\ batch[b].status # "none" <=> Cover(b) # {}
        /\ \A r, q \in Cover(b) : report[r].technician = report[q].technician
        /\ \A r \in Reports : \A i, j \in DOMAIN pays[r] :
              pays[r][i].batch = b => /\ pays[r][i].status = batch[b].status
                                      /\ pays[r][j].batch = b => i = j

(* A replacement stands for a voided record, and nothing is replaced twice;    *)
(* a replaced batch covered the same reports.                                  *)
ReplacedByOne ==
    /\ \A r \in Reports : \A i, j \in DOMAIN pays[r] :
          LET k == pays[r][i].replaces IN
          k # 0 => /\ k < i /\ pays[r][k].status = "VOIDED"
                   /\ pays[r][j].replaces = k => i = j
    /\ \A b, c \in Batches :
          LET k == batch[b].replaces IN
          k # None => /\ batch[k].status = "VOIDED"
                      /\ Cover(k) = Cover(b)
                      /\ batch[c].replaces = k => b = c

(* Payment records are never dropped or rewritten: an answered payment can     *)
(* only be voided, and a voided one stays as it is.                            *)
AnswersAreFinal ==
    [][\A r \in Reports : \A i \in DOMAIN pays[r] :
          /\ i \in DOMAIN pays'[r]
          /\ pays'[r][i] = [pays[r][i] EXCEPT !.status = pays'[r][i].status]
          /\ pays[r][i].status \in {"CONFIRMED", "DISPUTED"} =>
                pays'[r][i].status \in {pays[r][i].status, "VOIDED"}
          /\ pays[r][i].status = "VOIDED" => pays'[r][i].status = "VOIDED"]_vars

InForce(r) == IF pays[r] = <<>> \/ pays[r][Len(pays[r])].status = "VOIDED"
              THEN "unpaid" ELSE pays[r][Len(pays[r])].status

Engagement == INSTANCE TechnicianPay WITH
    phase  <- [r \in Reports |-> report[r].status],
    due    <- [r \in Reports |-> report[r].amount],
    pay    <- [r \in Reports |-> InForce(r)],
    agreed <- { r \in Reports : pays[r] # <<>> }

\* Every handler is a step of the abstract payment of technicians.
ImplementsTechnicianPay == Engagement!Spec

\* Payment records agree with reports and batches.
PaymentsAgree ==
    TypeOK /\ OnePaymentInForce /\ SnapshotsStayTrue /\ BatchMovesWhole /\ ReplacedByOne

(* Payment records agree with reports and batches after any sequence of records, *)
(* answers, voids, corrections and replacements, and they are history.        *)
PaymentsAreSound == []PaymentsAgree /\ AnswersAreFinal
==============================================================================
