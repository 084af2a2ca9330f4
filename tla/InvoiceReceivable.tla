-------------------------- MODULE InvoiceReceivable --------------------------
(***************************************************************************)
(* The refinement mapping from the invoice ledger to the receivable: the     *)
(* settled amount is the sum of receipt and issued credit-note rows, and     *)
(* the many statuses are four phases.                                        *)
(***************************************************************************)
EXTENDS InvoiceLedger

Settled(i) == Paid(receipts, i) + Credited(notes, i)

PhaseOf(st) ==
    CASE st = "absent" -> "none"
      [] st = "draft" -> "draft"
      [] st \in {"void", "superseded"} -> "closed"
      [] OTHER -> "open"

Account == INSTANCE Receivable WITH
    Accounts <- Invoices,
    Limit <- MaxTotal,
    Rounding <- Cent,
    due <- total,
    settled <- [i \in Invoices |-> Settled(i)],
    phase <- [i \in Invoices |-> PhaseOf(status[i])]

\* Every step of the ledger is a step of the receivable: no interleaving of
\* payments, credits, voids and reissues changes an open debt's amount,
\* settles more than is due and a cent, or closes a debt that something was settled of.
ImplementsReceivable == Account!RSpec
=============================================================================
