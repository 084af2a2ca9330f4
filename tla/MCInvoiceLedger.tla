-------------------------- MODULE MCInvoiceLedger --------------------------
(* Instances of InvoiceLedger for model checking.                           *)
EXTENDS InvoiceReceivable, TLC

\* Ids are interchangeable: no action prefers one row, reference or request.
Interchangeable == Permutations(Invoices) \cup Permutations(Receipts)
                   \cup Permutations(Notes) \cup Permutations(Requests)

\* Requests that overlap, about invoices that ask for something.
OwingSpec == Init /\ [][Next /\ \A i \in Invoices : status'[i] = "absent" \/ total'[i] > 0]_vars
=============================================================================
