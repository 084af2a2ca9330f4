------------------------------- MODULE MCAccounts -------------------------------
(***************************************************************************)
(* Instances of InvoiceLedger and of CustomerServices.  They share no state: an  *)
(* initial choice says which one moves, and their states add up.  The ledger has   *)
(* two parts: one invoice and its replacement with all that settles them, and      *)
(* invoices that are replaced more than once.                                    *)
(***************************************************************************)
EXTENDS MCInvoiceLedger, CustomerServices

CONSTANT another          \* an invoice beside the first two

VARIABLE account          \* the component that moves

accountVars == <<vars, customerVars, account>>

MCInterchangeable == Permutations(Packages)

SettlementPart == Next /\ status'[another] = "absent"

\* Amounts up to 1, one receipt, no credit notes.
ReplacementPart ==
    /\ Next /\ notes' = notes
    /\ \A i \in Invoices : total'[i] <= 1
    /\ Cardinality({r \in Receipts : receipts'[r].invoice # NoDoc}) <= 1

\* At most three active agreements: those of an older account and one of a service.
ServicesPart == CustomerNext /\ Cardinality(agreement') <= 3

AccountInit ==
    /\ Init /\ CustomerInit
    /\ account \in {"settlement", "replacements", "services"}
    /\ account # "services" => agreement = {} /\ serviceSite = <<>>

AccountNext ==
    /\ \/ account = "settlement" /\ SettlementPart /\ UNCHANGED customerVars
       \/ account = "replacements" /\ ReplacementPart /\ UNCHANGED customerVars
       \/ account = "services" /\ ServicesPart /\ UNCHANGED vars
    /\ UNCHANGED account

AccountSpec == AccountInit /\ [][AccountNext]_accountVars
================================================================================
