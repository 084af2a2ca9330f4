----------------------------- MODULE MCBillingDesk -----------------------------
(***************************************************************************)
(* Instances of DocumentNumbers, Quotations, BillingSheets and LockOrder.      *)
(* They share no state: an initial choice says which one moves, and the states  *)
(* of the four add up instead of multiplying.                                *)
(***************************************************************************)
EXTENDS DocumentNumbers, Quotations, BillingSheets, LockOrder

CONSTANTS INV, RCT, PUR   \* scopes: invoices, receipts, purchase references

VARIABLE desk             \* the component that moves

deskVars == <<numberVars, quoteVars, sheetVars, lockVars, desk>>

\* Requests are interchangeable, and one that is done leaves nothing behind: those
\* that hold locks may as well be numbered in the order of their handlers.
MCHandlers == <<"create", "createBatch", "successor", "editImport", "receiveProposals",
                "receivePurchase", "checkout", "adjustLine", "receiptOfGoods",
                "receiptOfPeriod", "voidPeriod", "renew", "accept", "resend">>
Place(h) == CHOOSE n \in DOMAIN MCHandlers : MCHandlers[n] = h
Ordered(w) ==
    \A q, r \in { r \in Requests : w[r] # NoWork } :
        q < r => Place(w[q].handler) <= Place(w[r].handler)

MCPlans == {<<INV>>, <<INV, RCT>>, <<RCT>>, <<PUR>>}

\* What overlapping requests do to a sheet does not depend on its invoice: drafts
\* are edited in turn only.
DraftsRest ==
    /\ rewritten = {} /\ \A i \in SheetInvoices : sheetDraft[i] # "issued"
    /\ \A r \in SheetRequests : sheetRequest[r].op # "lines"

DeskInit ==
    /\ NumberInit /\ QuoteInit /\ SheetInit /\ LockInit
    /\ desk \in {"numbers", "quotations", "sheets", "locks"}
    /\ desk # "quotations" => quotesInTurn
    /\ desk # "sheets" => sheetsInTurn

DeskNext ==
    \/ desk = "numbers" /\ NumberNext /\ UNCHANGED <<quoteVars, sheetVars, lockVars, desk>>
    \/ desk = "quotations" /\ QuoteNext /\ UNCHANGED <<numberVars, sheetVars, lockVars, desk>>
    \/ desk = "sheets" /\ SheetNext /\ (sheetsInTurn \/ DraftsRest') /\ UNCHANGED <<numberVars, quoteVars, lockVars, desk>>
    \/ desk = "locks" /\ LockNext /\ Ordered(work') /\ UNCHANGED <<numberVars, quoteVars, sheetVars, desk>>

DeskSpec == DeskInit /\ [][DeskNext]_deskVars /\ (desk = "numbers" => NumberFairness)
================================================================================
