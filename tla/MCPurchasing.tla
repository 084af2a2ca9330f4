----------------------------- MODULE MCPurchasing -----------------------------
(***************************************************************************)
(* Instances of StockLedger and of PurchaseScreen.  They share no state: an      *)
(* initial choice says which one moves, and their states add up.                *)
(***************************************************************************)
EXTENDS MCStockLedger, PurchaseScreen

CONSTANTS
    plain, marked, sn,    \* a row without and one with a serial number
    f1                    \* a source that is pasted

VARIABLE desk             \* the component that moves

deskVars == <<vars, screenVars, desk>>

MCNumbersIn == plain :> {} @@ marked :> {sn}

\* The dialog in three parts: two rows and what is done with them until they are
\* added, the columns of two sources, and the form around the dialog, used one
\* request after the other.
ScreenPart ==
    /\ ScreenNext
    /\ desk # "form" => hidden = NoRows /\ typed' = {} /\ submitCheck' = {}
    /\ IF desk = "rows" THEN open /\ ~open' => hidden' # NoRows
                        ELSE DOMAIN rows' \subseteq {1}
    /\ desk = "columns" => \A i \in DOMAIN rows' : rows'[i].text = plain
    /\ desk # "columns" => /\ mapping' = "none" /\ content' \in {NoFile, f1}
                           /\ \A s \in Slots : posts'[s].kind # "columns"
    /\ desk = "form" => ~overlapped'

DeskInit ==
    /\ Init /\ ScreenInit
    /\ desk \in {"stock", "rows", "columns", "form"}

DeskNext ==
    /\ \/ desk = "stock" /\ Next /\ UNCHANGED screenVars
       \/ desk # "stock" /\ ScreenPart /\ UNCHANGED vars
    /\ UNCHANGED desk

DeskSpec == DeskInit /\ [][DeskNext]_deskVars
================================================================================
