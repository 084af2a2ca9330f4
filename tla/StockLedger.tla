----------------------------- MODULE StockLedger -----------------------------
(***************************************************************************)
(* The stock side of inventory/services.py: the balance of each product,    *)
(* the movements that explain it, the serialized units, and the purchases,  *)
(* sales and adjustments that change them.                                  *)
(*                                                                          *)
(* confirm_purchase, cancel_purchase, adjust_stock and complete_invoice_sale *)
(* lock the purchase or sale and every product they touch, and change all    *)
(* their lines or none: each is one action.  Three views lock nothing and   *)
(* write what they read earlier: the purchase editor, the serial picker of   *)
(* an invoice and the product editor.  Each is a read and a write, with an   *)
(* edit record in between.                                                  *)
(***************************************************************************)
EXTENDS Sums

CONSTANTS
    Products,     \* physical, stock-tracked products
    Serialized,   \* those sold by serial number
    Serials,      \* serial numbers
    Purchases,    \* purchase ids
    Sales,        \* ids of invoices with product lines
    Orders,       \* the lines a purchase or sale may have, see OrderLines
    Requests,     \* requests that may be between a read and its write
    Legacy,       \* quantities a product may have had before balances existed
    MaxOnHand,    \* largest balance the column stores
    MaxAdjusted,  \* bound on the net adjustment of a product
    Nothing,      \* a null foreign key, and a balance row not created yet
    Overlap       \* TRUE: requests interleave (gunicorn runs several workers)

\* The lines of a document: a quantity and serial numbers for each product,
\* on one line per product.
OrderLines == [qty : [Products -> Nat], serials : [Products -> SUBSET Serials]]

ASSUME Catalogue == /\ Serialized \subseteq Products
                    /\ IsFiniteSet(Products) /\ IsFiniteSet(Serials)
ASSUME Documents == IsFiniteSet(Purchases) /\ IsFiniteSet(Sales)
ASSUME OrdersTyped == Orders \subseteq OrderLines
ASSUME Bounds == MaxOnHand \in Nat /\ MaxAdjusted \in Nat /\ Legacy \subseteq 0..MaxOnHand
ASSUME NullId == Nothing \notin Nat \cup Products \cup Sales \cup Purchases
ASSUME OverlapFlag == Overlap \in BOOLEAN

VARIABLES
    shelf,     \* Product.quantity, the legacy copy of the balance
    balance,   \* InventoryBalance.quantity, Nothing before the row exists
    movement,  \* StockMovement quantities, summed by the document they name
    unit,      \* StockUnit of each serial number
    purchase,  \* Purchase rows and their lines
    sale,      \* InventorySale rows, their invoice lines and serial selections
    edit       \* requests between their read and their write

vars == <<shelf, balance, movement, unit, purchase, sale, edit>>

Quantity == 0..MaxOnHand
Sources  == {"legacy", "purchase", "sale", "adjustment"}
Unit     == [status : {"absent", "available", "sold", "removed"},
             product : Products \cup {Nothing}, sale : Sales \cup {Nothing}]
\* posted: how many of its lines a stock movement names.
Purchase == [status : {"absent", "draft", "confirmed", "cancelled"},
             lines : OrderLines, posted : Nat]
Sale     == [status : {"absent", "open", "deducted"}, lines : OrderLines]
\* What a request read: the row, its lines, the product quantity in it.
Edit     == [op : {"idle", "purchase", "purchase checked", "serials", "product"},
             id : Purchases \cup Sales \cup Products \cup {Nothing},
             lines : OrderLines, shelf : Quantity]

NoLines    == [qty |-> [p \in Products |-> 0], serials |-> [p \in Products |-> {}]]
NoUnit     == [status |-> "absent", product |-> Nothing, sale |-> Nothing]
NoPurchase == [status |-> "absent", lines |-> NoLines, posted |-> 0]
NoEdit     == [op |-> "idle", id |-> Nothing, lines |-> NoLines, shelf |-> 0]

TypeOK ==
    /\ shelf \in [Products -> Quantity]
    /\ balance \in [Products -> Quantity \cup {Nothing}]
    /\ movement \in [Products -> [Sources -> Int]]
    /\ unit \in [Serials -> Unit]
    /\ purchase \in [Purchases -> Purchase]
    /\ sale \in [Sales -> Sale]
    /\ edit \in [Requests -> Edit]

Init ==
    /\ shelf \in [Products -> Legacy]
    /\ balance = [p \in Products |-> Nothing]
    /\ movement = [p \in Products |-> [m \in Sources |-> 0]]
    /\ unit = [s \in Serials |-> NoUnit]
    /\ purchase = [u \in Purchases |-> NoPurchase]
    /\ sale = [a \in Sales |-> [status |-> "absent", lines |-> NoLines]]
    /\ edit = [q \in Requests |-> NoEdit]

\* Requests do not overlap: a request that has read must write first.
Quiet == Overlap \/ \A q \in Requests : edit[q] = NoEdit

-----------------------------------------------------------------------------
(* The balance of a product under its row lock.                             *)

\* _locked_product_and_balance: the first use of a product creates its balance
\* row with the legacy quantity and, if there is any, an opening movement.
OnHand(p)  == IF balance[p] = Nothing THEN shelf[p] ELSE balance[p]
OpeningForgotten(p) == movement[p]["legacy"]
Opening(p) == IF balance[p] = Nothing THEN shelf[p] ELSE movement[p]["legacy"]

\* No movement takes more than there is; the column stores up to MaxOnHand.
SufficientUnchecked(p, d) == OnHand(p) + d <= MaxOnHand
Sufficient(p, d) == OnHand(p) + d >= 0 /\ OnHand(p) + d <= MaxOnHand

\* _sync_legacy_stock: the product shows the new balance.
ShelfForgotten(p, d) == shelf[p]
ShelfAfter(p, d) == OnHand(p) + d

\* Every product p of D moves by delta[p], a movement that names source.
Move(D, delta, source) ==
    /\ \A p \in D : Sufficient(p, delta[p])
    /\ balance' = [p \in Products |-> IF p \in D THEN OnHand(p) + delta[p] ELSE balance[p]]
    /\ shelf' = [p \in Products |-> IF p \in D THEN ShelfAfter(p, delta[p]) ELSE shelf[p]]
    /\ movement' = [p \in Products |->
          IF p \in D
          THEN [movement[p] EXCEPT !["legacy"] = Opening(p), ![source] = @ + delta[p]]
          ELSE movement[p]]

Ordered(o) == {p \in Products : o.qty[p] > 0}

\* The serial numbers a document names, on any line and on those of serialized
\* products, and the product it names s for.
Named(o) == UNION {o.serials[p] : p \in Products}
Taken(o) == UNION {o.serials[p] : p \in Serialized}
ProductOf(o, s) == CHOOSE p \in Products : s \in o.serials[p]

\* As many serial numbers as items on each line of a serialized product.
SerialsCounted(o) == \A p \in Serialized : Cardinality(o.serials[p]) = o.qty[p]

\* Units S of p are in stock.
NotInStock(S) == \A s \in S : unit[s].status # "available"
NotReceived(S) == \A s \in S : unit[s].status = "absent"
Available(S, p) == \A s \in S : unit[s].product = p /\ unit[s].status = "available"

-----------------------------------------------------------------------------
(* Purchases.                                                               *)

\* The form set of a purchase: at least one line, serial numbers counted.
LinesAccepted(o) == Ordered(o) # {} /\ SerialsCounted(o)

\* purchase_create: a draft with its lines.
CreatePurchase(u, o) ==
    /\ Quiet
    /\ purchase[u] = NoPurchase
    /\ LinesAccepted(o)
    /\ purchase' = [purchase EXCEPT ![u] = [status |-> "draft", lines |-> o, posted |-> 0]]
    /\ UNCHANGED <<shelf, balance, movement, unit, sale, edit>>

\* purchase_edit reads the purchase, without a lock, and finds a draft.
ReadPurchase(q, u) ==
    /\ Quiet
    /\ edit[q] = NoEdit
    /\ purchase[u].status = "draft"
    /\ edit' = [edit EXCEPT ![q] = [NoEdit EXCEPT !.op = "purchase", !.id = u]]
    /\ UNCHANGED <<shelf, balance, movement, unit, purchase, sale>>

\* Purchase.save reads the stored status: only "confirmed" stops the save.
CheckPurchase(q) ==
    /\ edit[q].op = "purchase"
    /\ purchase[edit[q].id].status # "confirmed"
    /\ edit' = [edit EXCEPT ![q].op = "purchase checked"]
    /\ UNCHANGED <<shelf, balance, movement, unit, purchase, sale>>

\* The save: an UPDATE of every column, among them the status as it was read,
\* then the lines.  A line that a movement names is protected from deletion,
\* not from new contents.
WritePurchase(q, o) ==
    LET u == edit[q].id IN
    /\ edit[q].op = "purchase checked"
    /\ LinesAccepted(o)
    /\ Cardinality(Ordered(o)) >= purchase[u].posted
    /\ purchase' = [purchase EXCEPT ![u].status = "draft", ![u].lines = o]
    /\ edit' = [edit EXCEPT ![q] = NoEdit]
    /\ UNCHANGED <<shelf, balance, movement, unit, sale>>

\* confirm_purchase: only a draft is received, a retry answers unchanged.
ConfirmableTwice(u) == purchase[u].status \in {"draft", "confirmed"}
Confirmable(u) == purchase[u].status = "draft"

\* What it asks of serial numbers: none for quantity-based products, and none
\* on two lines.
SerialsUnchecked(o) == TRUE
SerialsDistinct(o) ==
    /\ \A p \in Products \ Serialized : o.serials[p] = {}
    /\ \A p, r \in Products : p # r => o.serials[p] \cap o.serials[r] = {}

ConfirmPurchase(u) ==
    LET o == purchase[u].lines IN
    /\ Quiet
    /\ Confirmable(u)
    /\ Ordered(o) # {}
    /\ SerialsCounted(o)
    /\ SerialsDistinct(o)
    /\ NotReceived(Named(o))
    /\ Move(Ordered(o), o.qty, "purchase")
    /\ unit' = [s \in Serials |->
          IF s \in Named(o)
          THEN [NoUnit EXCEPT !.status = "available", !.product = ProductOf(o, s)]
          ELSE unit[s]]
    /\ purchase' = [purchase EXCEPT ![u].status = "confirmed",
                                    ![u].posted = Cardinality(Ordered(o))]
    /\ UNCHANGED <<sale, edit>>

\* cancel_purchase: an unposted receipt, without touching stock.
CancelPurchase(u) ==
    /\ Quiet
    /\ purchase[u].status = "draft"
    /\ purchase' = [purchase EXCEPT ![u].status = "cancelled"]
    /\ UNCHANGED <<shelf, balance, movement, unit, sale, edit>>

-----------------------------------------------------------------------------
(* Adjustments.                                                             *)

\* adjust_stock: one serial number per unit of a serialized product.
AdjustmentFits(p, n, S) ==
    /\ n > 0
    /\ IF p \in Serialized THEN Cardinality(S) = n ELSE S = {}

AdjustUp(p, n, S) ==
    /\ Quiet
    /\ AdjustmentFits(p, n, S)
    /\ movement[p]["adjustment"] + n <= MaxAdjusted
    /\ NotReceived(S)
    /\ Move({p}, [r \in Products |-> n], "adjustment")
    /\ unit' = [s \in Serials |->
          IF s \in S THEN [NoUnit EXCEPT !.status = "available", !.product = p]
                     ELSE unit[s]]
    /\ UNCHANGED <<purchase, sale, edit>>

AdjustDown(p, n, S) ==
    /\ Quiet
    /\ AdjustmentFits(p, n, S)
    /\ movement[p]["adjustment"] - n >= -MaxAdjusted
    /\ Available(S, p)
    /\ Move({p}, [r \in Products |-> -n], "adjustment")
    /\ unit' = [s \in Serials |->
          IF s \in S THEN [unit[s] EXCEPT !.status = "removed"] ELSE unit[s]]
    /\ UNCHANGED <<purchase, sale, edit>>

-----------------------------------------------------------------------------
(* Sales.                                                                   *)

\* An invoice with product lines, and units that were selected for it.  A
\* selection reserves nothing; one copied with a quotation or a reissued
\* invoice may name units that are gone by now.
OpenSale(a, o) ==
    /\ Quiet
    /\ sale[a].status = "absent"
    /\ Ordered(o) # {}
    /\ \A p \in Products : \A s \in o.serials[p] : unit[s].product = p
    /\ sale' = [sale EXCEPT ![a] = [status |-> "open", lines |-> o]]
    /\ UNCHANGED <<shelf, balance, movement, unit, purchase, edit>>

\* invoice_serials finds the invoice unpaid and the chosen units available,
\* without a lock ...
SelectableDelivered(a) == sale[a].status \in {"open", "deducted"}
Selectable(a) == sale[a].status = "open"

ReadSerials(q, a, o) ==
    /\ Quiet
    /\ edit[q] = NoEdit
    /\ Selectable(a)
    /\ o.qty = sale[a].lines.qty
    /\ SerialsCounted(o)
    /\ \A p \in Products : Available(o.serials[p], p)
    /\ edit' = [edit EXCEPT ![q] = [NoEdit EXCEPT !.op = "serials", !.id = a, !.lines = o]]
    /\ UNCHANGED <<shelf, balance, movement, unit, purchase, sale>>

\* ... and replaces the selections, whatever happened since.
WriteSerials(q) ==
    /\ edit[q].op = "serials"
    /\ sale' = [sale EXCEPT ![edit[q].id].lines = edit[q].lines]
    /\ edit' = [edit EXCEPT ![q] = NoEdit]
    /\ UNCHANGED <<shelf, balance, movement, unit, purchase>>

\* complete_invoice_sale: the stock of every line leaves, or of none; a sale
\* that is already deducted is left as it is.
DeductibleTwice(a) == sale[a].status \in {"open", "deducted"}
Deductible(a) == sale[a].status = "open"

CompleteSale(a) ==
    LET o == sale[a].lines IN
    /\ Quiet
    /\ Deductible(a)
    /\ SerialsCounted(o)
    /\ \A p \in Serialized : Available(o.serials[p], p)
    /\ Move(Ordered(o), [p \in Products |-> -o.qty[p]], "sale")
    /\ unit' = [s \in Serials |->
          IF s \in Taken(o) THEN [unit[s] EXCEPT !.status = "sold", !.sale = a]
                            ELSE unit[s]]
    /\ sale' = [sale EXCEPT ![a].status = "deducted"]
    /\ UNCHANGED <<purchase, edit>>

-----------------------------------------------------------------------------
(* Products.                                                                *)

\* ProductUpdateView loads the product with its quantity ...
ReadProduct(q, p) ==
    /\ Quiet
    /\ edit[q] = NoEdit
    /\ edit' = [edit EXCEPT ![q] = [NoEdit EXCEPT !.op = "product", !.id = p,
                                                  !.shelf = shelf[p]]]
    /\ UNCHANGED <<shelf, balance, movement, unit, purchase, sale>>

\* ... and saves every column, the quantity it loaded among them.
WriteProduct(q) ==
    /\ edit[q].op = "product"
    /\ shelf' = [shelf EXCEPT ![edit[q].id] = edit[q].shelf]
    /\ edit' = [edit EXCEPT ![q] = NoEdit]
    /\ UNCHANGED <<balance, movement, unit, purchase, sale>>

\* A request that has read ends without writing: its transaction failed.
AbandonEdit(q) ==
    /\ edit[q] # NoEdit
    /\ edit' = [edit EXCEPT ![q] = NoEdit]
    /\ UNCHANGED <<shelf, balance, movement, unit, purchase, sale>>

-----------------------------------------------------------------------------
Next ==
    \/ \E u \in Purchases, o \in Orders : CreatePurchase(u, o)
    \/ \E q \in Requests, u \in Purchases : ReadPurchase(q, u)
    \/ \E q \in Requests : CheckPurchase(q)
    \/ \E q \in Requests, o \in Orders : WritePurchase(q, o)
    \/ \E u \in Purchases : ConfirmPurchase(u)
    \/ \E u \in Purchases : CancelPurchase(u)
    \/ \E p \in Products, n \in 1..MaxAdjusted, S \in SUBSET Serials : AdjustUp(p, n, S)
    \/ \E p \in Products, n \in 1..MaxAdjusted, S \in SUBSET Serials : AdjustDown(p, n, S)
    \/ \E a \in Sales, o \in Orders : OpenSale(a, o)
    \/ \E q \in Requests, a \in Sales, o \in Orders : ReadSerials(q, a, o)
    \/ \E q \in Requests : WriteSerials(q)
    \/ \E a \in Sales : CompleteSale(a)
    \/ \E q \in Requests, p \in Products : ReadProduct(q, p)
    \/ \E q \in Requests : WriteProduct(q)
    \/ \E q \in Requests : AbandonEdit(q)

Spec == Init /\ [][Next]_vars

-----------------------------------------------------------------------------
(* Properties that hold however requests interleave.                        *)

\* Every balance is the sum of its movements, the opening quantity included:
\* the stock ledger explains every unit on hand (inventory/services.py:74).
MovementsExplainBalance ==
    \A p \in Products :
        /\ balance[p] # Nothing =>
              balance[p] = movement[p]["legacy"] + movement[p]["purchase"]
                         + movement[p]["sale"] + movement[p]["adjustment"]
        /\ balance[p] = Nothing => \A m \in Sources : movement[p][m] = 0

\* The stock that left by sales is what the deducted sales invoiced, each
\* once, however often a payment is retried and whoever pays first.
SalesLeaveOnce ==
    \A p \in Products :
        movement[p]["sale"] = -SumOf({a \in Sales : sale[a].status = "deducted"},
                                     [a \in Sales |-> sale[a].lines.qty[p]])

\* A serialized product has exactly as many available units as its balance
\* counts beyond the legacy quantity, which never had serial numbers.
UnitsMatchBalance ==
    \A p \in Serialized :
        LET units == {s \in Serials : unit[s].product = p /\ unit[s].status = "available"}
        IN  Cardinality(units) =
                IF balance[p] = Nothing THEN 0 ELSE balance[p] - movement[p]["legacy"]

\* A serialized unit is sold by one sale only (README.md:144), and a deducted
\* sale took as many units of each product as it invoiced.
UnitsSoldOnce ==
    /\ \A s \in Serials : unit[s].status = "sold" <=> unit[s].sale # Nothing
    /\ \A a \in Sales, p \in Serialized :
           Cardinality({s \in Serials : unit[s].sale = a /\ unit[s].product = p}) =
               IF sale[a].status = "deducted" THEN sale[a].lines.qty[p] ELSE 0

\* Sales, units and balances agree, however requests interleave.
SalesTakeUnitsOnce == SalesLeaveOnce /\ UnitsMatchBalance /\ UnitsSoldOnce

\* Units that left stock never come back under the same serial number, and a
\* deducted sale stays deducted.
LeftStaysLeft ==
    [][/\ \A s \in Serials : unit[s].status \in {"sold", "removed"} => unit'[s] = unit[s]
       /\ \A a \in Sales : sale[a].status = "deducted" => sale'[a].status = "deducted"]_vars

\* What a sale took is gone: it is counted once, and comes back under no request.
UnitsLeaveOnce == []SalesTakeUnitsOnce /\ LeftStaysLeft

-----------------------------------------------------------------------------
(* Properties of requests that do not overlap.                              *)

\* What purchases brought in is what the confirmed purchases list, each line
\* posted exactly once.
PurchasesArriveOnce ==
    \A p \in Products :
        movement[p]["purchase"] = SumOf({u \in Purchases : purchase[u].status = "confirmed"},
                                        [u \in Purchases |-> purchase[u].lines.qty[p]])

\* The quantity on the product page is the balance.
ShelfShowsBalance ==
    \A p \in Products : balance[p] # Nothing => shelf[p] = balance[p]

\* The serial selections of a delivered sale are the units it took:
\* "Serialized units must be explicitly selected" (README.md:144).  Requests
\* that overlap break it, invoice_serials replaces the selections of a sale
\* that was paid in the meantime.
SelectionsNameSoldUnits ==
    \A a \in Sales : sale[a].status = "deducted" =>
        \A p \in Serialized :
            sale[a].lines.serials[p] = {s \in Serials : unit[s].sale = a /\ unit[s].product = p}

\* What is stored twice says the same: the shelf and the balance, the
\* selections of a sale and the units it took.
CopiesAgree == ShelfShowsBalance /\ SelectionsNameSoldUnits
=============================================================================
