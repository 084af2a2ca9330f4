-------------------------------- MODULE Carts --------------------------------
(***************************************************************************)
(* The sales counter: carts, from the signed workspace page that creates    *)
(* one to its sale, and the cleanup command that runs beside the cashiers    *)
(* (inventory/cart_lifecycle.py, cart_workspace.py, the CartService of       *)
(* inventory/services.py and the cart views).                               *)
(*                                                                          *)
(* cart_access locks the cart row for the whole of every POST on a cart, so  *)
(* each is one action; a request refused on the way rolls back and is no     *)
(* step.  Three things are not under that lock: a workspace page looks for   *)
(* the cart its token made before it locks anything; a quotation is billed   *)
(* from the billing pages, which never lock the cart; and the cleanup        *)
(* command lists candidates first and decides about each one later.          *)
(* A request whose answer is lost is sent again: every action may repeat.    *)
(* Callers are those the permission checks of the views let in.              *)
(***************************************************************************)
EXTENDS Sums

CONSTANTS
    Carts, Products, Docs,   \* ids of carts, products, quotations and invoices
    Tokens,                  \* signed workspace tokens, one per started sale
    Requests,                \* requests that may be between a read and a write
    OnShelf,                 \* units of each product before the first sale
    MaxQty,                  \* bound on the quantity of a cart line
    EmptyAfter, IdleAfter,   \* ticks after which cleanup deletes, abandons
    MaxTime,                 \* bound on the clock
    None

ASSUME Rows == IsFiniteSet(Carts) /\ IsFiniteSet(Products) /\ IsFiniteSet(Docs)
ASSUME Shelf == OnShelf \in [Products -> Nat] /\ MaxQty \in Nat
ASSUME Policy == /\ EmptyAfter \in Nat /\ IdleAfter \in Nat /\ MaxTime \in Nat
                 /\ 0 < EmptyAfter /\ EmptyAfter <= IdleAfter
ASSUME NullId == None \notin Carts \cup Docs \cup Tokens

VARIABLES
    cart,      \* Cart rows and their lines
    doc,       \* quotations and invoices of carts, with their InventorySale
    event,     \* AuditLog rows inventory.cart.materialized: <<token, cart>>
    stock,     \* units on the shelf
    req,       \* requests between a read and a write
    sweep,     \* the cleanup command: when it started, candidates left
    now        \* the clock

vars == <<cart, doc, event, stock, req, sweep, now>>

Lines == [Products -> 0..MaxQty]
\* details: of a draft never discarded, whether a field of its form is filled in
\* (nothing asks this of any other cart).
Cart == [status : {"none", "draft", "converted", "abandoned", "deleted"},
         lines : Lines, details : BOOLEAN, restored : BOOLEAN,
         touched : 0..MaxTime, quotation : Docs \cup {None}, invoice : Docs \cup {None}]
\* cart: for a quotation its cart, for an invoice InventorySale.cart.
\* deducted: InventorySale.stock_deducted.
Doc == [kind : {"none", "quotation", "invoice"},
        status : {"none", "draft", "converted", "issued", "paid", "void"},
        cart : Carts \cup {None}, lines : Lines,
        receipts : Nat, deducted : BOOLEAN]

NoLines == [p \in Products |-> 0]
NoCart  == [status |-> "none", lines |-> NoLines, details |-> FALSE, restored |-> FALSE,
            touched |-> 0, quotation |-> None, invoice |-> None]
NoDoc   == [kind |-> "none", status |-> "none", cart |-> None, lines |-> NoLines,
            receipts |-> 0, deducted |-> FALSE]
NoReq   == [op |-> "idle", on |-> None]

TypeOK ==
    /\ cart \in [Carts -> Cart]
    /\ doc \in [Docs -> Doc]
    /\ event \subseteq Tokens \X Carts
    /\ stock \in [Products -> Nat]
    /\ req \in [Requests -> [op : {"idle", "open", "bill"}, on : Tokens \cup Carts \cup {None}]]
    /\ sweep \in [at : 0..MaxTime, todo : SUBSET Carts]
    /\ now \in 0..MaxTime

Init ==
    /\ cart = [c \in Carts |-> NoCart]
    /\ doc = [d \in Docs |-> NoDoc]
    /\ event = {} /\ stock = OnShelf
    /\ req = [r \in Requests |-> NoReq]
    /\ sweep = [at |-> 0, todo |-> {}]
    /\ now = 0

--------------------------------------------------------------------------------
(* What the handlers ask of the rows. *)

Draft(c) == cart[c].status = "draft"
Empty(c) == cart[c].lines = NoLines
SaleOf(c) == { d \in Docs : doc[d].kind = "invoice" /\ doc[d].cart = c }

business_linked(c) == \/ cart[c].quotation # None \/ cart[c].invoice # None
                      \/ SaleOf(c) # {}

\* A cart abandoned before is never empty: the reason and dates stay on it.
genuinely_empty(c) == ~(cart[c].details \/ cart[c].restored \/ ~Empty(c) \/ business_linked(c))

\* CartLineForm.clean: enough is on the shelf.  A product withdrawn from sale, a
\* price or a discount out of bounds refuses the request, which is no step.
Sellable(p, q) == 0 < q /\ q <= stock[p]

validate_restored(c) ==
    cart[c].restored => \A p \in Products : cart[c].lines[p] > 0 => Sellable(p, cart[c].lines[p])

\* What convert asks of a draft.
Convertible(c) ==
    Draft(c) /\ ~business_linked(c) /\ ~Empty(c) /\ validate_restored(c)

\* New rows take the next id.
NextCart(c) == /\ cart[c].status = "none"
               /\ c = CHOOSE x \in Carts : cart[x].status = "none"
NextDoc(d)  == /\ doc[d].kind = "none"
               /\ d = CHOOSE x \in Docs : doc[x].kind = "none"

\* The row with fields changed, and its last activity set to the clock.
Touched(row) == [row EXCEPT !.touched = now]

--------------------------------------------------------------------------------
(* A sale starts. *)

\* cart_workspace before its transaction: no cart was found for the token.
OpenWorkspace(r, t) ==
    /\ req[r] = NoReq
    /\ ~\E c \in Carts : <<t, c>> \in event
    /\ req' = [req EXCEPT ![r] = [op |-> "open", on |-> t]]
    /\ UNCHANGED <<cart, doc, event, stock, sweep, now>>

\* The first change of a sale: an item, or details that leave a cart worth keeping.
FirstChange(row) ==
    \/ \E p \in Products, q \in 1..MaxQty : /\ Sellable(p, q)
                                            /\ row = [NoLines EXCEPT ![p] = q]
    \/ row = NoLines

\* The lookup repeated under the lock on the user.
Materialized(t) == \E c \in Carts : <<t, c>> \in event

\* materialize creates the cart with its first change and records its token.
Materialize(r) ==
    /\ req[r].op = "open"
    /\ IF Materialized(req[r].on)
       THEN UNCHANGED <<cart, event>>
       ELSE \E c \in Carts, ls \in {ls \in Lines : FirstChange(ls)} :
              /\ NextCart(c)
              /\ cart' = [cart EXCEPT ![c] = [NoCart EXCEPT !.status = "draft", !.lines = ls,
                                                !.details = (ls = NoLines), !.touched = now]]
              /\ event' = event \cup {<<req[r].on, c>>}
    /\ req' = [req EXCEPT ![r] = NoReq]
    /\ UNCHANGED <<doc, stock, sweep, now>>

\* A request in flight is lost, or refused: its transaction rolls back.
Forget(r) ==
    /\ req[r] # NoReq
    /\ req' = [req EXCEPT ![r] = NoReq]
    /\ UNCHANGED <<cart, doc, event, stock, sweep, now>>

--------------------------------------------------------------------------------
(* Draft carts change: cart_line_form, cart_line_adjust, cart_line_delete, *)
(* cart_line_discount, cart_detail.                                          *)

SetLine(c, p, q) == cart' = [cart EXCEPT ![c] = Touched([cart[c] EXCEPT !.lines[p] = q])]

\* save_line adds to the line of a product, or replaces it.
SaveLine(c, p) ==
    /\ Draft(c)
    /\ \E q \in 1..MaxQty : Sellable(p, q) /\ SetLine(c, p, q)
    /\ UNCHANGED <<doc, event, stock, req, sweep, now>>

\* adjust_line takes one off without asking for stock, the last one with the line.
AdjustLine(c, p) ==
    /\ Draft(c) /\ cart[c].lines[p] > 0
    /\ SetLine(c, p, cart[c].lines[p] - 1)
    /\ UNCHANGED <<doc, event, stock, req, sweep, now>>

RemoveLine(c, p) ==
    /\ Draft(c) /\ cart[c].lines[p] > 0
    /\ SetLine(c, p, 0)
    /\ UNCHANGED <<doc, event, stock, req, sweep, now>>

\* A discount changes no quantity, but is activity.
DiscountLine(c, p) ==
    /\ Draft(c) /\ cart[c].lines[p] > 0
    /\ SetLine(c, p, cart[c].lines[p])
    /\ UNCHANGED <<doc, event, stock, req, sweep, now>>

\* save_details: unchanged details touch nothing.
SaveDetails(c) ==
    /\ Draft(c)
    /\ \E filled \in BOOLEAN :
         cart' = [cart EXCEPT ![c] = Touched([cart[c] EXCEPT !.details = filled /\ ~cart[c].restored])]
    /\ UNCHANGED <<doc, event, stock, req, sweep, now>>

--------------------------------------------------------------------------------
(* A cart ends. *)

\* The time of last activity is read of drafts only: a cart that is none has 0.
Abandoned(row) == [row EXCEPT !.status = "abandoned", !.details = FALSE, !.touched = 0]

\* A second discard changes nothing.
Abandon(c) ==
    /\ Draft(c) /\ ~business_linked(c)
    /\ cart' = [cart EXCEPT ![c] = Abandoned(@)]
    /\ UNCHANGED <<doc, event, stock, req, sweep, now>>

Restore(c) ==
    /\ cart[c].status = "abandoned" /\ ~business_linked(c)
    /\ cart' = [cart EXCEPT ![c] = Touched([cart[c] EXCEPT !.status = "draft", !.restored = TRUE])]
    /\ UNCHANGED <<doc, event, stock, req, sweep, now>>

\* The document made from a cart, an invoice with its InventorySale.
DocOf(c, kind, st) == [NoDoc EXCEPT !.kind = kind, !.status = st, !.cart = c, !.lines = cart[c].lines]

\* The cart row once document d was made from it.
ConvertedTo(c, kind, d) ==
    [cart[c] EXCEPT !.status = "converted", !.details = FALSE, !.touched = 0,
                    !.quotation = IF kind = "quotation" THEN d ELSE None,
                    !.invoice = IF kind = "invoice" THEN d ELSE None]

\* convert: a converted cart gives its document again, which changes nothing.
Convert(c, kind, d) ==
    /\ Convertible(c) /\ NextDoc(d)
    /\ doc' = [doc EXCEPT ![d] = DocOf(c, kind, IF kind = "invoice" THEN "issued" ELSE "draft")]
    /\ cart' = [cart EXCEPT ![c] = ConvertedTo(c, kind, d)]
    /\ UNCHANGED <<event, stock, req, sweep, now>>

\* create_receipt_from_invoice for an invoice with stock: issued, enough on the
\* shelf, and the whole remaining balance at once.
CanTake(lines) == \A p \in Products : lines[p] <= stock[p]
PayableWhenVoid(row) == row.status \in {"issued", "void"}
Payable(row) == row.status = "issued"
Taken(lines) == [p \in Products |-> stock[p] - lines[p]]
Settled(row) == [row EXCEPT !.status = "paid", !.receipts = @ + 1, !.deducted = TRUE]

\* checkout of a draft: the invoice, its receipt and the stock in one transaction.
CheckoutDraft(c, d) ==
    /\ Convertible(c) /\ NextDoc(d) /\ CanTake(cart[c].lines)
    /\ doc' = [doc EXCEPT ![d] = Settled(DocOf(c, "invoice", "issued"))]
    /\ cart' = [cart EXCEPT ![c] = ConvertedTo(c, "invoice", d)]
    /\ stock' = Taken(cart[c].lines)
    /\ UNCHANGED <<event, req, sweep, now>>

\* checkout of a cart billed before: the receipt it has, which changes nothing, or
\* a payment of the invoice (refused, no step, if a credit note took off a part).
CheckoutBilled(c) ==
    LET d == cart[c].invoice IN
    /\ d # None /\ doc[d].receipts = 0
    /\ Payable(doc[d]) /\ CanTake(doc[d].lines)
    /\ doc' = [doc EXCEPT ![d] = Settled(doc[d])]
    /\ stock' = Taken(doc[d].lines)
    /\ UNCHANGED <<cart, event, req, sweep, now>>

--------------------------------------------------------------------------------
(* The billing pages, which lock the invoice and never the cart. *)

\* create_invoice_from_quotation reads the quotation without a lock.
ReadQuotation(r, c) ==
    /\ req[r] = NoReq
    /\ cart[c].quotation # None /\ doc[cart[c].quotation].status = "draft"
    /\ req' = [req EXCEPT ![r] = [op |-> "bill", on |-> c]]
    /\ UNCHANGED <<cart, doc, event, stock, sweep, now>>

\* No unique constraint.
SaleNotUnique(c) == TRUE

\* InventorySale.cart is unique: a second invoice of a cart rolls back.
OneSalePerCart(c) == SaleOf(c) = {}

BillQuotation(r, d) ==
    LET c == req[r].on IN
    /\ req[r].op = "bill" /\ NextDoc(d) /\ OneSalePerCart(c)
    /\ doc' = [doc EXCEPT ![d] = DocOf(c, "invoice", "draft"),
                          ![cart[c].quotation].status = "converted"]
    /\ cart' = [cart EXCEPT ![c].invoice = d]
    /\ req' = [req EXCEPT ![r] = NoReq]
    /\ UNCHANGED <<event, stock, sweep, now>>

Issue(d) ==
    /\ doc[d].kind = "invoice" /\ doc[d].status = "draft"
    /\ doc' = [doc EXCEPT ![d].status = "issued"]
    /\ UNCHANGED <<cart, event, stock, req, sweep, now>>

Pay(d) ==
    /\ doc[d].kind = "invoice" /\ Payable(doc[d]) /\ CanTake(doc[d].lines)
    /\ doc' = [doc EXCEPT ![d] = Settled(doc[d])]
    /\ stock' = Taken(doc[d].lines)
    /\ UNCHANGED <<cart, event, req, sweep, now>>

Void(d) ==
    /\ doc[d].status = "issued"
    /\ doc' = [doc EXCEPT ![d].status = "void"]
    /\ UNCHANGED <<cart, event, stock, req, sweep, now>>

--------------------------------------------------------------------------------
(* The cleanup_carts command, with --apply. *)

\* Last activity lies n ticks or more before time t.
IdleFor(c, n, t) == cart[c].touched + n <= t

StartSweep ==
    /\ sweep.todo = {}
    /\ LET idle == { c \in Carts : Draft(c) /\ IdleFor(c, EmptyAfter, now) }
       IN idle # {} /\ sweep' = [at |-> now, todo |-> idle]
    /\ UNCHANGED <<cart, doc, event, stock, req, now>>

\* Only the status is looked at again.
StillDraft(c) == Draft(c) /\ ~business_linked(c)

\* cleanup_candidate rechecks the row under its lock.
StillIdle(c) == Draft(c) /\ ~business_linked(c) /\ IdleFor(c, EmptyAfter, sweep.at)

Verdict(c) ==
    CASE ~StillIdle(c) -> cart[c]
      [] StillIdle(c) /\ genuinely_empty(c) -> [NoCart EXCEPT !.status = "deleted"]
      [] StillIdle(c) /\ ~genuinely_empty(c) ->
             IF IdleFor(c, IdleAfter, sweep.at) THEN Abandoned(cart[c]) ELSE cart[c]

CleanupCandidate(c) ==
    /\ c \in sweep.todo
    /\ cart' = [cart EXCEPT ![c] = Verdict(c)]
    /\ sweep' = [at |-> IF sweep.todo = {c} THEN 0 ELSE sweep.at, todo |-> sweep.todo \ {c}]
    /\ UNCHANGED <<doc, event, stock, req, now>>

Tick ==
    /\ now < MaxTime
    /\ now' = now + 1
    /\ UNCHANGED <<cart, doc, event, stock, req, sweep>>

--------------------------------------------------------------------------------
CartStep(c) ==
    \/ \E p \in Products : SaveLine(c, p) \/ AdjustLine(c, p) \/ RemoveLine(c, p) \/ DiscountLine(c, p)
    \/ SaveDetails(c) \/ Abandon(c) \/ Restore(c)
    \/ \E d \in Docs : \/ Convert(c, "invoice", d) \/ Convert(c, "quotation", d)
                       \/ CheckoutDraft(c, d)
    \/ CheckoutBilled(c)

RequestStep(r) ==
    \/ \E t \in Tokens : OpenWorkspace(r, t)
    \/ Materialize(r) \/ Forget(r)
    \/ \E c \in Carts : ReadQuotation(r, c)
    \/ \E d \in Docs : BillQuotation(r, d)

Next ==
    \/ \E c \in Carts : CartStep(c)
    \/ \E r \in Requests : RequestStep(r)
    \/ \E d \in Docs : Issue(d) \/ Pay(d) \/ Void(d)
    \/ StartSweep \/ (\E c \in Carts : CleanupCandidate(c)) \/ Tick

Spec == Init /\ [][Next]_vars

\* A cleanup run is a loop over its candidates that nothing in it can block.
FairSpec == Spec /\ WF_vars(\E c \in Carts : CleanupCandidate(c))

--------------------------------------------------------------------------------
(* A workspace token makes one cart, and no cart exists without one, however *)
(* often and from how many tabs its page is sent (materialize).              *)
OneCartPerToken ==
    /\ \A a, b \in event : a[1] = b[1] => a = b
    /\ \A c \in Carts : cart[c].status # "none" => \E t \in Tokens : <<t, c>> \in event

\* The invoices whose goods were handed over.
Sold == { d \in Docs : doc[d].deducted }

(* The goods that left the shelf are those of the paid invoices, each paid by *)
(* one receipt (checkout, create_receipt_from_invoice).                        *)
GoodsMatchReceipts ==
    /\ \A p \in Products : stock[p] + SumOf(Sold, [d \in Docs |-> doc[d].lines[p]]) = OnShelf[p]
    /\ \A d \in Docs : doc[d].receipts = IF doc[d].status = "paid" THEN 1 ELSE 0
    /\ Sold = { d \in Docs : doc[d].status = "paid" }

(* A cart has one invoice at most, which bills exactly the lines the cart     *)
(* still shows, and a converted cart is the only one with documents.          *)
BilledOnceAsShown ==
    \A c \in Carts :
        /\ SaleOf(c) \subseteq {cart[c].invoice}
        /\ cart[c].invoice # None => doc[cart[c].invoice].lines = cart[c].lines
        /\ business_linked(c) <=> cart[c].status = "converted"

(* The cleanup command ends no cart that has documents, lines and recent      *)
(* activity, or any activity since the command listed it (cleanup_candidate).  *)
CleanupSparesActivity ==
    [][\A c \in sweep.todo \ sweep'.todo :
          cart'[c].status # cart[c].status =>
             /\ Draft(c) /\ cart[c].quotation = None /\ cart[c].invoice = None
             /\ cart[c].touched + EmptyAfter <= now
             /\ cart'[c].status = "deleted" => cart[c].lines = NoLines /\ ~cart[c].restored
             /\ cart'[c].status = "abandoned" => cart[c].touched + IdleAfter <= now]_vars

(* A cart that was idle for the whole policy period when a run listed it is   *)
(* ended by that run, unless someone else took it up first.                    *)
Overdue(c) == c \in sweep.todo /\ Draft(c) /\ cart[c].touched + IdleAfter <= sweep.at
CleanupEndsOverdue ==
    \A c \in Carts : Overdue(c) ~> (~Draft(c) \/ cart[c].touched = now)

PhaseOf(c) ==
    CASE cart[c].status = "none" -> "absent"
      [] cart[c].status = "draft" -> "open"
      [] cart[c].status = "abandoned" -> "dropped"
      [] cart[c].status = "deleted" -> "gone"
      [] OTHER ->
           IF cart[c].invoice = None THEN "offered"
           ELSE CASE doc[cart[c].invoice].status = "paid" -> "sold"
                  [] doc[cart[c].invoice].status = "void" -> "cancelled"
                  [] OTHER -> "billed"

Counter == INSTANCE CounterSale WITH
    phase <- [c \in Carts |-> PhaseOf(c)],
    left  <- [p \in Products |-> OnShelf[p] - stock[p]]

\* Every request, retry, billing page and cleanup run is a step of the counter
\* sale: a cart is sold once, and only its sale takes goods.
ImplementsCounterSale == Counter!Spec

(* The counter is sound, whoever sends what twice, cleans up or bills from the  *)
(* office: one cart for each sale started, one invoice for each cart, goods out   *)
(* against receipts.                                                         *)
CounterIsSound ==
    TypeOK /\ OneCartPerToken /\ GoodsMatchReceipts /\ BilledOnceAsShown

(* The cleanup command ends what it should and nothing else.                 *)
CleanupIsRight == CleanupSparesActivity /\ CleanupEndsOverdue
==============================================================================
