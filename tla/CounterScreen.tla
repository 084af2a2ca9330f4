----------------------------- MODULE CounterScreen -----------------------------
(***************************************************************************)
(* The point-of-sale page (inventory-ui.js) of one draft cart, the confirmation  *)
(* of its checkout (jims-ui.js) and the answers of the cart views.              *)
(*                                                                          *)
(* Quantities, item discounts and the details of the sale are saved by requests  *)
(* of their own, at most one of a kind at once, and each answer redraws the      *)
(* cart as it was when the request was served.  The details are edited in a      *)
(* modal over the page and kept there until it is closed; a checkout posts the   *)
(* fields as they are, and the server sells the lines as they are (at the prices  *)
(* of SalePricing).                                                           *)
(*                                                                          *)
(* The form of the details has no address of its own (cart_detail.html:101): it   *)
(* posts to that of its page.  A payment that is refused is answered at the       *)
(* address of the checkout, and from there a save is a checkout.               *)
(***************************************************************************)
EXTENDS Naturals

CONSTANTS
    Modals, Others,   \* fields edited in the modal, and on the page (customer)
    Entries,          \* what a field may say
    MaxEdits          \* bound on the changes of the cart's lines

ASSUME ScreenFields == Modals \cap Others = {} /\ "none" \notin Modals \cup Others
ASSUME SomeEntry == Entries # {} /\ MaxEdits \in Nat

Fields == Modals \cup Others
Details == [Fields -> Entries]
\* The lines of the cart by their version, and the details of the sale.
Sheet == [lines : 0..MaxEdits, details : Details]
Blank == [lines |-> 0, details |-> [f \in Fields |-> CHOOSE e \in Entries : TRUE]]

VARIABLES
    saved,              \* the cart on the server
    shown,              \* the cart as the page shows it
    field, kept, modal, \* the fields, savedModalValues, the modal that is open
    blocked,            \* setCheckoutPending
    wires,              \* requests under way and their answers, by kind
    confirm, confirmed, \* the layer, and whether it was accepted on this page
    order, outcome,     \* a checkout that was posted; what was sold
    address,            \* of the page: of the cart or of its checkout
    crossed, loose      \* answers crossed or were lost; an edit was left unsaved

detailVars == <<field, kept, modal>>
checkoutVars == <<confirm, confirmed, order, outcome, address>>
counterVars == <<saved, shown, detailVars, blocked, wires, checkoutVars, crossed, loose>>

Kinds == {"adjust", "discount", "details"}
Wire == [stage : {"none", "sent", "ok", "refused", "unread"}, fields : Details, page : Sheet,
         invalid : Fields \cup {"none"}, alone : BOOLEAN]
NoWire == [stage |-> "none", fields |-> Blank.details, page |-> Blank,
           invalid |-> "none", alone |-> FALSE]
Order == [what : {"none", "pay", "quote"}, fields : Details, shown : Sheet, plain : BOOLEAN]
NoOrder == [what |-> "none", fields |-> Blank.details, shown |-> Blank, plain |-> FALSE]
Outcome == [what : {"none", "pay", "quote", "unasked"}, sold : Sheet, shown : Sheet,
            plain : BOOLEAN]
NoOutcome == [what |-> "none", sold |-> Blank, shown |-> Blank, plain |-> FALSE]

CounterTypeOK ==
    /\ saved \in Sheet /\ shown \in Sheet
    /\ field \in Details /\ kept \in [Modals -> Entries] /\ modal \in Modals \cup {"none"}
    /\ wires \in [Kinds -> Wire]
    /\ confirm \in {"closed", "open", "detached"}
    /\ {blocked, confirmed, crossed, loose} \subseteq BOOLEAN
    /\ order \in Order /\ outcome \in Outcome /\ address \in {"cart", "checkout"}

--------------------------------------------------------------------------------
UnderWay == { k \in Kinds : wires[k].stage # "none" }
Saving == "details" \in UnderWay
\* The page can be used: nothing was posted and the layer does not cover it.
Usable == order = NoOrder /\ outcome = NoOutcome /\ confirm = "closed"

KeptOf(fields) == [c \in Modals |-> fields[c]]
\* Edits in the fields of the modal that is not open any more.
LeftOver(open) == \E c \in Modals \ {open} : field[c] # kept[c]

Send(k) ==
    /\ wires' = [j \in Kinds |->
                    IF j = k THEN [NoWire EXCEPT !.stage = "sent", !.alone = UnderWay = {},
                                                 !.fields = IF k = "details" THEN field ELSE @]
                    ELSE [wires[j] EXCEPT !.alone = FALSE]]
    /\ crossed' = (crossed \/ UnderWay # {})

\* updatePos: the lines and the checkout buttons are replaced, so a button whose
\* confirmation is open is no longer part of the page.
Draw(page) ==
    /\ shown' = page /\ blocked' = FALSE
    /\ confirm' = IF confirm = "open" THEN "detached" ELSE confirm
Finished(k) == wires' = [wires EXCEPT ![k] = NoWire]
\* The answer of a request that was alone shows the cart as it is.
Redrawn(k) == Finished(k) /\ Draw(wires[k].page) /\ crossed' = (crossed /\ ~wires[k].alone)

\* The page is loaded, with these fields and perhaps a modal that has an error.
Load(fields, open, at) ==
    /\ shown' = saved' /\ field' = fields /\ kept' = KeptOf(fields) /\ modal' = open
    /\ blocked' = FALSE /\ wires' = [k \in Kinds |-> NoWire]
    /\ confirm' = "closed" /\ confirmed' = FALSE /\ order' = NoOrder
    /\ crossed' = FALSE /\ loose' = (fields # saved'.details) /\ address' = at

CounterInit ==
    /\ saved \in Sheet /\ saved.lines = 0
    /\ shown = saved /\ field = saved.details /\ kept = KeptOf(saved.details) /\ modal = "none"
    /\ blocked = FALSE /\ wires = [k \in Kinds |-> NoWire]
    /\ confirm = "closed" /\ confirmed = FALSE /\ order = NoOrder /\ outcome = NoOutcome
    /\ crossed = FALSE /\ loose = FALSE /\ address = "cart"

--------------------------------------------------------------------------------
\* A quantity button, or the discount form of an item.
Press(k) ==
    /\ Usable /\ modal = "none"
    /\ k # "details" /\ k \notin UnderWay /\ Send(k)
    /\ UNCHANGED <<saved, shown, detailVars, blocked, checkoutVars, loose>>

OpenModal(c) ==
    /\ Usable /\ modal = "none" /\ modal' = c
    /\ UNCHANGED <<saved, shown, field, kept, blocked, wires, checkoutVars, crossed, loose>>

\* A field of the modal is typed even while it is being saved.
TypeIn(f, e) ==
    /\ Usable /\ modal = IF f \in Modals THEN f ELSE "none"
    /\ e # field[f] /\ field' = [field EXCEPT ![f] = e]
    /\ loose' = (loose \/ f \in Others)
    /\ UNCHANGED <<saved, shown, kept, modal, blocked, wires, checkoutVars, crossed>>

\* closePosModal by Cancel, Escape or a click beside it.
CancelKeepingEdits ==
    /\ Usable /\ modal # "none" /\ ~Saving /\ modal' = "none"
    /\ UNCHANGED <<saved, shown, field, kept, blocked, wires, checkoutVars, crossed, loose>>
CancelModal ==
    /\ Usable /\ modal # "none" /\ ~Saving
    /\ field' = [field EXCEPT ![modal] = kept[modal]] /\ modal' = "none"
    /\ UNCHANGED <<saved, shown, kept, blocked, wires, checkoutVars, crossed, loose>>

\* savePosDetails, by the modal's button or "Save customer".
SaveForm ==
    /\ Usable /\ blocked' = TRUE
    /\ IF Saving THEN UNCHANGED <<wires, crossed>> ELSE Send("details")
    /\ UNCHANGED <<saved, shown, detailVars, checkoutVars, loose>>

\* cart_line_adjust and cart_line_discount; cart_detail saves the details.
Serve(k) ==
    /\ wires[k].stage = "sent" /\ outcome = NoOutcome
    /\ k = "details" => address = "cart"
    /\ \/ /\ IF k = "details" THEN saved' = [saved EXCEPT !.details = wires[k].fields]
             ELSE saved.lines < MaxEdits /\ saved' = [saved EXCEPT !.lines = @ + 1]
          /\ wires' = [wires EXCEPT ![k].stage = "ok", ![k].page = saved']
       \/ /\ \E bad \in IF k = "details" THEN Fields \cup {"none"} ELSE {"none"} :
                wires' = [wires EXCEPT ![k].stage = "refused", ![k].page = saved,
                                       ![k].invalid = bad]
          /\ UNCHANGED saved
    /\ UNCHANGED <<shown, detailVars, blocked, checkoutVars, crossed, loose>>

\* cart_checkout, from the page of a refused payment: the posted fields, the payment
\* among them, sell the cart.  Sold or refused, the answer is a page the script cannot
\* read: "Connection issue. Your changes were not saved; try again."
ServeSaveAsCheckout ==
    LET w == wires["details"] IN
    /\ w.stage = "sent" /\ address = "checkout" /\ outcome = NoOutcome
    /\ wires' = [wires EXCEPT !["details"].stage = "unread"]
    /\ \/ /\ saved' = [saved EXCEPT !.details = w.fields]
          /\ outcome' = [what |-> "unasked", sold |-> saved', shown |-> shown, plain |-> FALSE]
       \/ UNCHANGED <<saved, outcome>>
    /\ UNCHANGED <<shown, detailVars, blocked, confirm, confirmed, order, address, crossed, loose>>

\* A refused discount only shows why.
AnswerEdit(k) ==
    /\ k # "details" /\ wires[k].stage \in {"ok", "refused"}
    /\ IF k = "discount" /\ wires[k].stage = "refused"
       THEN Finished(k) /\ UNCHANGED <<shown, blocked, confirm, crossed>>
       ELSE Redrawn(k)
    /\ UNCHANGED <<saved, detailVars, confirmed, order, outcome, address, loose>>

\* What the fields say by now is kept, which need not be what was saved.
AnswerSaved ==
    LET w == wires["details"] IN
    /\ w.stage = "ok" /\ Redrawn("details")
    /\ kept' = KeptOf(field) /\ modal' = "none"
    /\ loose' = (w.fields # field)
    /\ UNCHANGED <<saved, field, confirmed, order, outcome, address>>

\* The modal of the first field that is wrong opens; a wrong customer closes it,
\* and neither takes the edits back.
AnswerRefused ==
    LET w == wires["details"] IN
    /\ w.stage = "refused" /\ Redrawn("details")
    /\ modal' = IF w.invalid \in Modals THEN w.invalid
                ELSE IF w.invalid \in Others THEN "none" ELSE modal
    /\ loose' = (loose \/ LeftOver(modal'))
    /\ UNCHANGED <<saved, field, kept, confirmed, order, outcome, address>>

\* The connection fails, before the request is served or after, or its answer cannot
\* be read: who waits for it cannot tell.  A request is served before its page is left, or never.
LoseAnswer(k) ==
    /\ k \in UnderWay
    /\ wires' = [wires EXCEPT ![k] = NoWire] /\ crossed' = TRUE
    /\ IF k = "details" THEN blocked' = FALSE /\ loose' = TRUE ELSE UNCHANGED <<blocked, loose>>
    /\ UNCHANGED <<saved, shown, detailVars, checkoutVars>>

--------------------------------------------------------------------------------
\* The form is posted by the browser itself.
SendOrder(what) ==
    order' = [what |-> what, fields |-> field, shown |-> shown,
              plain |-> UnderWay = {} /\ ~crossed /\ ~loose /\ modal = "none"]

\* A checkout button.  A save that is under way stops the form but not the layer,
\* which opens unless it was accepted before.
Checkout(what) ==
    /\ Usable /\ modal = "none" /\ ~blocked
    /\ IF what = "pay" /\ ~confirmed THEN confirm' = "open" /\ UNCHANGED order
       ELSE ~Saving /\ SendOrder(what) /\ UNCHANGED confirm
    /\ UNCHANGED <<saved, shown, detailVars, blocked, wires, confirmed, outcome, address, crossed, loose>>

\* requestSubmit asks the form again; it throws when its button is gone.
Accept ==
    /\ confirm # "closed" /\ order = NoOrder
    /\ confirmed' = TRUE
    /\ IF confirm = "open" /\ ~Saving THEN SendOrder("pay") ELSE UNCHANGED order
    /\ UNCHANGED <<saved, shown, detailVars, blocked, wires, confirm, outcome, address, crossed, loose>>

Dismiss ==
    /\ confirm # "closed" /\ order = NoOrder /\ confirm' = "closed"
    /\ UNCHANGED <<saved, shown, detailVars, blocked, wires, confirmed, order, outcome,
                   address, crossed, loose>>

\* cart_checkout or cart_convert: the fields that were posted are saved and the
\* cart is sold.  Refused, a payment comes back with its fields at its own address, a
\* quotation, or an invoice without the right to register payments, does not.  A cart
\* that was sold meanwhile stays as it is.
ServeOrder ==
    /\ order # NoOrder /\ outcome = NoOutcome
    /\ \/ /\ saved' = [saved EXCEPT !.details = order.fields]
          /\ outcome' = [what |-> order.what, sold |-> saved', shown |-> order.shown,
                         plain |-> order.plain]
          /\ Load(saved'.details, "none", "cart")
       \/ /\ UNCHANGED <<saved, outcome>>
          /\ \/ /\ order.what = "pay"
                /\ \E c \in Modals \cup {"none"} : Load(order.fields, c, "checkout")
             \/ Load(saved.details, "none", "cart")

\* The page is loaded again, perhaps after a line was removed or one was added on
\* the page of its serial numbers.
Return ==
    /\ outcome = NoOutcome /\ UNCHANGED outcome
    /\ \/ UNCHANGED saved
       \/ Usable /\ saved.lines < MaxEdits /\ saved' = [saved EXCEPT !.lines = @ + 1]
    /\ Load(saved'.details, "none", "cart")

CounterNext ==
    \/ \E k \in Kinds : Press(k) \/ Serve(k) \/ AnswerEdit(k) \/ LoseAnswer(k)
    \/ \E c \in Modals : OpenModal(c)
    \/ \E f \in Fields, e \in Entries : TypeIn(f, e)
    \/ CancelModal \/ SaveForm \/ ServeSaveAsCheckout \/ AnswerSaved \/ AnswerRefused
    \/ \E what \in {"pay", "quote"} : Checkout(what)
    \/ Accept \/ Dismiss \/ ServeOrder \/ Return

CounterSpec == CounterInit /\ [][CounterNext]_counterVars

--------------------------------------------------------------------------------
(* At rest the page shows the cart.  Requests that overlap and answers that are  *)
(* lost may leave an older cart on it, until a request that is alone is answered  *)
(* (updatePos).                                                               *)
RestShowsCart == UnderWay = {} /\ ~crossed => shown = saved

(* While no modal is open the fields, which a checkout posts, say what the page   *)
(* shows, and so does what Cancel would put back (closePosModal); but for edits   *)
(* that were left: of the customer, of a save that failed or was refused, or      *)
(* typed while it was under way.                                              *)
FieldsAreSaved ==
    modal = "none" /\ ~Saving /\ ~loose /\ ~crossed =>
        field = shown.details /\ kept = KeptOf(field)

(* What is sold is what the page showed when it was confirmed, unless something   *)
(* was under way, lost or left unsaved at that moment: "Create an invoice with     *)
(* the sale details shown here?" (pos_checkout.html, cart_checkout).            *)
SoldAsShown == outcome.plain => outcome.sold = outcome.shown

(* The checkout buttons come back: they are off only while the details are being  *)
(* saved (setCheckoutPending), and no checkout is posted meanwhile, though a      *)
(* redraw may have switched them on and a confirmation may have been open.       *)
CheckoutWaits == (blocked => Saving) /\ (order # NoOrder => ~Saving)

(* A payment that is posted was confirmed on its page: "Confirm full payment using  *)
(* the selected payment method?  This completes the sale and deducts stock."        *)
(* (templates/inventory/includes/pos_checkout.html:11).  What is sold unasked is     *)
(* sold from the page of a refused payment, by a save of the details alone.          *)
PaymentsAreConfirmed ==
    (order.what = "pay" => confirmed) /\ (outcome.what = "unasked" => address = "checkout")

CounterScreenIsSound ==
    /\ CounterTypeOK /\ RestShowsCart /\ FieldsAreSaved /\ SoldAsShown
    /\ CheckoutWaits /\ PaymentsAreConfirmed
================================================================================
