------------------------------ MODULE CartsProofs ------------------------------
(***************************************************************************)
(* Proofs about Carts, for any number of carts, documents, tabs and workers:  *)
(* the counter is sound, its handlers implement CounterSale, and the cleanup  *)
(* command spares every cart in use.  That it also ends the idle ones is       *)
(* liveness and left to TLC.  And about CounterScreen, its page, for any sale   *)
(* and any values of its fields.                                             *)
(***************************************************************************)
EXTENDS Carts, CounterScreen, SumsTheorems

--------------------------------------------------------------------------------
(* The inductive invariant.  A cart and its documents name each other, and a   *)
(* cart has documents exactly when it is converted; so a draft can be edited,  *)
(* dropped or deleted without touching a document, and an invoice bills lines  *)
(* that no longer change.                                                    *)

RequestsFit ==
    \A r \in Requests :
        /\ req[r].op = "open" => req[r].on \in Tokens
        /\ req[r].op = "bill" => req[r].on \in Carts /\ cart[req[r].on].quotation # None

DocNamesCart(d) ==
    /\ doc[d].kind = "none" => doc[d].status = "none"
    /\ doc[d].kind = "quotation" =>
          /\ doc[d].status \in {"draft", "converted"}
          /\ doc[d].cart \in Carts /\ cart[doc[d].cart].quotation = d
    /\ doc[d].kind = "invoice" =>
          /\ doc[d].status \in {"draft", "issued", "paid", "void"}
          /\ doc[d].cart \in Carts /\ cart[doc[d].cart].invoice = d

ReceiptOfGoods(d) ==
    /\ doc[d].deducted <=> doc[d].status = "paid"
    /\ doc[d].receipts = IF doc[d].status = "paid" THEN 1 ELSE 0

CartNamesDocs(c) ==
    /\ cart[c].quotation # None =>
          doc[cart[c].quotation].kind = "quotation" /\ doc[cart[c].quotation].cart = c
    /\ cart[c].invoice # None =>
          /\ doc[cart[c].invoice].kind = "invoice" /\ doc[cart[c].invoice].cart = c
          /\ doc[cart[c].invoice].lines = cart[c].lines
    /\ cart[c].status = "converted" <=> (cart[c].quotation # None \/ cart[c].invoice # None)

DocumentsFit ==
    /\ \A d \in Docs : DocNamesCart(d) /\ ReceiptOfGoods(d)
    /\ \A c \in Carts : CartNamesDocs(c)

Billed(p) == [d \in Docs |-> doc[d].lines[p]]
GoodsAccounted == \A p \in Products : stock[p] + SumOf(Sold, Billed(p)) = OnShelf[p]

CartInv ==
    /\ TypeOK /\ OneCartPerToken
    /\ RequestsFit /\ DocumentsFit /\ GoodsAccounted
    /\ sweep.at <= now

--------------------------------------------------------------------------------
(* What the steps do to the rows, whichever handler takes them.               *)

\* A cart without documents is changed, dropped, taken up or deleted.
Edited ==
    \E c \in Carts, row \in Cart :
        /\ <<cart[c].status, row.status>> \in
              {<<"draft", "draft">>, <<"draft", "abandoned">>, <<"draft", "deleted">>,
               <<"abandoned", "draft">>}
        /\ row.quotation = None /\ row.invoice = None
        /\ cart' = [cart EXCEPT ![c] = row]
        /\ UNCHANGED <<doc, event, stock, req>>

\* A token makes its cart.
Started ==
    \E c \in Carts, row \in Cart, t \in Tokens, r \in Requests :
        /\ cart[c].status = "none" /\ row.status = "draft"
        /\ row.quotation = None /\ row.invoice = None
        /\ \A b \in Carts : <<t, b>> \notin event
        /\ cart' = [cart EXCEPT ![c] = row]
        /\ event' = event \cup {<<t, c>>}
        /\ req' = [req EXCEPT ![r] = NoReq]
        /\ UNCHANGED <<doc, stock>>

\* A draft cart becomes a document, its goods leave if that is paid.
Documented ==
    \E c \in Carts, d \in Docs, kind \in {"quotation", "invoice"}, row \in Doc :
        /\ cart[c].status = "draft" /\ doc[d].kind = "none"
        /\ row.kind = kind /\ row.cart = c /\ row.lines = cart[c].lines
        /\ <<kind, row.status>> \in
              {<<"quotation", "draft">>, <<"invoice", "issued">>, <<"invoice", "paid">>}
        /\ row.deducted = (row.status = "paid")
        /\ row.receipts = IF row.status = "paid" THEN 1 ELSE 0
        /\ row.status = "paid" => CanTake(row.lines)
        /\ cart' = [cart EXCEPT ![c] = ConvertedTo(c, kind, d)]
        /\ doc' = [doc EXCEPT ![d] = row]
        /\ stock' = IF row.status = "paid" THEN Taken(row.lines) ELSE stock
        /\ UNCHANGED <<event, req>>

QuotationBilled == \E r \in Requests, d \in Docs : BillQuotation(r, d)

\* An unpaid invoice is issued or voided.
Restated ==
    \E d \in Docs, st \in {"issued", "void"} :
        /\ doc[d].kind = "invoice"
        /\ <<doc[d].status, st>> \in {<<"draft", "issued">>, <<"issued", "void">>}
        /\ doc' = [doc EXCEPT ![d].status = st]
        /\ UNCHANGED <<cart, event, stock, req>>

\* An issued invoice is paid and its goods leave.
PaidFor ==
    \E d \in Docs :
        /\ doc[d].kind = "invoice" /\ doc[d].status = "issued" /\ CanTake(doc[d].lines)
        /\ doc' = [doc EXCEPT ![d] = Settled(doc[d])]
        /\ stock' = Taken(doc[d].lines)
        /\ UNCHANGED <<cart, event, req>>

\* No row changes.
Looked ==
    /\ UNCHANGED <<cart, doc, event, stock>>
    /\ req' \in [Requests -> [op : {"idle", "open", "bill"}, on : Tokens \cup Carts \cup {None}]]
    /\ \A r \in Requests :
          \/ req'[r] = req[r] \/ req'[r] = NoReq
          \/ req'[r].op = "open" /\ req'[r].on \in Tokens
          \/ /\ req'[r].op = "bill" /\ req'[r].on \in Carts
             /\ cart[req'[r].on].quotation # None

LEMMA EmptyRows ==
    /\ NoLines \in Lines /\ NoCart \in Cart /\ NoDoc \in Doc
    /\ NoReq \in [op : {"idle", "open", "bill"}, on : Tokens \cup Carts \cup {None}]
  BY Shelf, Policy DEF NoLines, Lines, NoCart, Cart, NoDoc, Doc, NoReq

\* A cart that is none of these has no document.
LEMMA UnlinkedCarts ==
    ASSUME CartInv, NEW c \in Carts
    PROVE  /\ cart[c].status # "converted" =>
                cart[c].quotation = None /\ cart[c].invoice = None /\ SaleOf(c) = {}
           /\ business_linked(c) <=> cart[c].status = "converted"
           /\ SaleOf(c) \subseteq {cart[c].invoice}
<1>1. SaleOf(c) \subseteq {cart[c].invoice}
  BY DEF CartInv, DocumentsFit, DocNamesCart, SaleOf
<1>2. None \notin SaleOf(c)
  BY NullId DEF SaleOf
<1>3. CartNamesDocs(c)
  BY DEF CartInv, DocumentsFit
<1> QED BY <1>1, <1>2, <1>3 DEF CartNamesDocs, business_linked

LEMMA EditsAreEdits ==
    ASSUME CartInv, NEW c \in Carts, NEW p \in Products,
           SaveLine(c, p) \/ AdjustLine(c, p) \/ RemoveLine(c, p) \/ DiscountLine(c, p)
    PROVE  Edited
<1>1. cart[c] \in Cart /\ now \in 0..MaxTime /\ cart[c].lines \in Lines
  BY DEF CartInv, TypeOK, Cart
<1>2. PICK q \in 0..MaxQty : Draft(c) /\ SetLine(c, p, q)
  <2>1. cart[c].lines[p] \in 0..MaxQty
    BY <1>1 DEF Lines
  <2>2. \A n \in 1..MaxQty : n \in 0..MaxQty
    BY Shelf
  <2>3. cart[c].lines[p] > 0 => cart[c].lines[p] - 1 \in 0..MaxQty
    BY <2>1, Shelf
  <2>4. 0 \in 0..MaxQty
    BY Shelf
  <2> QED BY <2>1, <2>2, <2>3, <2>4 DEF SaveLine, AdjustLine, RemoveLine, DiscountLine
<1> DEFINE ls == [cart[c].lines EXCEPT ![p] = q]
           row == [cart[c] EXCEPT !.lines = ls, !.touched = now]
<1>3. ls \in Lines
  BY <1>1, <1>2 DEF Lines
<1>4. row \in Cart /\ row.status = "draft" /\ row.quotation = None /\ row.invoice = None
  <2>1. cart[c].status = "draft" /\ cart[c].quotation = None /\ cart[c].invoice = None
    BY <1>2, UnlinkedCarts DEF Draft
  <2> HIDE DEF ls
  <2> QED BY <1>1, <1>3, <2>1 DEF Cart
<1>5. cart' = [cart EXCEPT ![c] = row] /\ cart[c].status = "draft"
  BY <1>1, <1>2 DEF SetLine, Touched, Draft, Cart
<1>6. UNCHANGED <<doc, event, stock, req>>
  BY DEF SaveLine, AdjustLine, RemoveLine, DiscountLine
<1> HIDE DEF row
<1> QED BY <1>4, <1>5, <1>6 DEF Edited

LEMMA EndsAreEdits ==
    ASSUME CartInv, NEW c \in Carts, SaveDetails(c) \/ Abandon(c) \/ Restore(c)
    PROVE  Edited
<1>1. cart[c] \in Cart /\ now \in 0..MaxTime /\ 0 \in 0..MaxTime
  BY Policy DEF CartInv, TypeOK
<1>2. cart[c].status \in {"draft", "abandoned"}
  BY DEF SaveDetails, Abandon, Restore, Draft
<1>3. cart[c].quotation = None /\ cart[c].invoice = None
  BY <1>2, UnlinkedCarts
<1>4. UNCHANGED <<doc, event, stock, req>>
  BY DEF SaveDetails, Abandon, Restore
<1>5. CASE SaveDetails(c)
  <2>1. PICK filled \in BOOLEAN :
           cart' = [cart EXCEPT ![c] =
                       Touched([cart[c] EXCEPT !.details = filled /\ ~cart[c].restored])]
    BY <1>5 DEF SaveDetails
  <2> DEFINE row == Touched([cart[c] EXCEPT !.details = filled /\ ~cart[c].restored])
  <2>2. row \in Cart /\ row.status = "draft" /\ row.quotation = None /\ row.invoice = None
    BY <1>1, <1>3, <1>5 DEF SaveDetails, Draft, Touched, Cart
  <2>3. cart' = [cart EXCEPT ![c] = row] /\ cart[c].status = "draft"
    BY <1>5, <2>1 DEF SaveDetails, Draft
  <2> HIDE DEF row
  <2> QED BY <1>4, <2>2, <2>3 DEF Edited
<1>6. CASE Abandon(c)
  <2> DEFINE row == Abandoned(cart[c])
  <2>1. row \in Cart /\ row.status = "abandoned" /\ row.quotation = None /\ row.invoice = None
    BY <1>1, <1>3 DEF Abandoned, Cart
  <2>2. cart' = [cart EXCEPT ![c] = row] /\ cart[c].status = "draft"
    BY <1>6 DEF Abandon, Draft
  <2> HIDE DEF row
  <2> QED BY <1>4, <2>1, <2>2 DEF Edited
<1>7. CASE Restore(c)
  <2> DEFINE row == Touched([cart[c] EXCEPT !.status = "draft", !.restored = TRUE])
  <2>1. row \in Cart /\ row.status = "draft" /\ row.quotation = None /\ row.invoice = None
    BY <1>1, <1>3 DEF Touched, Cart
  <2>2. cart' = [cart EXCEPT ![c] = row] /\ cart[c].status = "abandoned"
    BY <1>7 DEF Restore
  <2> HIDE DEF row
  <2> QED BY <1>4, <2>1, <2>2 DEF Edited
<1> QED BY <1>5, <1>6, <1>7

LEMMA CleanupEdits ==
    ASSUME CartInv, NEW c \in Carts, CleanupCandidate(c)
    PROVE  Edited \/ UNCHANGED <<cart, doc, event, stock, req>>
<1>1. cart[c] \in Cart /\ 0 \in 0..MaxTime
  BY Policy DEF CartInv, TypeOK
<1>2. cart' = [cart EXCEPT ![c] = Verdict(c)] /\ UNCHANGED <<doc, event, stock, req>>
  BY DEF CleanupCandidate
<1>3. CASE Verdict(c) = cart[c]
  <2>1. cart \in [Carts -> Cart]
    BY DEF CartInv, TypeOK
  <2> QED BY <1>2, <1>3, <2>1
<1>4. CASE Verdict(c) # cart[c]
  <2>1. cart[c].status = "draft" /\ cart[c].quotation = None /\ cart[c].invoice = None
    <3>1. StillIdle(c)
      BY <1>4 DEF Verdict
    <3> QED BY <3>1, UnlinkedCarts DEF StillIdle, Draft
  <2>2. Verdict(c) \in {[NoCart EXCEPT !.status = "deleted"], Abandoned(cart[c])}
    BY <1>4 DEF Verdict
  <2>3. /\ Verdict(c) \in Cart /\ Verdict(c).status \in {"deleted", "abandoned"}
        /\ Verdict(c).quotation = None /\ Verdict(c).invoice = None
    <3>1. CASE Verdict(c) = [NoCart EXCEPT !.status = "deleted"]
      BY <3>1, EmptyRows DEF NoCart, Cart
    <3>2. CASE Verdict(c) = Abandoned(cart[c])
      BY <1>1, <2>1, <3>2 DEF Abandoned, Cart
    <3> QED BY <2>2, <3>1, <3>2
  <2> QED BY <1>2, <2>1, <2>3 DEF Edited
<1> QED BY <1>3, <1>4

LEMMA SettledRow ==
    ASSUME NEW x \in Doc
    PROVE  /\ Settled(x) \in Doc /\ Settled(x).kind = x.kind /\ Settled(x).cart = x.cart
           /\ Settled(x).lines = x.lines /\ Settled(x).status = "paid"
           /\ Settled(x).deducted = TRUE /\ Settled(x).receipts = x.receipts + 1
<1>1. x.receipts + 1 \in Nat
  BY DEF Doc
<1> DEFINE n == x.receipts + 1
           y == [x EXCEPT !.status = "paid", !.receipts = n, !.deducted = TRUE]
<1>2. Settled(x) = y
  BY DEF Settled
<1> HIDE DEF n
<1>3. /\ y \in Doc /\ y.kind = x.kind /\ y.cart = x.cart /\ y.lines = x.lines
      /\ y.status = "paid" /\ y.receipts = n
  BY <1>1 DEF Doc, n
<1>4. y.deducted = TRUE
  BY Zenon DEF Doc
<1> QED BY <1>2, <1>3, <1>4 DEF n

LEMMA ConversionsDocument ==
    ASSUME CartInv, NEW c \in Carts, NEW d \in Docs,
           \/ Convert(c, "invoice", d) \/ Convert(c, "quotation", d) \/ CheckoutDraft(c, d)
    PROVE  Documented
<1>1. cart[c] \in Cart /\ cart[c].lines \in Lines /\ NoDoc \in Doc
  BY EmptyRows DEF CartInv, TypeOK, Cart
<1>2. cart[c].status = "draft" /\ doc[d].kind = "none"
  BY DEF Convert, CheckoutDraft, Convertible, Draft, NextDoc
<1>3. \A kind \in {"quotation", "invoice"}, st \in {"draft", "issued"} :
        LET row == DocOf(c, kind, st) IN
        /\ row \in Doc /\ row.kind = kind /\ row.status = st /\ row.cart = c
        /\ row.lines = cart[c].lines /\ row.deducted = FALSE /\ row.receipts = 0
  BY <1>1 DEF DocOf, NoDoc, Doc
<1>4. CASE Convert(c, "invoice", d)
  <2>1. /\ doc' = [doc EXCEPT ![d] = DocOf(c, "invoice", "issued")]
        /\ cart' = [cart EXCEPT ![c] = ConvertedTo(c, "invoice", d)]
        /\ UNCHANGED <<event, stock, req>>
    BY <1>4 DEF Convert
  <2> QED BY <1>2, <1>3, <2>1 DEF Documented
<1>5. CASE Convert(c, "quotation", d)
  <2>1. /\ doc' = [doc EXCEPT ![d] = DocOf(c, "quotation", "draft")]
        /\ cart' = [cart EXCEPT ![c] = ConvertedTo(c, "quotation", d)]
        /\ UNCHANGED <<event, stock, req>>
    BY <1>5 DEF Convert
  <2> QED BY <1>2, <1>3, <2>1 DEF Documented
<1>6. CASE CheckoutDraft(c, d)
  <2> DEFINE row == Settled(DocOf(c, "invoice", "issued"))
  <2>1. /\ row \in Doc /\ row.kind = "invoice" /\ row.status = "paid" /\ row.cart = c
        /\ row.lines = cart[c].lines /\ row.deducted = TRUE /\ row.receipts = 1
    <3> DEFINE old == DocOf(c, "invoice", "issued")
    <3>1. /\ old \in Doc /\ old.kind = "invoice" /\ old.cart = c /\ old.lines = cart[c].lines
          /\ old.receipts = 0
      BY <1>3
    <3> HIDE DEF old
    <3>2. /\ Settled(old) \in Doc /\ Settled(old).kind = "invoice" /\ Settled(old).status = "paid"
          /\ Settled(old).cart = c /\ Settled(old).lines = cart[c].lines
          /\ Settled(old).deducted = TRUE /\ Settled(old).receipts = old.receipts + 1
      BY <3>1, SettledRow, Zenon
    <3>3. old.receipts + 1 = 1
      BY <3>1
    <3>4. row = Settled(old)
      BY DEF old
    <3> HIDE DEF row
    <3> QED BY <3>2, <3>3, <3>4, Zenon
  <2>2. /\ doc' = [doc EXCEPT ![d] = row] /\ CanTake(cart[c].lines)
        /\ cart' = [cart EXCEPT ![c] = ConvertedTo(c, "invoice", d)]
        /\ stock' = Taken(cart[c].lines)
        /\ UNCHANGED <<event, req>>
    BY <1>6 DEF CheckoutDraft
  <2> HIDE DEF row
  <2> QED BY <1>2, <2>1, <2>2 DEF Documented
<1> QED BY <1>4, <1>5, <1>6

LEMMA SalesPay ==
    ASSUME CartInv
    PROVE  /\ \A d \in Docs : Pay(d) => PaidFor
           /\ \A c \in Carts : CheckoutBilled(c) => PaidFor
           /\ \A d \in Docs : Issue(d) \/ Void(d) => Restated
<1>1. ASSUME NEW d \in Docs, Pay(d) PROVE PaidFor
  BY <1>1 DEF Pay, Payable, PaidFor
<1>2. ASSUME NEW c \in Carts, CheckoutBilled(c) PROVE PaidFor
  <2> DEFINE d == cart[c].invoice
  <2>1. d \in Docs /\ doc[d].kind = "invoice"
    BY <1>2 DEF CheckoutBilled, CartInv, TypeOK, Cart, DocumentsFit, CartNamesDocs
  <2>2. /\ doc[d].status = "issued" /\ CanTake(doc[d].lines)
        /\ doc' = [doc EXCEPT ![d] = Settled(doc[d])] /\ stock' = Taken(doc[d].lines)
        /\ UNCHANGED <<cart, event, req>>
    BY <1>2 DEF CheckoutBilled, Payable
  <2> HIDE DEF d
  <2> QED BY <2>1, <2>2 DEF PaidFor
<1>3. ASSUME NEW d \in Docs, Issue(d) \/ Void(d) PROVE Restated
  <2>1. doc[d].kind = "invoice"
    <3>1. DocNamesCart(d) /\ doc[d] \in Doc
      BY DEF CartInv, DocumentsFit, TypeOK
    <3> QED BY <1>3, <3>1 DEF Issue, Void, DocNamesCart, Doc
  <2> QED BY <1>3, <2>1 DEF Issue, Void, Restated
<1> QED BY <1>1, <1>2, <1>3

LEMMA RequestsStart ==
    ASSUME CartInv, NEW r \in Requests,
           \/ \E t \in Tokens : OpenWorkspace(r, t)
           \/ Materialize(r) \/ Forget(r)
           \/ \E c \in Carts : ReadQuotation(r, c)
    PROVE  Started \/ Looked
<1> DEFINE Request == [op : {"idle", "open", "bill"}, on : Tokens \cup Carts \cup {None}]
<1>1. req \in [Requests -> Request] /\ NoReq \in Request
  BY EmptyRows DEF CartInv, TypeOK
<1>2. ASSUME UNCHANGED <<cart, doc, event, stock>>, NEW new \in Request,
             req' = [req EXCEPT ![r] = new],
             \/ new = NoReq
             \/ new.op = "open" /\ new.on \in Tokens
             \/ new.op = "bill" /\ new.on \in Carts /\ cart[new.on].quotation # None
      PROVE  Looked
  <2> SUFFICES ASSUME NEW q \in Requests
               PROVE  \/ req'[q] = req[q] \/ req'[q] = NoReq
                      \/ req'[q].op = "open" /\ req'[q].on \in Tokens
                      \/ /\ req'[q].op = "bill" /\ req'[q].on \in Carts
                         /\ cart[req'[q].on].quotation # None
    BY <1>1, <1>2 DEF Looked
  <2> QED BY <1>1, <1>2
<1>3. ASSUME NEW t \in Tokens, OpenWorkspace(r, t) PROVE Looked
  <2> DEFINE new == [op |-> "open", on |-> t]
  <2>1. new \in Request /\ new.op = "open" /\ new.on = t
    OBVIOUS
  <2> HIDE DEF Request, new
  <2> QED BY <1>2, <1>3, <2>1 DEF OpenWorkspace, new
<1>4. ASSUME NEW c \in Carts, ReadQuotation(r, c) PROVE Looked
  <2> DEFINE new == [op |-> "bill", on |-> c]
  <2>1. new \in Request /\ new.op = "bill" /\ new.on = c
    OBVIOUS
  <2> HIDE DEF Request, new
  <2> QED BY <1>2, <1>4, <2>1 DEF ReadQuotation, new
<1>5. ASSUME Forget(r) PROVE Looked
  <2> HIDE DEF Request
  <2> QED BY <1>1, <1>2, <1>5 DEF Forget
<1>6. ASSUME Materialize(r), ~Looked PROVE Started
  <2>1. ~Materialized(req[r].on) /\ req[r].on \in Tokens
    <3> HIDE DEF Request
    <3>1. req[r].on \in Tokens
      BY <1>6 DEF Materialize, CartInv, RequestsFit
    <3> QED BY <1>1, <1>2, <1>6, <3>1 DEF Materialize
  <2>2. PICK c \in Carts, ls \in Lines :
           /\ NextCart(c)
           /\ cart' = [cart EXCEPT ![c] = [NoCart EXCEPT !.status = "draft", !.lines = ls,
                                             !.details = (ls = NoLines), !.touched = now]]
           /\ event' = event \cup {<<req[r].on, c>>}
    BY <1>6, <2>1 DEF Materialize
  <2> DEFINE row == [NoCart EXCEPT !.status = "draft", !.lines = ls,
                                   !.details = (ls = NoLines), !.touched = now]
  <2>3. /\ row \in Cart /\ row.status = "draft" /\ row.quotation = None /\ row.invoice = None
    <3>1. now \in 0..MaxTime
      BY DEF CartInv, TypeOK
    <3> QED BY <3>1, EmptyRows DEF NoCart, Cart
  <2>4. cart[c].status = "none" /\ cart' = [cart EXCEPT ![c] = row]
    BY <2>2 DEF NextCart
  <2>5. /\ req' = [req EXCEPT ![r] = NoReq] /\ UNCHANGED <<doc, stock>>
    BY <1>6 DEF Materialize
  <2> HIDE DEF row
  <2> QED BY <2>1, <2>2, <2>3, <2>4, <2>5 DEF Started, Materialized
<1> QED BY <1>3, <1>4, <1>5, <1>6

LEMMA KindsOfSteps ==
    ASSUME CartInv, [Next]_vars
    PROVE  Edited \/ Started \/ Documented \/ QuotationBilled \/ Restated \/ PaidFor \/ Looked
<1>1. ASSUME UNCHANGED <<cart, doc, event, stock, req>> PROVE Looked
  BY <1>1 DEF Looked, CartInv, TypeOK
<1>2. ASSUME NEW c \in Carts, CartStep(c) PROVE Edited \/ Documented \/ PaidFor
  BY <1>2, EditsAreEdits, EndsAreEdits, ConversionsDocument, SalesPay DEF CartStep
<1>3. ASSUME NEW r \in Requests, RequestStep(r) PROVE Started \/ Looked \/ QuotationBilled
  BY <1>3, RequestsStart DEF RequestStep, QuotationBilled
<1>4. ASSUME NEW d \in Docs, Issue(d) \/ Pay(d) \/ Void(d) PROVE Restated \/ PaidFor
  BY <1>4, SalesPay
<1>5. ASSUME NEW c \in Carts, CleanupCandidate(c) PROVE Edited \/ Looked
  BY <1>1, <1>5, CleanupEdits
<1>6. CASE StartSweep \/ Tick \/ UNCHANGED vars
  BY <1>1, <1>6 DEF StartSweep, Tick, vars
<1> QED BY <1>2, <1>3, <1>4, <1>5, <1>6 DEF Next

--------------------------------------------------------------------------------
(* Each kind of step keeps the invariant.                                     *)

RowTypes ==
    /\ cart \in [Carts -> Cart]
    /\ doc \in [Docs -> Doc]
    /\ event \subseteq Tokens \X Carts
    /\ stock \in [Products -> Nat]
    /\ req \in [Requests -> [op : {"idle", "open", "bill"}, on : Tokens \cup Carts \cup {None}]]

RowsFit == RowTypes /\ OneCartPerToken /\ RequestsFit /\ DocumentsFit /\ GoodsAccounted

LEMMA RowsOfInv == CartInv => RowsFit
  BY DEF CartInv, TypeOK, RowsFit, RowTypes

LEMMA GoodsStay ==
    ASSUME RowsFit, stock' = stock, Sold' = Sold, \A d \in Sold : doc'[d].lines = doc[d].lines
    PROVE  GoodsAccounted'
<1> SUFFICES ASSUME NEW p \in Products
             PROVE  stock'[p] + SumOf(Sold, Billed(p)') = OnShelf[p]
  BY DEF GoodsAccounted
<1>1. \A d \in Sold : Billed(p)[d] = Billed(p)'[d]
  BY DEF Billed, Sold
<1>2. SumOf(Sold, Billed(p)) = SumOf(Sold, Billed(p)')
  BY <1>1, SumAgree
<1> QED BY <1>2 DEF RowsFit, GoodsAccounted

LEMMA GoodsLeave ==
    ASSUME RowsFit, NEW d \in Docs, d \notin Sold, Sold' = Sold \cup {d}, NEW ls \in Lines,
           doc'[d].lines = ls, \A e \in Sold : doc'[e].lines = doc[e].lines,
           CanTake(ls), stock' = Taken(ls)
    PROVE  GoodsAccounted' /\ stock' \in [Products -> Nat]
<1>1. \A p \in Products : ls[p] \in Nat /\ stock[p] \in Nat /\ ls[p] <= stock[p]
                        /\ stock'[p] = stock[p] - ls[p]
  BY Shelf DEF Lines, RowsFit, RowTypes, CanTake, Taken
<1>2. stock' \in [Products -> Nat]
  BY <1>1 DEF Taken
<1> SUFFICES ASSUME NEW p \in Products
             PROVE  stock'[p] + SumOf(Sold \cup {d}, Billed(p)') = OnShelf[p]
  BY <1>2 DEF GoodsAccounted
<1>3. IsFiniteSet(Sold) /\ Sold \subseteq Docs
  BY Rows, FS_Subset DEF Sold
<1>4. \A e \in Sold : Billed(p)[e] = Billed(p)'[e] /\ Billed(p)'[e] \in Nat
  <2> SUFFICES ASSUME NEW e \in Sold
               PROVE  Billed(p)[e] = Billed(p)'[e] /\ Billed(p)'[e] \in Nat
    OBVIOUS
  <2>1. e \in Docs /\ doc[e].lines \in Lines
    BY <1>3 DEF RowsFit, RowTypes, Doc
  <2>2. doc[e].lines[p] \in Nat
    BY <2>1, Shelf DEF Lines
  <2> QED BY <2>1, <2>2 DEF Billed
<1>5. Billed(p)'[d] = ls[p]
  BY DEF Billed
<1>6. SumOf(Sold \cup {d}, Billed(p)') = SumOf(Sold, Billed(p)') + ls[p]
  <2> DEFINE g == Billed(p)'
             S == Sold
  <2>1. /\ g[d] \in Nat /\ g[d] = ls[p] /\ \A e \in S : g[e] \in Nat
        /\ IsFiniteSet(S) /\ d \notin S
    BY <1>1, <1>3, <1>4, <1>5
  <2> HIDE DEF g, S
  <2>2. SumOf(S \cup {d}, g) = SumOf(S, g) + g[d]
    BY <2>1, SumAdd
  <2> QED BY <2>1, <2>2 DEF g, S
<1>7. SumOf(Sold, Billed(p)') = SumOf(Sold, Billed(p)) /\ SumOf(Sold, Billed(p)) \in Nat
  BY <1>3, <1>4, SumAgree, SumType
<1>8. stock[p] + SumOf(Sold, Billed(p)) = OnShelf[p]
  BY DEF RowsFit, GoodsAccounted
<1> HIDE DEF Billed
<1> QED BY <1>1, <1>6, <1>7, <1>8

LEMMA EditedStep == CartInv /\ Edited => RowsFit'
<1> SUFFICES ASSUME CartInv, Edited PROVE RowsFit'
  OBVIOUS
<1>0. RowsFit
  BY RowsOfInv
<1>1. PICK c \in Carts, row \in Cart :
        /\ cart[c].status \in {"draft", "abandoned"}
        /\ row.status \in {"draft", "abandoned", "deleted"}
        /\ row.quotation = None /\ row.invoice = None
        /\ cart' = [cart EXCEPT ![c] = row]
        /\ UNCHANGED <<doc, event, stock, req>>
  BY DEF Edited
<1>2. cart[c].quotation = None /\ cart[c].invoice = None
  BY <1>1, UnlinkedCarts
<1>3. /\ cart'[c] = row /\ \A b \in Carts : b # c => cart'[b] = cart[b]
      /\ \A b \in Carts : /\ cart'[b].quotation = cart[b].quotation
                          /\ cart'[b].invoice = cart[b].invoice
  BY <1>0, <1>1, <1>2 DEF RowsFit, RowTypes
<1>4. RowTypes'
  BY <1>0, <1>1 DEF RowsFit, RowTypes
<1>5. OneCartPerToken'
  <2>1. \A b \in Carts : cart'[b].status # "none" => cart[b].status # "none"
    BY <1>1, <1>3
  <2> QED BY <1>0, <1>1, <2>1 DEF RowsFit, OneCartPerToken
<1>6. RequestsFit'
  BY <1>0, <1>1, <1>3 DEF RowsFit, RequestsFit
<1>7. DocumentsFit'
  <2>1. ASSUME NEW d \in Docs PROVE DocNamesCart(d)' /\ ReceiptOfGoods(d)'
    BY <1>0, <1>1, <1>3 DEF RowsFit, DocumentsFit, DocNamesCart, ReceiptOfGoods
  <2>2. ASSUME NEW b \in Carts PROVE CartNamesDocs(b)'
    BY <1>0, <1>1, <1>2, <1>3 DEF RowsFit, DocumentsFit, CartNamesDocs
  <2> QED BY <2>1, <2>2 DEF DocumentsFit
<1>8. GoodsAccounted'
  BY <1>0, <1>1, GoodsStay DEF Sold
<1> QED BY <1>4, <1>5, <1>6, <1>7, <1>8 DEF RowsFit

LEMMA StartedStep == CartInv /\ Started => RowsFit'
<1> SUFFICES ASSUME CartInv, Started PROVE RowsFit'
  OBVIOUS
<1>0. RowsFit
  BY RowsOfInv
<1>1. PICK c \in Carts, row \in Cart, t \in Tokens, r \in Requests :
        /\ cart[c].status = "none" /\ row.status = "draft"
        /\ row.quotation = None /\ row.invoice = None
        /\ \A b \in Carts : <<t, b>> \notin event
        /\ cart' = [cart EXCEPT ![c] = row]
        /\ event' = event \cup {<<t, c>>}
        /\ req' = [req EXCEPT ![r] = NoReq]
        /\ UNCHANGED <<doc, stock>>
  BY DEF Started
<1>2. cart[c].quotation = None /\ cart[c].invoice = None
  BY <1>1, UnlinkedCarts
<1>3. /\ cart'[c] = row /\ \A b \in Carts : b # c => cart'[b] = cart[b]
      /\ \A b \in Carts : /\ cart'[b].quotation = cart[b].quotation
                          /\ cart'[b].invoice = cart[b].invoice
  BY <1>0, <1>1, <1>2 DEF RowsFit, RowTypes
<1>4. RowTypes'
  BY <1>0, <1>1, EmptyRows DEF RowsFit, RowTypes
<1>5. OneCartPerToken'
  <2>1. \A a \in event : a[1] # t
    BY <1>0, <1>1 DEF RowsFit, RowTypes
  <2>2. \A a, b \in event' : a[1] = b[1] => a = b
    BY <1>0, <1>1, <2>1 DEF RowsFit, OneCartPerToken
  <2>3. \A b \in Carts : cart'[b].status # "none" => \E u \in Tokens : <<u, b>> \in event'
    BY <1>0, <1>1, <1>3 DEF RowsFit, OneCartPerToken
  <2> QED BY <2>2, <2>3 DEF OneCartPerToken
<1>6. RequestsFit'
  <2>1. \A q \in Requests : req'[q] = req[q] \/ req'[q].op = "idle"
    BY <1>0, <1>1 DEF RowsFit, RowTypes, NoReq
  <2> QED BY <1>0, <1>3, <2>1 DEF RowsFit, RequestsFit
<1>7. DocumentsFit'
  <2>1. ASSUME NEW d \in Docs PROVE DocNamesCart(d)' /\ ReceiptOfGoods(d)'
    BY <1>0, <1>1, <1>3 DEF RowsFit, DocumentsFit, DocNamesCart, ReceiptOfGoods
  <2>2. ASSUME NEW b \in Carts PROVE CartNamesDocs(b)'
    BY <1>0, <1>1, <1>2, <1>3 DEF RowsFit, DocumentsFit, CartNamesDocs
  <2> QED BY <2>1, <2>2 DEF DocumentsFit
<1>8. GoodsAccounted'
  BY <1>0, <1>1, GoodsStay DEF Sold
<1> QED BY <1>4, <1>5, <1>6, <1>7, <1>8 DEF RowsFit

LEMMA LookedStep == CartInv /\ Looked => RowsFit'
<1> SUFFICES ASSUME CartInv, Looked PROVE RowsFit'
  OBVIOUS
<1>0. RowsFit
  BY RowsOfInv
<1>1. RowTypes' /\ UNCHANGED <<cart, doc, stock, event>>
  BY <1>0 DEF Looked, RowsFit, RowTypes
<1>4. OneCartPerToken'
  BY <1>0, <1>1 DEF RowsFit, OneCartPerToken
<1>5. DocumentsFit'
  BY <1>0, <1>1 DEF RowsFit, DocumentsFit, DocNamesCart, ReceiptOfGoods, CartNamesDocs
<1>2. RequestsFit'
  BY <1>0 DEF Looked, RowsFit, RequestsFit, NoReq
<1>3. GoodsAccounted'
  BY <1>0, <1>1, GoodsStay DEF Sold
<1> QED BY <1>1, <1>2, <1>3, <1>4, <1>5 DEF RowsFit

LEMMA DocumentedStep == CartInv /\ Documented => RowsFit'
<1> SUFFICES ASSUME CartInv, Documented PROVE RowsFit'
  OBVIOUS
<1>0. RowsFit /\ cart \in [Carts -> Cart] /\ doc \in [Docs -> Doc]
  BY RowsOfInv DEF RowsFit, RowTypes
<1>1. PICK c \in Carts, d \in Docs, kind \in {"quotation", "invoice"}, row \in Doc :
        /\ cart[c].status = "draft" /\ doc[d].kind = "none"
        /\ row.kind = kind /\ row.cart = c /\ row.lines = cart[c].lines
        /\ <<kind, row.status>> \in
              {<<"quotation", "draft">>, <<"invoice", "issued">>, <<"invoice", "paid">>}
        /\ row.deducted = (row.status = "paid")
        /\ row.receipts = IF row.status = "paid" THEN 1 ELSE 0
        /\ row.status = "paid" => CanTake(row.lines)
        /\ cart' = [cart EXCEPT ![c] = ConvertedTo(c, kind, d)]
        /\ doc' = [doc EXCEPT ![d] = row]
        /\ stock' = IF row.status = "paid" THEN Taken(row.lines) ELSE stock
        /\ UNCHANGED <<event, req>>
  BY DEF Documented
<1>2. cart[c].quotation = None /\ cart[c].invoice = None
  BY <1>1, UnlinkedCarts
<1>3. /\ cart'[c] \in Cart /\ cart'[c].status = "converted" /\ cart'[c].lines = cart[c].lines
      /\ cart'[c].quotation = IF kind = "quotation" THEN d ELSE None
      /\ cart'[c].invoice = IF kind = "invoice" THEN d ELSE None
      /\ \A b \in Carts : b # c => cart'[b] = cart[b]
  <2> DEFINE new == ConvertedTo(c, kind, d)
  <2>1. /\ new \in Cart /\ new.status = "converted" /\ new.lines = cart[c].lines
        /\ new.quotation = IF kind = "quotation" THEN d ELSE None
        /\ new.invoice = IF kind = "invoice" THEN d ELSE None
    <3> DEFINE qt == IF kind = "quotation" THEN d ELSE None
               inv == IF kind = "invoice" THEN d ELSE None
    <3>1. /\ cart[c] \in Cart /\ 0 \in 0..MaxTime
          /\ qt \in Docs \cup {None} /\ inv \in Docs \cup {None}
      BY <1>0, Policy
    <3>2. new = [cart[c] EXCEPT !.status = "converted", !.details = FALSE, !.touched = 0,
                                !.quotation = qt, !.invoice = inv]
      BY DEF ConvertedTo
    <3> HIDE DEF new, qt, inv
    <3>3. /\ new \in Cart /\ new.status = "converted" /\ new.lines = cart[c].lines
          /\ new.quotation = qt /\ new.invoice = inv
      BY <3>1, <3>2 DEF Cart
    <3> QED BY <3>3 DEF qt, inv
  <2> HIDE DEF new
  <2>2. cart' = [cart EXCEPT ![c] = new]
    BY <1>1 DEF new
  <2> QED BY <1>0, <2>1, <2>2
<1>4. doc'[d] = row /\ \A e \in Docs : e # d => doc'[e] = doc[e]
  BY <1>0, <1>1
<1>5. OneCartPerToken'
  BY <1>0, <1>1, <1>3 DEF RowsFit, OneCartPerToken
<1>6. RequestsFit'
  BY <1>0, <1>1, <1>2, <1>3 DEF RowsFit, RequestsFit
<1>7. DocumentsFit'
  <2>1. ASSUME NEW e \in Docs PROVE DocNamesCart(e)' /\ ReceiptOfGoods(e)'
    <3>1. CASE e = d
      <4>1. DocNamesCart(e)'
        BY <1>1, <1>3, <1>4, <3>1 DEF DocNamesCart
      <4>2. ReceiptOfGoods(e)'
        <5>1. doc'[e] = row
          BY <1>4, <3>1
        <5>2. row.deducted <=> row.status = "paid"
          BY <1>1
        <5>3. row.receipts = IF row.status = "paid" THEN 1 ELSE 0
          BY <1>1
        <5> QED BY <5>1, <5>2, <5>3, Zenon DEF ReceiptOfGoods
      <4> QED BY <4>1, <4>2
    <3>2. CASE e # d
      <4>1. DocNamesCart(e) /\ ReceiptOfGoods(e) /\ doc'[e] = doc[e]
        BY <1>0, <1>4, <3>2 DEF RowsFit, DocumentsFit
      <4>2. doc[e].kind \in {"quotation", "invoice"} => doc[e].cart # c
        BY <1>2, <4>1, NullId DEF DocNamesCart
      <4> QED BY <1>3, <4>1, <4>2 DEF DocNamesCart, ReceiptOfGoods
    <3> QED BY <3>1, <3>2
  <2>2. ASSUME NEW b \in Carts PROVE CartNamesDocs(b)'
    <3>1. CASE b = c
      BY <1>1, <1>3, <1>4, <3>1, NullId DEF CartNamesDocs
    <3>2. CASE b # c
      <4>1. CartNamesDocs(b) /\ cart'[b] = cart[b]
        BY <1>0, <1>3, <3>2 DEF RowsFit, DocumentsFit
      <4>2. cart[b].quotation \in Docs \cup {None} /\ cart[b].invoice \in Docs \cup {None}
        BY <1>0 DEF Cart
      <4>3. /\ cart[b].quotation # None => doc'[cart[b].quotation] = doc[cart[b].quotation]
            /\ cart[b].invoice # None => doc'[cart[b].invoice] = doc[cart[b].invoice]
        BY <1>1, <1>4, <4>1, <4>2 DEF CartNamesDocs
      <4> QED BY <4>1, <4>3 DEF CartNamesDocs
    <3> QED BY <3>1, <3>2
  <2> QED BY <2>1, <2>2 DEF DocumentsFit
<1>8. d \notin Sold /\ \A e \in Sold : doc'[e] = doc[e]
  <2>1. ~doc[d].deducted
    BY <1>0, <1>1 DEF RowsFit, DocumentsFit, DocNamesCart, ReceiptOfGoods
  <2> QED BY <1>4, <2>1 DEF Sold
<1>9. GoodsAccounted' /\ stock' \in [Products -> Nat]
  <2>1. CASE row.status = "paid"
    <3>1. Sold' = Sold \cup {d}
      BY <1>1, <1>4, <2>1 DEF Sold
    <3>2. row.lines \in Lines
      BY DEF Doc
    <3> QED BY <1>0, <1>1, <1>4, <1>8, <2>1, <3>1, <3>2, GoodsLeave
  <2>2. CASE row.status # "paid"
    <3>1. Sold' = Sold
      BY <1>1, <1>4, <1>8, <2>2 DEF Sold
    <3> QED BY <1>0, <1>1, <1>8, <2>2, <3>1, GoodsStay DEF RowsFit, RowTypes
  <2> QED BY <2>1, <2>2
<1>10. RowTypes'
  <2>1. cart' \in [Carts -> Cart]
    BY <1>0, <1>1, <1>3
  <2> QED BY <1>0, <1>1, <1>9, <2>1 DEF RowsFit, RowTypes
<1> QED BY <1>5, <1>6, <1>7, <1>9, <1>10 DEF RowsFit

LEMMA BilledStep == CartInv /\ QuotationBilled => RowsFit'
<1> SUFFICES ASSUME CartInv, NEW r \in Requests, NEW d \in Docs, BillQuotation(r, d)
             PROVE  RowsFit'
  BY DEF QuotationBilled
<1> DEFINE c == req[r].on
           q == cart[c].quotation
           row == DocOf(c, "invoice", "draft")
<1>0. RowsFit /\ cart \in [Carts -> Cart] /\ doc \in [Docs -> Doc]
  BY RowsOfInv DEF RowsFit, RowTypes
<1>1. /\ req[r].op = "bill" /\ doc[d].kind = "none" /\ SaleOf(c) = {}
      /\ doc' = [doc EXCEPT ![d] = row, ![q].status = "converted"]
      /\ cart' = [cart EXCEPT ![c].invoice = d]
      /\ req' = [req EXCEPT ![r] = NoReq]
      /\ UNCHANGED <<event, stock>>
  BY DEF BillQuotation, NextDoc, OneSalePerCart
<1>2. c \in Carts /\ q # None /\ q \in Docs /\ CartNamesDocs(c) /\ cart[c].invoice \in Docs \cup {None}
  BY <1>0, <1>1 DEF RowsFit, RequestsFit, DocumentsFit, Cart
<1>3. /\ doc[q].kind = "quotation" /\ doc[q].cart = c /\ cart[c].status = "converted" /\ q # d
      /\ cart[c].invoice = None
  BY <1>1, <1>2 DEF CartNamesDocs, SaleOf
<1>4. /\ row \in Doc /\ row.kind = "invoice" /\ row.status = "draft" /\ row.cart = c
      /\ row.lines = cart[c].lines /\ row.deducted = FALSE /\ row.receipts = 0
  BY <1>0, <1>2, EmptyRows DEF DocOf, NoDoc, Doc, Cart
<1> HIDE DEF c, q, row
<1>5. /\ doc'[d] = row /\ doc'[q] = [doc[q] EXCEPT !.status = "converted"]
      /\ \A e \in Docs : e # d /\ e # q => doc'[e] = doc[e]
      /\ doc' \in [Docs -> Doc]
  <2>1. [doc[q] EXCEPT !.status = "converted"] \in Doc
    BY <1>0, <1>2 DEF Doc
  <2> QED BY <1>0, <1>1, <1>2, <1>3, <1>4, <2>1
<1>6. /\ doc'[q].kind = "quotation" /\ doc'[q].cart = c /\ doc'[q].status = "converted"
      /\ doc'[q].lines = doc[q].lines /\ doc'[q].receipts = doc[q].receipts
      /\ doc'[q].deducted = doc[q].deducted
  BY <1>0, <1>2, <1>3, <1>5 DEF Doc
<1>7. /\ cart'[c] = [cart[c] EXCEPT !.invoice = d] /\ cart' \in [Carts -> Cart]
      /\ \A b \in Carts : b # c => cart'[b] = cart[b]
  BY <1>0, <1>1, <1>2 DEF Cart
<1>8. /\ cart'[c].invoice = d /\ cart'[c].quotation = q /\ cart'[c].status = "converted"
      /\ cart'[c].lines = cart[c].lines
  BY <1>0, <1>2, <1>3, <1>7 DEF Cart, q
<1>9. \A b \in Carts : cart'[b].quotation = cart[b].quotation /\ cart'[b].status = cart[b].status
  BY <1>3, <1>7, <1>8 DEF q
<1>10. OneCartPerToken'
  BY <1>0, <1>1, <1>9 DEF RowsFit, OneCartPerToken
<1>11. RequestsFit'
  <2>1. \A p \in Requests : req'[p] = req[p] \/ req'[p].op = "idle"
    BY <1>0, <1>1 DEF RowsFit, RowTypes, NoReq
  <2> QED BY <1>0, <1>9, <2>1 DEF RowsFit, RequestsFit
<1>12. ~doc[q].deducted /\ ~doc[d].deducted /\ doc[q].receipts = 0
  <2>1. DocNamesCart(q) /\ ReceiptOfGoods(q) /\ DocNamesCart(d) /\ ReceiptOfGoods(d)
    BY <1>0, <1>2 DEF RowsFit, DocumentsFit
  <2> QED BY <1>1, <1>3, <2>1 DEF DocNamesCart, ReceiptOfGoods
<1>13. DocumentsFit'
  <2>1. ASSUME NEW e \in Docs PROVE DocNamesCart(e)' /\ ReceiptOfGoods(e)'
    <3>1. CASE e = d
      BY <1>2, <1>4, <1>5, <1>8, <3>1 DEF DocNamesCart, ReceiptOfGoods
    <3>2. CASE e = q
      BY <1>2, <1>6, <1>8, <1>12, <3>2 DEF DocNamesCart, ReceiptOfGoods
    <3>3. CASE e # d /\ e # q
      <4>1. DocNamesCart(e) /\ ReceiptOfGoods(e) /\ doc'[e] = doc[e]
        BY <1>0, <1>5, <3>3 DEF RowsFit, DocumentsFit
      <4>2. doc[e].kind = "invoice" => doc[e].cart # c
        BY <1>3, <4>1, NullId DEF DocNamesCart
      <4> QED BY <1>7, <1>9, <4>1, <4>2 DEF DocNamesCart, ReceiptOfGoods
    <3> QED BY <3>1, <3>2, <3>3
  <2>2. ASSUME NEW b \in Carts PROVE CartNamesDocs(b)'
    <3>1. CASE b = c
      BY <1>2, <1>4, <1>5, <1>6, <1>8, <3>1 DEF CartNamesDocs
    <3>2. CASE b # c
      <4>1. CartNamesDocs(b) /\ cart'[b] = cart[b]
        BY <1>0, <1>7, <3>2 DEF RowsFit, DocumentsFit
      <4>2. cart[b].quotation \in Docs \cup {None} /\ cart[b].invoice \in Docs \cup {None}
        BY <1>0 DEF Cart
      <4>3. /\ cart[b].quotation # None => doc'[cart[b].quotation] = doc[cart[b].quotation]
            /\ cart[b].invoice # None => doc'[cart[b].invoice] = doc[cart[b].invoice]
        BY <1>1, <1>3, <1>5, <3>2, <4>1, <4>2 DEF CartNamesDocs
      <4> QED BY <4>1, <4>3 DEF CartNamesDocs
    <3> QED BY <3>1, <3>2
  <2> QED BY <2>1, <2>2 DEF DocumentsFit
<1>14. GoodsAccounted'
  <2>1. Sold' = Sold /\ \A e \in Sold : doc'[e] = doc[e]
    <3>1. \A e \in Docs : doc'[e].deducted <=> doc[e].deducted
      BY <1>4, <1>5, <1>6, <1>12
    <3> QED BY <1>5, <1>12, <3>1 DEF Sold
  <2> QED BY <1>0, <1>1, <2>1, GoodsStay
<1>15. RowTypes'
  BY <1>0, <1>1, <1>5, <1>7, EmptyRows DEF RowsFit, RowTypes
<1> QED BY <1>10, <1>11, <1>13, <1>14, <1>15 DEF RowsFit

LEMMA RestatedStep == CartInv /\ Restated => RowsFit'
<1> SUFFICES ASSUME CartInv, NEW d \in Docs, NEW st \in {"issued", "void"},
                    doc[d].kind = "invoice",
                    <<doc[d].status, st>> \in {<<"draft", "issued">>, <<"issued", "void">>},
                    doc' = [doc EXCEPT ![d].status = st],
                    UNCHANGED <<cart, event, stock, req>>
             PROVE  RowsFit'
  BY DEF Restated
<1>0. RowsFit /\ cart \in [Carts -> Cart] /\ doc \in [Docs -> Doc]
  BY RowsOfInv DEF RowsFit, RowTypes
<1>1. /\ doc'[d] = [doc[d] EXCEPT !.status = st] /\ doc' \in [Docs -> Doc]
      /\ \A e \in Docs : e # d => doc'[e] = doc[e]
  BY <1>0 DEF Doc
<1>2. \A e \in Docs : /\ doc'[e].kind = doc[e].kind /\ doc'[e].cart = doc[e].cart
                      /\ doc'[e].lines = doc[e].lines /\ doc'[e].receipts = doc[e].receipts
                      /\ doc'[e].deducted = doc[e].deducted
                      /\ doc'[e].status = IF e = d THEN st ELSE doc[e].status
  BY <1>0, <1>1 DEF Doc
<1>3. DocumentsFit'
  <2>1. ASSUME NEW e \in Docs PROVE DocNamesCart(e)' /\ ReceiptOfGoods(e)'
    <3>1. DocNamesCart(e) /\ ReceiptOfGoods(e)
      BY <1>0 DEF RowsFit, DocumentsFit
    <3> QED BY <1>2, <3>1 DEF DocNamesCart, ReceiptOfGoods
  <2>2. ASSUME NEW b \in Carts PROVE CartNamesDocs(b)'
    <3>1. CartNamesDocs(b) /\ cart[b].quotation \in Docs \cup {None} /\ cart[b].invoice \in Docs \cup {None}
      BY <1>0 DEF RowsFit, DocumentsFit, Cart
    <3> QED BY <1>2, <3>1 DEF CartNamesDocs
  <2> QED BY <2>1, <2>2 DEF DocumentsFit
<1>4. GoodsAccounted'
  BY <1>0, <1>2, GoodsStay DEF Sold
<1>5. RowTypes' /\ OneCartPerToken' /\ RequestsFit'
  BY <1>0, <1>1 DEF RowsFit, RowTypes, OneCartPerToken, RequestsFit
<1> QED BY <1>3, <1>4, <1>5 DEF RowsFit

LEMMA PaidForStep == CartInv /\ PaidFor => RowsFit'
<1> SUFFICES ASSUME CartInv, NEW d \in Docs, doc[d].kind = "invoice", doc[d].status = "issued",
                    CanTake(doc[d].lines), doc' = [doc EXCEPT ![d] = Settled(doc[d])],
                    stock' = Taken(doc[d].lines), UNCHANGED <<cart, event, req>>
             PROVE  RowsFit'
  BY DEF PaidFor
<1>0. RowsFit /\ cart \in [Carts -> Cart] /\ doc \in [Docs -> Doc] /\ doc[d] \in Doc
  BY RowsOfInv DEF RowsFit, RowTypes
<1>1. DocNamesCart(d) /\ ReceiptOfGoods(d)
  BY <1>0 DEF RowsFit, DocumentsFit
<1>2. /\ doc'[d] = Settled(doc[d]) /\ doc' \in [Docs -> Doc]
      /\ \A e \in Docs : e # d => doc'[e] = doc[e]
  BY <1>0, SettledRow
<1>3. \A e \in Docs : /\ doc'[e].kind = doc[e].kind /\ doc'[e].cart = doc[e].cart
                      /\ doc'[e].lines = doc[e].lines
                      /\ doc'[e].receipts = IF e = d THEN 1 ELSE doc[e].receipts
                      /\ doc'[e].deducted = IF e = d THEN TRUE ELSE doc[e].deducted
                      /\ doc'[e].status = IF e = d THEN "paid" ELSE doc[e].status
  <2>1. doc[d].receipts + 1 = 1
    BY <1>1 DEF ReceiptOfGoods
  <2>2. /\ doc'[d].kind = doc[d].kind /\ doc'[d].cart = doc[d].cart /\ doc'[d].lines = doc[d].lines
        /\ doc'[d].receipts = 1 /\ doc'[d].deducted = TRUE /\ doc'[d].status = "paid"
    BY <1>0, <1>2, <2>1, SettledRow, Zenon
  <2> QED BY <1>2, <2>2
<1>4. DocumentsFit'
  <2>1. ASSUME NEW e \in Docs PROVE DocNamesCart(e)' /\ ReceiptOfGoods(e)'
    <3>1. DocNamesCart(e) /\ ReceiptOfGoods(e)
      BY <1>0 DEF RowsFit, DocumentsFit
    <3>2. DocNamesCart(e)'
      BY <1>3, <3>1 DEF DocNamesCart
    <3>3. CASE e = d
      BY <1>3, <3>2, <3>3 DEF ReceiptOfGoods
    <3>4. CASE e # d
      <4>1. doc'[e] = doc[e]
        BY <1>2, <3>4
      <4> QED BY <3>1, <3>2, <4>1 DEF ReceiptOfGoods
    <3> QED BY <3>3, <3>4
  <2>2. ASSUME NEW b \in Carts PROVE CartNamesDocs(b)'
    <3>1. CartNamesDocs(b) /\ cart[b].quotation \in Docs \cup {None} /\ cart[b].invoice \in Docs \cup {None}
      BY <1>0 DEF RowsFit, DocumentsFit, Cart
    <3> QED BY <1>3, <3>1 DEF CartNamesDocs
  <2> QED BY <2>1, <2>2 DEF DocumentsFit
<1>5. GoodsAccounted' /\ stock' \in [Products -> Nat]
  <2>1. d \notin Sold /\ Sold' = Sold \cup {d}
    BY <1>1, <1>3 DEF ReceiptOfGoods, Sold
  <2>2. doc[d].lines \in Lines /\ doc'[d].lines = doc[d].lines
        /\ \A e \in Sold : doc'[e].lines = doc[e].lines
    BY <1>0, <1>3 DEF Doc, Sold
  <2> QED BY <1>0, <2>1, <2>2, GoodsLeave
<1>6. RowTypes' /\ OneCartPerToken' /\ RequestsFit'
  BY <1>0, <1>2, <1>5 DEF RowsFit, RowTypes, OneCartPerToken, RequestsFit
<1> QED BY <1>4, <1>5, <1>6 DEF RowsFit

--------------------------------------------------------------------------------
(* The clock and the cleanup command.                                         *)

LEMMA ClockStep ==
    ASSUME CartInv, [Next]_vars
    PROVE  /\ sweep' \in [at : 0..MaxTime, todo : SUBSET Carts] /\ now' \in 0..MaxTime
           /\ sweep'.at <= now'
<1>0. /\ sweep \in [at : 0..MaxTime, todo : SUBSET Carts] /\ now \in 0..MaxTime /\ sweep.at <= now
      /\ MaxTime \in Nat
  BY Policy DEF CartInv, TypeOK
<1>1. CASE UNCHANGED <<sweep, now>>
  BY <1>0, <1>1
<1>2. CASE StartSweep
  BY <1>0, <1>2 DEF StartSweep
<1>3. CASE Tick
  BY <1>0, <1>3 DEF Tick
<1>4. ASSUME NEW c \in Carts, CleanupCandidate(c)
      PROVE  /\ sweep' \in [at : 0..MaxTime, todo : SUBSET Carts] /\ now' \in 0..MaxTime
             /\ sweep'.at <= now'
  BY <1>0, <1>4 DEF CleanupCandidate
<1>5. (\E c \in Carts : CartStep(c)) => UNCHANGED <<sweep, now>>
  BY DEF CartStep, SaveLine, AdjustLine, RemoveLine, DiscountLine, SaveDetails, Abandon, Restore,
         Convert, CheckoutDraft, CheckoutBilled
<1>6. (\E r \in Requests : RequestStep(r)) => UNCHANGED <<sweep, now>>
  BY DEF RequestStep, OpenWorkspace, Materialize, Forget, ReadQuotation, BillQuotation
<1>7. (\E d \in Docs : Issue(d) \/ Pay(d) \/ Void(d)) => UNCHANGED <<sweep, now>>
  BY DEF Issue, Pay, Void
<1> QED BY <1>1, <1>2, <1>3, <1>4, <1>5, <1>6, <1>7 DEF Next, vars

LEMMA CartInvInit == Init => CartInv
<1> SUFFICES ASSUME Init PROVE CartInv
  OBVIOUS
<1>1. TypeOK
  BY Policy, Shelf, EmptyRows DEF Init, TypeOK
<1>2. OneCartPerToken /\ RequestsFit /\ DocumentsFit
  BY DEF Init, OneCartPerToken, RequestsFit, DocumentsFit, DocNamesCart, ReceiptOfGoods,
         CartNamesDocs, NoCart, NoDoc, NoReq
<1>3. GoodsAccounted
  <2>1. Sold = {}
    BY DEF Init, Sold, NoDoc
  <2>2. \A p \in Products : SumOf({}, Billed(p)) = 0
    BY SumEmpty
  <2> QED BY <2>1, <2>2, Shelf DEF Init, GoodsAccounted
<1> QED BY <1>1, <1>2, <1>3 DEF Init, CartInv

LEMMA CartInvStep == CartInv /\ [Next]_vars => CartInv'
<1> SUFFICES ASSUME CartInv, [Next]_vars PROVE CartInv'
  OBVIOUS
<1>1. RowsFit'
  BY KindsOfSteps, EditedStep, StartedStep, DocumentedStep, BilledStep, RestatedStep, PaidForStep,
     LookedStep
<1> QED BY <1>1, ClockStep DEF RowsFit, RowTypes, CartInv, TypeOK

--------------------------------------------------------------------------------
(* Whoever sends what twice, cleans up or bills from the office: each token makes  *)
(* one cart, each cart has one invoice for the lines it shows, and the goods that   *)
(* left are those of the receipts.                                               *)
THEOREM CounterSound == Spec => []CounterIsSound
<1>1. CartInv => CounterIsSound
  <2> SUFFICES ASSUME CartInv PROVE CounterIsSound
    OBVIOUS
  <2>1. BilledOnceAsShown
    BY UnlinkedCarts DEF CartInv, DocumentsFit, CartNamesDocs, BilledOnceAsShown
  <2>2. GoodsMatchReceipts
    <3>1. Sold = { d \in Docs : doc[d].status = "paid" }
      BY DEF CartInv, DocumentsFit, ReceiptOfGoods, Sold
    <3> QED BY <3>1 DEF CartInv, GoodsAccounted, Billed, DocumentsFit, ReceiptOfGoods,
                        GoodsMatchReceipts
  <2> QED BY <2>1, <2>2 DEF CartInv, CounterIsSound
<1> QED BY <1>1, CartInvInit, CartInvStep, PTL DEF Spec

(* No cart is ended by a cleanup run that was used since the run listed it, that   *)
(* has lines and is not idle for long, or that has documents.                     *)
THEOREM CleanupSpares == Spec => CleanupSparesActivity
<1> DEFINE Spared(c) ==
             cart'[c].status # cart[c].status =>
               /\ Draft(c) /\ cart[c].quotation = None /\ cart[c].invoice = None
               /\ cart[c].touched + EmptyAfter <= now
               /\ cart'[c].status = "deleted" => cart[c].lines = NoLines /\ ~cart[c].restored
               /\ cart'[c].status = "abandoned" => cart[c].touched + IdleAfter <= now
<1>1. ASSUME CartInv, NEW c \in Carts, CleanupCandidate(c) PROVE Spared(c)
  <2>0. /\ sweep.at \in Nat /\ now \in Nat /\ sweep.at <= now /\ cart[c].touched \in Nat
        /\ EmptyAfter \in Nat /\ IdleAfter \in Nat /\ MaxTime \in Nat
    BY <1>1, Policy DEF CartInv, TypeOK, Cart
  <2>1. cart'[c] = Verdict(c)
    BY <1>1 DEF CleanupCandidate, CartInv, TypeOK
  <2>2. CASE ~StillIdle(c)
    BY <2>1, <2>2 DEF Verdict
  <2>3. CASE StillIdle(c)
    <3>1. /\ Draft(c) /\ cart[c].quotation = None /\ cart[c].invoice = None
          /\ cart[c].touched + EmptyAfter <= now
      BY <2>0, <2>3 DEF StillIdle, business_linked, IdleFor
    <3>2. CASE genuinely_empty(c)
      <4>1. cart'[c].status = "deleted"
        BY <2>1, <2>3, <3>2 DEF Verdict, NoCart
      <4>2. cart[c].lines = NoLines /\ ~cart[c].restored
        BY <3>2 DEF genuinely_empty, Empty
      <4> QED BY <3>1, <4>1, <4>2
    <3>3. CASE ~genuinely_empty(c)
      <4>1. CASE IdleFor(c, IdleAfter, sweep.at)
        <5>1. cart'[c] = Abandoned(cart[c]) /\ cart[c] \in Cart
          BY <1>1, <2>1, <2>3, <3>3, <4>1 DEF Verdict, CartInv, TypeOK
        <5>2. cart'[c].status = "abandoned"
          BY <5>1 DEF Abandoned, Cart
        <5>3. cart[c].touched + IdleAfter <= now
          BY <2>0, <4>1 DEF IdleFor
        <5> QED BY <3>1, <5>2, <5>3
      <4>2. CASE ~IdleFor(c, IdleAfter, sweep.at)
        BY <2>1, <2>3, <3>3, <4>2 DEF Verdict
      <4> QED BY <4>1, <4>2
    <3> QED BY <3>2, <3>3
  <2> QED BY <2>2, <2>3
<1>2. ASSUME CartInv, Next PROVE \A c \in sweep.todo \ sweep'.todo : Spared(c)
  <2>1. CASE sweep' = sweep
    BY <2>1
  <2>2. CASE StartSweep
    BY <2>2 DEF StartSweep
  <2>3. ASSUME NEW c \in Carts, CleanupCandidate(c)
        PROVE  \A b \in sweep.todo \ sweep'.todo : Spared(b)
    <3>1. sweep.todo \ sweep'.todo \subseteq {c}
      BY <2>3 DEF CleanupCandidate
    <3>2. Spared(c)
      BY <1>1, <1>2, <2>3
    <3> HIDE DEF Spared
    <3> QED BY <3>1, <3>2
  <2>4. (\E c \in Carts : CartStep(c)) => sweep' = sweep
    BY DEF CartStep, SaveLine, AdjustLine, RemoveLine, DiscountLine, SaveDetails, Abandon, Restore,
           Convert, CheckoutDraft, CheckoutBilled
  <2>5. (\E r \in Requests : RequestStep(r)) => sweep' = sweep
    BY DEF RequestStep, OpenWorkspace, Materialize, Forget, ReadQuotation, BillQuotation
  <2>6. (\E d \in Docs : Issue(d) \/ Pay(d) \/ Void(d)) \/ Tick => sweep' = sweep
    BY DEF Issue, Pay, Void, Tick
  <2> HIDE DEF Spared
  <2> QED BY <1>2, <2>1, <2>2, <2>3, <2>4, <2>5, <2>6 DEF Next
<1>3. CartInv /\ [Next]_vars => [\A c \in sweep.todo \ sweep'.todo : Spared(c)]_vars
  BY <1>2
<1>4. Spec => []CartInv
  BY CartInvInit, CartInvStep, PTL DEF Spec
<1> QED BY <1>3, <1>4, PTL DEF Spec, CleanupSparesActivity

--------------------------------------------------------------------------------
(* The counter implements CounterSale.                                        *)

Phase == [c \in Carts |-> PhaseOf(c)]
Left == [p \in Products |-> OnShelf[p] - stock[p]]

\* Phases of carts without documents.
LEMMA PhaseWithoutDocs ==
    ASSUME NEW c \in Carts
    PROVE  /\ cart[c].status = "none" => PhaseOf(c) = "absent"
           /\ cart[c].status = "draft" => PhaseOf(c) = "open"
           /\ cart[c].status = "abandoned" => PhaseOf(c) = "dropped"
           /\ cart[c].status = "deleted" => PhaseOf(c) = "gone"
  BY DEF PhaseOf

\* Phases of converted carts.
LEMMA PhaseWithDocs ==
    ASSUME NEW c \in Carts, cart[c].status = "converted"
    PROVE  /\ cart[c].invoice = None => PhaseOf(c) = "offered"
           /\ cart[c].invoice # None =>
                /\ doc[cart[c].invoice].status = "paid" => PhaseOf(c) = "sold"
                /\ doc[cart[c].invoice].status = "void" => PhaseOf(c) = "cancelled"
                /\ doc[cart[c].invoice].status \in {"draft", "issued"} => PhaseOf(c) = "billed"
  BY DEF PhaseOf

LEMMA PhaseStays ==
    ASSUME NEW c \in Carts, cart'[c].status = cart[c].status, cart'[c].invoice = cart[c].invoice,
           cart[c].invoice # None => doc'[cart[c].invoice].status = doc[cart[c].invoice].status
    PROVE  PhaseOf(c)' = PhaseOf(c)
  BY DEF PhaseOf

\* One cart changes its phase.
LEMMA OneMoves ==
    ASSUME NEW c \in Carts, NEW From, NEW to, PhaseOf(c) \in From, PhaseOf(c)' = to,
           \A b \in Carts : b # c => PhaseOf(b)' = PhaseOf(b)
    PROVE  Counter!Move(From, to)
<1>1. Phase[c] \in From
  BY DEF Phase
<1>2. Phase' = [Phase EXCEPT ![c] = to]
  BY DEF Phase
<1> QED BY <1>1, <1>2 DEF Counter!Move, Phase

LEMMA NoneMoves ==
    ASSUME \A b \in Carts : PhaseOf(b)' = PhaseOf(b)
    PROVE  Phase' = Phase
  BY DEF Phase

LEMMA EditedMoves ==
    ASSUME CartInv, Edited
    PROVE  Left' = Left /\ (Phase' = Phase \/ Counter!Next)
<1>0. cart \in [Carts -> Cart]
  BY DEF CartInv, TypeOK
<1>1. PICK c \in Carts, row \in Cart :
        /\ <<cart[c].status, row.status>> \in
              {<<"draft", "draft">>, <<"draft", "abandoned">>, <<"draft", "deleted">>,
               <<"abandoned", "draft">>}
        /\ row.quotation = None /\ row.invoice = None
        /\ cart' = [cart EXCEPT ![c] = row]
        /\ UNCHANGED <<doc, event, stock, req>>
  BY DEF Edited
<1>2. cart'[c] = row /\ \A b \in Carts : b # c => cart'[b] = cart[b]
  BY <1>0, <1>1
<1>3. \A b \in Carts : b # c => PhaseOf(b)' = PhaseOf(b)
  BY <1>1, <1>2 DEF PhaseOf
<1>4. Left' = Left
  BY <1>1 DEF Left
<1>5. PhaseOf(c) = IF cart[c].status = "draft" THEN "open" ELSE "dropped"
  BY <1>1 DEF PhaseOf
<1>6. PhaseOf(c)' = CASE row.status = "draft" -> "open" [] row.status = "abandoned" -> "dropped"
                      [] row.status = "deleted" -> "gone"
  BY <1>1, <1>2 DEF PhaseOf
<1>7. CASE cart[c].status = "draft" /\ row.status = "draft"
  BY <1>3, <1>4, <1>5, <1>6, <1>7, NoneMoves
<1>8. CASE cart[c].status = "draft" /\ row.status = "abandoned"
  <2>1. PhaseOf(c) \in {"open"} /\ PhaseOf(c)' = "dropped"
    BY <1>5, <1>6, <1>8
  <2>2. Counter!Move({"open"}, "dropped")
    BY <1>3, <2>1, OneMoves
  <2> QED BY <1>4, <2>2 DEF Left, Counter!Drop, Counter!Next
<1>9. CASE cart[c].status = "draft" /\ row.status = "deleted"
  <2>1. PhaseOf(c) \in {"open"} /\ PhaseOf(c)' = "gone"
    BY <1>5, <1>6, <1>9
  <2>2. Counter!Move({"open"}, "gone")
    BY <1>3, <2>1, OneMoves
  <2> QED BY <1>4, <2>2 DEF Left, Counter!Discard, Counter!Next
<1>10. CASE cart[c].status = "abandoned" /\ row.status = "draft"
  <2>1. PhaseOf(c) \in {"dropped"} /\ PhaseOf(c)' = "open"
    BY <1>5, <1>6, <1>10
  <2>2. Counter!Move({"dropped"}, "open")
    BY <1>3, <2>1, OneMoves
  <2> QED BY <1>4, <2>2 DEF Left, Counter!PickUp, Counter!Next
<1> QED BY <1>1, <1>7, <1>8, <1>9, <1>10

LEMMA StartedMoves ==
    ASSUME CartInv, Started
    PROVE  Left' = Left /\ Counter!Next
<1>0. cart \in [Carts -> Cart]
  BY DEF CartInv, TypeOK
<1>1. PICK c \in Carts, row \in Cart :
        /\ cart[c].status = "none" /\ row.status = "draft"
        /\ cart' = [cart EXCEPT ![c] = row]
        /\ UNCHANGED <<doc, stock>>
  BY DEF Started
<1>2. cart'[c] = row /\ \A b \in Carts : b # c => cart'[b] = cart[b]
  BY <1>0, <1>1
<1>3. \A b \in Carts : b # c => PhaseOf(b)' = PhaseOf(b)
  BY <1>1, <1>2 DEF PhaseOf
<1>4. Left' = Left
  BY <1>1 DEF Left
<1>5. PhaseOf(c) \in {"absent"} /\ PhaseOf(c)' = "open"
  BY <1>1, <1>2 DEF PhaseOf
<1>6. Counter!Move({"absent"}, "open")
  BY <1>3, <1>5, OneMoves
<1> QED BY <1>4, <1>6 DEF Left, Counter!Start, Counter!Next

\* Goods leave the shelf, never come back.
LEMMA MoreLeft ==
    ASSUME CartInv, NEW ls \in Lines, stock' = Taken(ls)
    PROVE  \A p \in Products : Left'[p] >= Left[p]
<1> SUFFICES ASSUME NEW p \in Products PROVE Left'[p] >= Left[p]
  OBVIOUS
<1>1. ls[p] \in 0..MaxQty /\ MaxQty \in Nat /\ stock[p] \in Nat /\ OnShelf[p] \in Nat
  BY Shelf DEF Lines, CartInv, TypeOK
<1>2. stock'[p] = stock[p] - ls[p]
  BY DEF Taken
<1>3. Left[p] = OnShelf[p] - stock[p] /\ Left'[p] = OnShelf[p] - stock'[p]
  BY DEF Left
<1> QED BY <1>1, <1>2, <1>3

LEMMA DocumentedMoves ==
    ASSUME CartInv, Documented
    PROVE  Counter!Next
<1>0. /\ cart \in [Carts -> Cart] /\ doc \in [Docs -> Doc]
      /\ DocumentsFit
  BY DEF CartInv, TypeOK
<1>1. PICK c \in Carts, d \in Docs, kind \in {"quotation", "invoice"}, row \in Doc :
        /\ cart[c].status = "draft" /\ doc[d].kind = "none"
        /\ row.kind = kind /\ row.cart = c /\ row.lines = cart[c].lines
        /\ <<kind, row.status>> \in
              {<<"quotation", "draft">>, <<"invoice", "issued">>, <<"invoice", "paid">>}
        /\ row.deducted = (row.status = "paid")
        /\ row.receipts = IF row.status = "paid" THEN 1 ELSE 0
        /\ row.status = "paid" => CanTake(row.lines)
        /\ cart' = [cart EXCEPT ![c] = ConvertedTo(c, kind, d)]
        /\ doc' = [doc EXCEPT ![d] = row]
        /\ stock' = IF row.status = "paid" THEN Taken(row.lines) ELSE stock
        /\ UNCHANGED <<event, req>>
  BY DEF Documented
<1>2. /\ cart'[c].status = "converted"
      /\ cart'[c].invoice = IF kind = "invoice" THEN d ELSE None
      /\ \A b \in Carts : b # c => cart'[b] = cart[b]
      /\ doc'[d] = row /\ \A e \in Docs : e # d => doc'[e] = doc[e]
  BY <1>0, <1>1 DEF ConvertedTo, Cart
<1>3. ASSUME NEW b \in Carts, b # c PROVE PhaseOf(b)' = PhaseOf(b)
  <2>1. cart[b].invoice \in Docs \cup {None} /\ CartNamesDocs(b)
    BY <1>0 DEF DocumentsFit, Cart
  <2>2. cart[b].invoice # None => doc'[cart[b].invoice] = doc[cart[b].invoice]
    BY <1>1, <1>2, <2>1 DEF CartNamesDocs
  <2> QED BY <1>2, <1>3, <2>2, PhaseStays
<1>4. PhaseOf(c) \in {"open"} /\ PhaseOf(c) \in {"open", "offered"} /\ PhaseOf(c) \in {"open", "billed"}
  BY <1>1 DEF PhaseOf
<1>5. CASE kind = "quotation"
  <2>1. PhaseOf(c)' = "offered"
    BY <1>2, <1>5, PhaseWithDocs DEF PhaseOf
  <2>2. Counter!Move({"open"}, "offered")
    BY <1>3, <1>4, <2>1, OneMoves
  <2>3. Left' = Left
    BY <1>1, <1>5 DEF Left
  <2> QED BY <2>2, <2>3 DEF Left, Counter!Offer, Counter!Next
<1>6. CASE kind = "invoice" /\ row.status = "issued"
  <2>1. PhaseOf(c)' = "billed"
    BY <1>2, <1>6, NullId DEF PhaseOf
  <2>2. Counter!Move({"open", "offered"}, "billed")
    BY <1>3, <1>4, <2>1, OneMoves
  <2>3. Left' = Left
    BY <1>1, <1>6 DEF Left
  <2> QED BY <2>2, <2>3 DEF Left, Counter!Bill, Counter!Next
<1>7. CASE kind = "invoice" /\ row.status = "paid"
  <2>1. PhaseOf(c)' = "sold"
    BY <1>2, <1>7, NullId DEF PhaseOf
  <2>2. Counter!Move({"open", "billed"}, "sold")
    BY <1>3, <1>4, <2>1, OneMoves
  <2>3. \A p \in Products : Left'[p] >= Left[p]
    <3>1. row.lines \in Lines
      BY DEF Doc
    <3> QED BY <1>1, <1>7, <3>1, MoreLeft
  <2> QED BY <2>2, <2>3 DEF Left, Counter!Sell, Counter!Next
<1> QED BY <1>1, <1>5, <1>6, <1>7

LEMMA BilledMoves ==
    ASSUME CartInv, QuotationBilled
    PROVE  Counter!Next
<1>0. /\ cart \in [Carts -> Cart] /\ doc \in [Docs -> Doc]
      /\ DocumentsFit /\ RequestsFit
  BY DEF CartInv, TypeOK
<1>1. PICK r \in Requests, d \in Docs : BillQuotation(r, d)
  BY DEF QuotationBilled
<1>a. PICK c \in Carts : c = req[r].on
  BY <1>0, <1>1 DEF BillQuotation, RequestsFit
<1> DEFINE q == cart[c].quotation
           row == DocOf(c, "invoice", "draft")
<1>2. /\ doc[d].kind = "none" /\ SaleOf(c) = {}
      /\ doc' = [doc EXCEPT ![d] = row, ![q].status = "converted"]
      /\ cart' = [cart EXCEPT ![c].invoice = d]
      /\ stock' = stock
      /\ req[r].op = "bill"
  BY <1>1, <1>a DEF BillQuotation, NextDoc, OneSalePerCart
<1>3. c \in Carts /\ q \in Docs /\ q # None /\ cart[c].invoice \in Docs \cup {None} /\ CartNamesDocs(c)
  BY <1>0, <1>2, <1>a DEF RequestsFit, DocumentsFit, Cart
<1>4. doc[q].kind = "quotation" /\ cart[c].status = "converted" /\ cart[c].invoice = None /\ q # d
  BY <1>2, <1>3 DEF CartNamesDocs, SaleOf
<1>5. row.status = "draft"
  BY DEF DocOf, NoDoc
<1> HIDE DEF q, row
<1>6. /\ doc'[d] = row /\ \A e \in Docs : e # d /\ e # q => doc'[e] = doc[e]
      /\ cart'[c].invoice = d /\ cart'[c].status = "converted"
      /\ \A b \in Carts : b # c => cart'[b] = cart[b]
  BY <1>0, <1>2, <1>3, <1>4 DEF Cart
<1>7. ASSUME NEW b \in Carts, b # c PROVE PhaseOf(b)' = PhaseOf(b)
  <2>1. cart[b].invoice \in Docs \cup {None} /\ CartNamesDocs(b)
    BY <1>0 DEF DocumentsFit, Cart
  <2>2. cart[b].invoice # None => doc'[cart[b].invoice] = doc[cart[b].invoice]
    BY <1>2, <1>4, <1>6, <2>1 DEF CartNamesDocs
  <2> QED BY <1>6, <1>7, <2>2, PhaseStays
<1>8. PhaseOf(c) = "offered"
  BY <1>3, <1>4, PhaseWithDocs
<1>9. PhaseOf(c)' = "billed"
  BY <1>5, <1>6, NullId DEF PhaseOf
<1>10. Counter!Move({"open", "offered"}, "billed")
  BY <1>3, <1>7, <1>8, <1>9, OneMoves
<1>11. Left' = Left
  BY <1>2 DEF Left
<1> QED BY <1>10, <1>11 DEF Left, Counter!Bill, Counter!Next

\* The cart of an invoice whose status changes is the only one that moves.
LEMMA InvoiceMoves ==
    ASSUME CartInv, NEW d \in Docs, doc[d].kind = "invoice", cart' = cart,
           \A e \in Docs : e # d => doc'[e] = doc[e]
    PROVE  /\ doc[d].cart \in Carts /\ cart[doc[d].cart].invoice = d
           /\ cart[doc[d].cart].status = "converted" /\ d # None
           /\ \A b \in Carts : b # doc[d].cart => PhaseOf(b)' = PhaseOf(b)
<1>0. cart \in [Carts -> Cart] /\ DocNamesCart(d) /\ DocumentsFit
  BY DEF CartInv, TypeOK, DocumentsFit
<1>1. doc[d].cart \in Carts /\ cart[doc[d].cart].invoice = d /\ d # None
  BY <1>0, NullId DEF DocNamesCart
<1>2. cart[doc[d].cart].status = "converted"
  BY <1>0, <1>1 DEF DocumentsFit, CartNamesDocs
<1>3. ASSUME NEW b \in Carts, b # doc[d].cart PROVE PhaseOf(b)' = PhaseOf(b)
  <2>1. cart[b].invoice \in Docs \cup {None} /\ CartNamesDocs(b)
    BY <1>0 DEF DocumentsFit, Cart
  <2>2. cart[b].invoice # None => doc'[cart[b].invoice] = doc[cart[b].invoice]
    BY <1>3, <2>1 DEF CartNamesDocs
  <2> QED BY <2>2, PhaseStays
<1> QED BY <1>1, <1>2, <1>3

LEMMA RestatedMoves ==
    ASSUME CartInv, Restated
    PROVE  Left' = Left /\ (Phase' = Phase \/ Counter!Next)
<1>0. doc \in [Docs -> Doc]
  BY DEF CartInv, TypeOK
<1>1. PICK d \in Docs, st \in {"issued", "void"} :
        /\ doc[d].kind = "invoice"
        /\ <<doc[d].status, st>> \in {<<"draft", "issued">>, <<"issued", "void">>}
        /\ doc' = [doc EXCEPT ![d].status = st]
        /\ UNCHANGED <<cart, event, stock, req>>
  BY DEF Restated
<1>2. doc'[d].status = st /\ \A e \in Docs : e # d => doc'[e] = doc[e]
  BY <1>0, <1>1 DEF Doc
<1>3. PICK c \in Carts :
      /\ cart[c].invoice = d /\ cart[c].status = "converted" /\ d # None
      /\ \A b \in Carts : b # c => PhaseOf(b)' = PhaseOf(b)
  BY <1>1, <1>2, InvoiceMoves
<1>4. PhaseOf(c) = "billed"
  BY <1>1, <1>3, PhaseWithDocs
<1>5. Left' = Left
  BY <1>1 DEF Left
<1>6. CASE st = "issued"
  <2>1. PhaseOf(c)' = "billed"
    BY <1>1, <1>2, <1>3, <1>6 DEF PhaseOf
  <2> QED BY <1>3, <1>4, <1>5, <2>1, NoneMoves
<1>7. CASE st = "void"
  <2>1. PhaseOf(c)' = "cancelled"
    BY <1>1, <1>2, <1>3, <1>7 DEF PhaseOf
  <2>2. Counter!Move({"billed"}, "cancelled")
    BY <1>3, <1>4, <2>1, OneMoves
  <2> QED BY <1>5, <2>2 DEF Left, Counter!Cancel, Counter!Next
<1> QED BY <1>6, <1>7

LEMMA PaidForMoves ==
    ASSUME CartInv, PaidFor
    PROVE  Counter!Next
<1>0. doc \in [Docs -> Doc]
  BY DEF CartInv, TypeOK
<1>1. PICK d \in Docs :
        /\ doc[d].kind = "invoice" /\ doc[d].status = "issued"
        /\ doc' = [doc EXCEPT ![d] = Settled(doc[d])]
        /\ stock' = Taken(doc[d].lines) /\ cart' = cart
  BY DEF PaidFor
<1>2. /\ doc'[d].status = "paid" /\ \A e \in Docs : e # d => doc'[e] = doc[e]
      /\ doc[d].lines \in Lines
  BY <1>0, <1>1, SettledRow DEF Doc
<1>3. PICK c \in Carts :
      /\ cart[c].invoice = d /\ cart[c].status = "converted" /\ d # None
      /\ \A b \in Carts : b # c => PhaseOf(b)' = PhaseOf(b)
  BY <1>1, <1>2, InvoiceMoves
<1>4. PhaseOf(c) = "billed"
  BY <1>1, <1>3, PhaseWithDocs
<1>5. PhaseOf(c)' = "sold"
  BY <1>1, <1>2, <1>3 DEF PhaseOf
<1>6. Counter!Move({"open", "billed"}, "sold")
  BY <1>3, <1>4, <1>5, OneMoves
<1>7. \A p \in Products : Left'[p] >= Left[p]
  BY <1>1, <1>2, MoreLeft
<1> QED BY <1>6, <1>7 DEF Left, Counter!Sell, Counter!Next

(* Every request, retry, page of the office and cleanup run is a step of the counter  *)
(* sale, or none: a cart is sold once, and goods leave only with its sale.           *)
THEOREM HandlersSellOnce == Spec => ImplementsCounterSale
<1>1. Spec => []CartInv
  BY CartInvInit, CartInvStep, PTL DEF Spec
<1>2. Init => Counter!Init
  <2> SUFFICES ASSUME Init PROVE Counter!Init
    OBVIOUS
  <2>1. \A c \in Carts : PhaseOf(c) = "absent"
    BY DEF Init, PhaseOf, NoCart
  <2>2. \A p \in Products : OnShelf[p] - stock[p] = 0
    BY Shelf DEF Init
  <2> QED BY <2>1, <2>2 DEF Counter!Init
<1>3. CartInv /\ [Next]_vars => [Counter!Next]_<<Phase, Left>>
  <2> SUFFICES ASSUME CartInv, [Next]_vars PROVE Counter!Next \/ (Phase' = Phase /\ Left' = Left)
    BY DEF Phase, Left
  <2>1. CASE Looked
    BY <2>1 DEF Looked, Phase, Left, PhaseOf
  <2> QED BY <2>1, KindsOfSteps, EditedMoves, StartedMoves, DocumentedMoves, BilledMoves,
             RestatedMoves, PaidForMoves
<1>4. CartInv /\ [Next]_vars =>
        [Counter!Next]_<<[c \in Carts |-> PhaseOf(c)], [p \in Products |-> OnShelf[p] - stock[p]]>>
  BY <1>3 DEF Phase, Left
<1> QED BY <1>1, <1>2, <1>4, PTL DEF Spec, ImplementsCounterSale, Counter!Spec

--------------------------------------------------------------------------------
(* The page of the counter.  A request that was alone is the only one, and its    *)
(* answer shows the cart; what an older answer may have drawn over it counts as    *)
(* crossed.  What was saved last is what Cancel puts back and what the fields say   *)
(* but for the modal that is open; an answer that has not come in says so of what   *)
(* it carries.                                                                *)
Answering(k) == wires[k].stage \in {"ok", "refused"}
\* The cart may have changed by it, and the page does not show it yet.
Changed(k) == wires[k].stage \in {"ok", "unread"}

RequestsAlone ==
    \A k \in Kinds : /\ wires[k].alone => UnderWay = {k}
                     /\ k \in UnderWay /\ ~crossed => wires[k].alone
PagesTrue == \A k \in Kinds : wires[k].alone /\ Answering(k) => wires[k].page = saved
ShownTrue ==
    ~crossed =>
        /\ (\A k \in Kinds : ~Changed(k)) => shown = saved
        /\ ~Changed("details") => shown.details = saved.details
SavesTrue == wires["details"].stage = "ok" => saved.details = wires["details"].fields
FieldsTrue ==
    ~loose /\ ~Changed("details") =>
        /\ \A c \in Modals : kept[c] = saved.details[c]
        /\ \A f \in Others : field[f] = saved.details[f]
        /\ ~Saving => \A c \in Modals \ {modal} : field[c] = saved.details[c]
OrdersTrue ==
    order.plain => UnderWay = {} /\ order.shown = saved /\ order.fields = saved.details
CounterInv ==
    /\ CounterTypeOK /\ RequestsAlone /\ PagesTrue /\ ShownTrue /\ SavesTrue /\ FieldsTrue
    /\ OrdersTrue /\ SoldAsShown /\ CheckoutWaits

LEMMA BlankFits ==
    /\ Blank \in Sheet /\ NoWire \in Wire /\ NoOrder \in Order /\ NoOutcome \in Outcome
    /\ Blank.details \in Details
<1>1. (CHOOSE e \in Entries : TRUE) \in Entries
  BY SomeEntry
<1>2. Blank.details \in Details /\ Blank \in Sheet
  BY <1>1, SomeEntry DEF Blank, Details, Sheet
<1> QED
  BY <1>2 DEF NoWire, Wire, NoOrder, Order, NoOutcome, Outcome

LEMMA WireParts ==
    ASSUME NEW w \in Wire
    PROVE  /\ w.stage \in {"none", "sent", "ok", "refused", "unread"} /\ w.fields \in Details
           /\ w.page \in Sheet /\ w.invalid \in Fields \cup {"none"} /\ w.alone \in BOOLEAN
BY DEF Wire

LEMMA SheetParts ==
    ASSUME NEW s \in Sheet
    PROVE  s.lines \in 0..MaxEdits /\ s.details \in Details
BY DEF Sheet

LEMMA KeptTyped ==
    ASSUME NEW fields \in Details
    PROVE  KeptOf(fields) \in [Modals -> Entries]
BY DEF KeptOf, Details, Fields

LEMMA SendTyped ==
    ASSUME CounterTypeOK, NEW k \in Kinds, Send(k)
    PROVE  wires' \in [Kinds -> Wire] /\ crossed' \in BOOLEAN
<1>1. ASSUME NEW j \in Kinds PROVE wires'[j] \in Wire
  <2>1. CASE j = k
    BY <2>1, BlankFits DEF Send, Wire, NoWire, CounterTypeOK
  <2>2. CASE j # k
    BY <2>2 DEF Send, Wire, CounterTypeOK
  <2> QED BY <2>1, <2>2
<1> QED BY <1>1 DEF Send, CounterTypeOK

LEMMA LoadTyped ==
    ASSUME NEW fields \in Details, NEW c \in Modals \cup {"none"}, NEW at \in {"cart", "checkout"},
           saved' \in Sheet, Load(fields, c, at), outcome' \in Outcome
    PROVE  CounterTypeOK'
BY KeptTyped, BlankFits DEF Load, CounterTypeOK

LEMMA FinishedTyped ==
    ASSUME CounterTypeOK, NEW k \in Kinds, Finished(k)
    PROVE  wires' \in [Kinds -> Wire]
BY BlankFits DEF Finished, CounterTypeOK

LEMMA RedrawnTyped ==
    ASSUME CounterTypeOK, NEW k \in Kinds, Redrawn(k)
    PROVE  /\ wires' \in [Kinds -> Wire] /\ shown' \in Sheet /\ blocked' \in BOOLEAN
           /\ confirm' \in {"closed", "open", "detached"} /\ crossed' \in BOOLEAN
BY FinishedTyped, WireParts DEF Redrawn, Draw, CounterTypeOK

LEMMA ServeTyped ==
    ASSUME CounterTypeOK, NEW k \in Kinds, Serve(k)
    PROVE  saved' \in Sheet /\ wires' \in [Kinds -> Wire]
<1>1. wires[k] \in Wire
  BY DEF CounterTypeOK
<1>2. saved' \in Sheet
  BY <1>1 DEF Serve, Wire, Sheet, CounterTypeOK
<1>3. wires'[k] \in Wire
  BY <1>1, <1>2 DEF Serve, Wire, CounterTypeOK
<1>4. ASSUME NEW j \in Kinds \ {k} PROVE wires'[j] \in Wire
  BY DEF Serve, CounterTypeOK
<1> QED BY <1>2, <1>3, <1>4 DEF Serve, CounterTypeOK

LEMMA SendOrderTyped ==
    ASSUME CounterTypeOK, NEW what \in {"pay", "quote"}, SendOrder(what)
    PROVE  order' \in Order
BY DEF SendOrder, Order, CounterTypeOK, UnderWay

LEMMA CounterTypeStep ==
    ASSUME CounterTypeOK, [CounterNext]_counterVars
    PROVE  CounterTypeOK'
<1>1. CASE UNCHANGED counterVars
  BY <1>1 DEF CounterTypeOK, counterVars, detailVars, checkoutVars
<1>2. ASSUME NEW k \in Kinds, Press(k) PROVE CounterTypeOK'
  BY <1>2, SendTyped DEF Press, CounterTypeOK, detailVars, checkoutVars
<1>3. ASSUME NEW k \in Kinds, Serve(k) PROVE CounterTypeOK'
  BY <1>3, ServeTyped DEF Serve, CounterTypeOK, detailVars, checkoutVars
<1>4. ASSUME NEW k \in Kinds, AnswerEdit(k) PROVE CounterTypeOK'
  BY <1>4, FinishedTyped, RedrawnTyped DEF AnswerEdit, CounterTypeOK, detailVars
<1>5. ASSUME NEW k \in Kinds, LoseAnswer(k) PROVE CounterTypeOK'
  BY <1>5, BlankFits DEF LoseAnswer, CounterTypeOK, detailVars, checkoutVars
<1>6. ASSUME NEW c \in Modals, OpenModal(c) PROVE CounterTypeOK'
  BY <1>6 DEF OpenModal, CounterTypeOK, checkoutVars
<1>7. ASSUME NEW f \in Fields, NEW e \in Entries, TypeIn(f, e) PROVE CounterTypeOK'
  BY <1>7 DEF TypeIn, CounterTypeOK, checkoutVars, Details
<1>8. CASE CancelModal
  BY <1>8 DEF CancelModal, CounterTypeOK, checkoutVars, Details, Fields
<1>17. CASE ServeSaveAsCheckout
  <2>1. "details" \in Kinds /\ wires["details"] \in Wire
    BY DEF CounterTypeOK, Kinds
  <2>2. saved' \in Sheet
    BY <1>17, <2>1, WireParts DEF ServeSaveAsCheckout, CounterTypeOK, Sheet
  <2>3. wires' \in [Kinds -> Wire]
    BY <1>17, <2>1 DEF ServeSaveAsCheckout, CounterTypeOK, Wire
  <2>4. outcome' \in Outcome
    <3>1. CASE outcome' = outcome
      BY <3>1 DEF CounterTypeOK
    <3>2. CASE outcome' = [what |-> "unasked", sold |-> saved', shown |-> shown, plain |-> FALSE]
      BY <2>2, <3>2 DEF CounterTypeOK, Outcome
    <3> QED BY <1>17, <3>1, <3>2 DEF ServeSaveAsCheckout
  <2> QED BY <1>17, <2>2, <2>3, <2>4 DEF ServeSaveAsCheckout, CounterTypeOK, detailVars
<1>9. CASE SaveForm
  BY <1>9, SendTyped DEF SaveForm, CounterTypeOK, detailVars, checkoutVars, Kinds
<1>10. CASE AnswerSaved
  BY <1>10, RedrawnTyped, KeptTyped DEF AnswerSaved, CounterTypeOK, Kinds
<1>11. CASE AnswerRefused
  BY <1>11, RedrawnTyped, WireParts DEF AnswerRefused, CounterTypeOK, Kinds, LeftOver
<1>12. ASSUME NEW what \in {"pay", "quote"}, Checkout(what) PROVE CounterTypeOK'
  BY <1>12, SendOrderTyped DEF Checkout, CounterTypeOK, detailVars
<1>13. CASE Accept
  BY <1>13, SendOrderTyped DEF Accept, CounterTypeOK, detailVars
<1>14. CASE Dismiss
  BY <1>14 DEF Dismiss, CounterTypeOK, detailVars
<1>15. CASE ServeOrder
  <2>1. order.fields \in Details /\ order.shown \in Sheet /\ order.plain \in BOOLEAN
        /\ order.what \in {"none", "pay", "quote"}
    BY DEF CounterTypeOK, Order
  <2>2. saved' \in Sheet
    BY <1>15, <2>1 DEF ServeOrder, CounterTypeOK, Sheet
  <2>3. outcome' \in Outcome
    BY <1>15, <2>1, <2>2 DEF ServeOrder, CounterTypeOK, Outcome
  <2>4. PICK fields \in Details, c \in Modals \cup {"none"}, at \in {"cart", "checkout"} :
           Load(fields, c, at)
    BY <1>15, <2>1, <2>2, SheetParts DEF ServeOrder, CounterTypeOK
  <2> QED BY <2>2, <2>3, <2>4, LoadTyped
<1>16. CASE Return
  <2>1. saved' \in Sheet
    BY <1>16, SomeEntry DEF Return, CounterTypeOK, Sheet
  <2> QED BY <1>16, <2>1, LoadTyped, SheetParts DEF Return, CounterTypeOK
<1> QED
  BY <1>1, <1>2, <1>3, <1>4, <1>5, <1>6, <1>7, <1>8, <1>9, <1>10, <1>11, <1>12, <1>13, <1>14,
     <1>15, <1>16, <1>17 DEF CounterNext

LEMMA SendParts ==
    ASSUME CounterTypeOK, NEW k \in Kinds, Send(k)
    PROVE  /\ wires'[k].stage = "sent" /\ (wires'[k].alone <=> UnderWay = {})
           /\ \A j \in Kinds \ {k} : wires'[j].stage = wires[j].stage /\ ~wires'[j].alone
           /\ UnderWay' = UnderWay \cup {k}
           /\ crossed' = (crossed \/ UnderWay # {})
<1>1. wires'[k].stage = "sent" /\ (wires'[k].alone <=> UnderWay = {})
  BY DEF Send, NoWire, CounterTypeOK
<1>2. \A j \in Kinds \ {k} : wires'[j].stage = wires[j].stage /\ ~wires'[j].alone
  <2> SUFFICES ASSUME NEW j \in Kinds \ {k}
               PROVE  wires'[j].stage = wires[j].stage /\ ~wires'[j].alone
    OBVIOUS
  <2>1. wires'[j] = [wires[j] EXCEPT !.alone = FALSE]
    BY DEF Send
  <2>2. wires[j] \in Wire
    BY DEF CounterTypeOK
  <2> QED BY <2>1, <2>2 DEF Wire
<1> QED BY <1>1, <1>2 DEF Send, UnderWay

LEMMA FinishedParts ==
    ASSUME CounterTypeOK, NEW k \in Kinds, Finished(k)
    PROVE  /\ wires'[k].stage = "none" /\ ~wires'[k].alone
           /\ \A j \in Kinds \ {k} : wires'[j] = wires[j]
           /\ UnderWay' = UnderWay \ {k}
<1>1. wires'[k] = NoWire /\ \A j \in Kinds \ {k} : wires'[j] = wires[j]
  BY DEF Finished, CounterTypeOK
<1> QED BY <1>1 DEF NoWire, UnderWay

(* The answer of a request that was alone shows the cart as it is; any other      *)
(* leaves the page crossed.                                                   *)
LEMMA RedrawnTrue ==
    ASSUME CounterInv, NEW k \in Kinds, Answering(k), Redrawn(k), UNCHANGED saved
    PROVE  RequestsAlone' /\ PagesTrue' /\ ShownTrue'
<1>1. /\ k \in UnderWay /\ UnderWay' = UnderWay \ {k} /\ ~wires'[k].alone
      /\ \A j \in Kinds \ {k} : wires'[j] = wires[j]
  BY FinishedParts DEF CounterInv, Redrawn, Answering, UnderWay
<1>2. crossed' = (crossed /\ ~wires[k].alone) /\ shown' = wires[k].page
  BY DEF Redrawn, Draw
<1>3. \A j \in Kinds : ~wires'[j].alone
  BY <1>1 DEF CounterInv, RequestsAlone
<1>4. ASSUME ~crossed' PROVE wires[k].alone
  BY <1>1, <1>2, <1>4 DEF CounterInv, RequestsAlone, CounterTypeOK
<1>5. ASSUME ~crossed' PROVE UnderWay' = {} /\ shown' = saved'
  BY <1>1, <1>2, <1>4, <1>5 DEF CounterInv, RequestsAlone, PagesTrue
<1>6. RequestsAlone'
  BY <1>3, <1>5 DEF RequestsAlone
<1>7. PagesTrue'
  BY <1>3 DEF PagesTrue
<1>8. ShownTrue'
  BY <1>5 DEF ShownTrue, Changed
<1> QED BY <1>6, <1>7, <1>8

(* A request is sent; a second one crosses the first.                         *)
LEMMA SendTrue ==
    ASSUME CounterInv, NEW k \in Kinds, Send(k), k \notin UnderWay, UNCHANGED <<saved, shown>>
    PROVE  RequestsAlone' /\ PagesTrue' /\ ShownTrue'
<1> USE DEF CounterInv
<1>1. /\ wires'[k].stage = "sent" /\ (wires'[k].alone <=> UnderWay = {})
      /\ \A j \in Kinds \ {k} : wires'[j].stage = wires[j].stage /\ ~wires'[j].alone
      /\ UnderWay' = UnderWay \cup {k} /\ crossed' = (crossed \/ UnderWay # {})
  BY SendParts
<1>2. RequestsAlone'
  BY <1>1 DEF RequestsAlone, CounterTypeOK
<1>3. PagesTrue'
  BY <1>1 DEF PagesTrue, Answering
<1>4. ~crossed' => ~crossed /\ \A j \in Kinds : wires[j].stage = "none"
  BY <1>1 DEF CounterTypeOK, UnderWay
<1>5. ShownTrue'
  BY <1>4 DEF ShownTrue, Changed, Kinds
<1> QED BY <1>2, <1>3, <1>5

(* A page that was loaded shows the cart.                                     *)
LEMMA LoadTrue ==
    ASSUME NEW fields \in Details, NEW c \in Modals \cup {"none"},
           NEW at \in {"cart", "checkout"}, Load(fields, c, at)
    PROVE  /\ RequestsAlone' /\ PagesTrue' /\ ShownTrue' /\ SavesTrue' /\ FieldsTrue'
           /\ OrdersTrue' /\ CheckoutWaits'
<1>1. \A k \in Kinds : wires'[k].stage = "none" /\ ~wires'[k].alone
  BY DEF Load, NoWire
<1>2. UnderWay' = {} /\ wires'["details"].stage = "none"
  BY <1>1 DEF UnderWay, Kinds
<1>3. RequestsAlone' /\ PagesTrue' /\ ShownTrue' /\ SavesTrue'
  BY <1>1, <1>2 DEF RequestsAlone, PagesTrue, ShownTrue, Changed, SavesTrue, Load, Answering
<1>4. FieldsTrue'
  BY DEF FieldsTrue, Changed, Load, KeptOf
<1>5. OrdersTrue' /\ CheckoutWaits'
  BY DEF OrdersTrue, CheckoutWaits, Load, NoOrder
<1> QED BY <1>3, <1>4, <1>5

(* A checkout that is posted with nothing under way or left over posts what the    *)
(* page shows.                                                                *)
LEMMA SendOrderTrue ==
    ASSUME CounterInv, NEW what \in {"pay", "quote"}, SendOrder(what), ~Saving,
           UNCHANGED <<saved, shown, detailVars, blocked, wires, outcome, crossed, loose>>
    PROVE  OrdersTrue' /\ CheckoutWaits'
<1> USE DEF CounterInv
<1>1. ASSUME order'.plain
      PROVE  UnderWay = {} /\ order'.shown = saved /\ order'.fields = saved.details
  <2>1. UnderWay = {} /\ ~crossed /\ ~loose /\ modal = "none"
        /\ order'.shown = shown /\ order'.fields = field
    BY <1>1 DEF SendOrder
  <2>2. \A k \in Kinds : wires[k].stage = "none"
    BY <2>1 DEF UnderWay
  <2>3. shown = saved
    BY <2>1, <2>2 DEF ShownTrue, Changed
  <2>4. \A f \in Fields : field[f] = saved.details[f]
    BY <2>1, <2>2, ScreenFields DEF FieldsTrue, Changed, Saving, Fields, Kinds
  <2>5. field = saved.details
    BY <2>4, SheetParts DEF CounterTypeOK, Details
  <2> QED BY <2>1, <2>3, <2>5
<1>2. OrdersTrue'
  BY <1>1 DEF OrdersTrue, UnderWay
<1>3. CheckoutWaits'
  BY DEF CheckoutWaits, Saving, UnderWay
<1> QED BY <1>2, <1>3

LEMMA CounterStep ==
    ASSUME CounterInv, [CounterNext]_counterVars
    PROVE  CounterInv'
<1> USE DEF CounterInv
<1> DEFINE Pages == RequestsAlone /\ PagesTrue /\ ShownTrue
           Saves == SavesTrue /\ FieldsTrue
           Orders == OrdersTrue /\ SoldAsShown /\ CheckoutWaits
<1>0. CounterTypeOK'
  BY CounterTypeStep
<1> SUFFICES Pages' /\ Saves' /\ Orders'
  BY <1>0
<1>1. CASE UNCHANGED counterVars
  BY <1>1 DEF counterVars, detailVars, checkoutVars, RequestsAlone, PagesTrue, ShownTrue, Changed, SavesTrue,
     FieldsTrue, OrdersTrue, SoldAsShown, CheckoutWaits, UnderWay, Saving, Answering
<1>2. ASSUME NEW k \in Kinds, Press(k) PROVE Pages' /\ Saves' /\ Orders'
  <2>1. Pages'
    BY <1>2, SendTrue DEF Press, detailVars
  <2>2. "details" \in Kinds \ {k} /\ wires["details"] \in Wire
    BY <1>2 DEF Press, Kinds, CounterTypeOK
  <2>3. wires'["details"] = [wires["details"] EXCEPT !.alone = FALSE]
    BY <1>2, <2>2 DEF Press, Send
  <2>4. /\ wires'["details"].stage = wires["details"].stage
        /\ wires'["details"].fields = wires["details"].fields
    BY <2>2, <2>3 DEF Wire
  <2>5. Saving' <=> Saving
    BY <2>2, <2>4 DEF Saving, UnderWay
  <2>6. Saves'
    BY <1>2, <2>4, <2>5 DEF Press, detailVars, SavesTrue, FieldsTrue, Changed
  <2>7. Orders'
    BY <1>2, <2>5 DEF Press, checkoutVars, Usable, OrdersTrue, SoldAsShown, CheckoutWaits, NoOrder
  <2> QED BY <2>1, <2>6, <2>7
<1>3. ASSUME NEW k \in Kinds, Serve(k) PROVE Pages' /\ Saves' /\ Orders'
  <2>1. /\ k \in UnderWay /\ wires[k].stage = "sent" /\ Answering(k)' /\ UnderWay' = UnderWay
        /\ wires'[k].page = saved' /\ wires'[k].alone = wires[k].alone
        /\ wires'[k].fields = wires[k].fields
        /\ \A j \in Kinds \ {k} : wires'[j] = wires[j]
    BY <1>3 DEF Serve, CounterTypeOK, Wire, UnderWay, Answering
  <2>2. /\ k # "details" => saved'.details = saved.details
        /\ k = "details" /\ wires'[k].stage = "ok" => saved'.details = wires[k].fields
        /\ wires'[k].stage # "ok" => saved' = saved
    BY <1>3, <2>1 DEF Serve, CounterTypeOK, Wire, Sheet
  <2>3. RequestsAlone' /\ PagesTrue'
    BY <1>3, <2>1 DEF Serve, RequestsAlone, PagesTrue, Answering
  <2>4. ShownTrue'
    BY <1>3, <2>1, <2>2 DEF Serve, ShownTrue, Changed, Kinds
  <2>5. SavesTrue' /\ FieldsTrue'
    BY <1>3, <2>1, <2>2 DEF Serve, SavesTrue, FieldsTrue, Changed, Saving, detailVars, Kinds
  <2>6. ~order.plain
    BY <2>1 DEF OrdersTrue, CounterTypeOK, Order
  <2>7. Orders'
    BY <1>3, <2>1, <2>6 DEF Serve, OrdersTrue, SoldAsShown, CheckoutWaits, checkoutVars, Saving
  <2> QED BY <2>3, <2>4, <2>5, <2>7
<1>4. ASSUME NEW k \in Kinds, AnswerEdit(k) PROVE Pages' /\ Saves' /\ Orders'
  <2>1. /\ Finished(k) /\ k \in UnderWay /\ k # "details" /\ Answering(k)
        /\ UnderWay' = UnderWay \ {k} /\ ~wires'[k].alone /\ wires'[k].stage = "none"
        /\ \A j \in Kinds \ {k} : wires'[j] = wires[j]
    BY <1>4, FinishedParts DEF AnswerEdit, Redrawn, UnderWay, Answering
  <2>2. Pages'
    <3>1. CASE Redrawn(k)
      BY <1>4, <2>1, <3>1, RedrawnTrue DEF AnswerEdit
    <3>2. CASE UNCHANGED <<shown, blocked, confirm, crossed>> /\ wires[k].stage = "refused"
      BY <1>4, <2>1, <3>2 DEF AnswerEdit, RequestsAlone, PagesTrue, ShownTrue, Changed, Answering, Kinds
    <3> QED BY <1>4, <3>1, <3>2 DEF AnswerEdit
  <2>3. Saves'
    BY <1>4, <2>1 DEF AnswerEdit, SavesTrue, FieldsTrue, Changed, detailVars, Saving, Kinds
  <2>4. Orders'
    BY <1>4, <2>1 DEF AnswerEdit, Redrawn, Draw, OrdersTrue, SoldAsShown, CheckoutWaits, Saving,
       CounterTypeOK, Order
  <2> QED BY <2>2, <2>3, <2>4
<1>5. ASSUME NEW k \in Kinds, LoseAnswer(k) PROVE Pages' /\ Saves' /\ Orders'
  <2>1. /\ k \in UnderWay /\ wires'[k] = NoWire /\ UnderWay' = UnderWay \ {k} /\ crossed'
        /\ \A j \in Kinds \ {k} : wires'[j] = wires[j]
    BY <1>5 DEF LoseAnswer, CounterTypeOK, UnderWay, NoWire
  <2>2. Pages'
    BY <1>5, <2>1 DEF LoseAnswer, RequestsAlone, PagesTrue, ShownTrue, Changed, NoWire, Answering
  <2>3. Saves'
    BY <1>5, <2>1 DEF LoseAnswer, SavesTrue, FieldsTrue, Changed, detailVars, Saving, Kinds, NoWire
  <2>4. Orders'
    BY <1>5, <2>1 DEF LoseAnswer, OrdersTrue, SoldAsShown, CheckoutWaits, Saving, checkoutVars,
       CounterTypeOK, Order
  <2> QED BY <2>2, <2>3, <2>4
<1>6. ASSUME NEW c \in Modals, OpenModal(c) PROVE Pages' /\ Saves' /\ Orders'
  <2>1. Pages' /\ SavesTrue' /\ Orders'
    BY <1>6 DEF OpenModal, checkoutVars, RequestsAlone, PagesTrue, ShownTrue, Changed, SavesTrue,
       OrdersTrue, SoldAsShown, CheckoutWaits, UnderWay, Saving, Answering
  <2>2. FieldsTrue'
    BY <1>6, ScreenFields DEF OpenModal, FieldsTrue, Changed, Saving, UnderWay, Fields
  <2> QED BY <2>1, <2>2
<1>7. ASSUME NEW f \in Fields, NEW e \in Entries, TypeIn(f, e) PROVE Pages' /\ Saves' /\ Orders'
  <2>1. Pages' /\ SavesTrue' /\ Orders'
    BY <1>7 DEF TypeIn, checkoutVars, RequestsAlone, PagesTrue, ShownTrue, Changed, SavesTrue,
       OrdersTrue, SoldAsShown, CheckoutWaits, UnderWay, Saving, Answering
  <2>2. FieldsTrue'
    BY <1>7, ScreenFields DEF TypeIn, FieldsTrue, Changed, Saving, UnderWay, CounterTypeOK, Details, Fields
  <2> QED BY <2>1, <2>2
<1>8. CASE CancelModal
  <2>1. Pages' /\ SavesTrue' /\ Orders'
    BY <1>8 DEF CancelModal, checkoutVars, RequestsAlone, PagesTrue, ShownTrue, Changed, SavesTrue,
       OrdersTrue, SoldAsShown, CheckoutWaits, UnderWay, Saving, Answering
  <2>2. FieldsTrue'
    BY <1>8, ScreenFields DEF CancelModal, FieldsTrue, Changed, Saving, UnderWay, CounterTypeOK, Details, Fields
  <2> QED BY <2>1, <2>2
<1>9. CASE SaveForm
  <2>1. CASE Saving
    BY <1>9, <2>1 DEF SaveForm, detailVars, checkoutVars, Usable, RequestsAlone, PagesTrue, ShownTrue, Changed,
       SavesTrue, FieldsTrue, OrdersTrue, SoldAsShown, CheckoutWaits, UnderWay, Saving, Answering
  <2>2. CASE ~Saving
    <3>1. Send("details") /\ "details" \in Kinds /\ "details" \notin UnderWay /\ order = NoOrder
          /\ UNCHANGED <<saved, shown, detailVars, order, outcome, loose>>
      BY <1>9, <2>2 DEF SaveForm, Saving, Kinds, Usable, checkoutVars
    <3>2. Pages' /\ Saving' /\ wires'["details"].stage = "sent"
      BY <3>1, SendTrue, SendParts DEF Saving
    <3>3. wires["details"].stage = "none"
      BY <3>1 DEF UnderWay
    <3>4. Saves'
      BY <3>1, <3>2, <3>3 DEF SavesTrue, FieldsTrue, Changed, detailVars
    <3>5. Orders'
      BY <3>1, <3>2 DEF OrdersTrue, SoldAsShown, CheckoutWaits, NoOrder
    <3> QED BY <3>2, <3>4, <3>5
  <2> QED BY <2>1, <2>2
<1>10. CASE AnswerSaved
  <2>1. /\ "details" \in Kinds /\ Answering("details") /\ Redrawn("details")
        /\ UnderWay' = UnderWay \ {"details"} /\ wires'["details"].stage = "none"
    BY <1>10, FinishedParts DEF AnswerSaved, Redrawn, Kinds, Answering
  <2>2. Pages'
    BY <1>10, <2>1, RedrawnTrue DEF AnswerSaved
  <2>3. saved.details = wires["details"].fields
    BY <1>10 DEF AnswerSaved, SavesTrue
  <2>4. Saves'
    BY <1>10, <2>1, <2>3 DEF AnswerSaved, SavesTrue, FieldsTrue, Changed, KeptOf
  <2>5. Orders'
    BY <1>10, <2>1 DEF AnswerSaved, Redrawn, Draw, OrdersTrue, SoldAsShown, CheckoutWaits, Saving,
       CounterTypeOK, Order, UnderWay
  <2> QED BY <2>2, <2>4, <2>5
<1>11. CASE AnswerRefused
  <2>1. /\ "details" \in Kinds /\ Answering("details") /\ Redrawn("details")
        /\ UnderWay' = UnderWay \ {"details"} /\ wires'["details"].stage = "none"
    BY <1>11, FinishedParts DEF AnswerRefused, Redrawn, Kinds, Answering
  <2>2. Pages'
    BY <1>11, <2>1, RedrawnTrue DEF AnswerRefused
  <2>3. ASSUME ~loose' PROVE ~loose /\ \A c \in Modals \ {modal'} : field[c] = kept[c]
    BY <1>11, <2>3 DEF AnswerRefused, LeftOver, CounterTypeOK
  <2>4. Saves'
    BY <1>11, <2>1, <2>3 DEF AnswerRefused, SavesTrue, FieldsTrue, Changed
  <2>5. Orders'
    BY <1>11, <2>1 DEF AnswerRefused, Redrawn, Draw, OrdersTrue, SoldAsShown, CheckoutWaits, Saving,
       CounterTypeOK, Order, UnderWay
  <2> QED BY <2>2, <2>4, <2>5
<1>12. ASSUME NEW what \in {"pay", "quote"}, Checkout(what) PROVE Pages' /\ Saves' /\ Orders'
  <2>1. Pages' /\ Saves' /\ SoldAsShown'
    BY <1>12 DEF Checkout, detailVars, RequestsAlone, PagesTrue, ShownTrue, Changed, SavesTrue,
       FieldsTrue, SoldAsShown, UnderWay, Saving, Answering
  <2>2. CASE UNCHANGED order
    BY <1>12, <2>1, <2>2 DEF Checkout, OrdersTrue, CheckoutWaits, UnderWay, Saving
  <2>3. CASE SendOrder(what) /\ ~Saving
    BY <1>12, <2>1, <2>3, SendOrderTrue DEF Checkout
  <2> QED BY <1>12, <2>2, <2>3 DEF Checkout
<1>13. CASE Accept
  <2>1. Pages' /\ Saves' /\ SoldAsShown'
    BY <1>13 DEF Accept, detailVars, RequestsAlone, PagesTrue, ShownTrue, Changed, SavesTrue,
       FieldsTrue, SoldAsShown, UnderWay, Saving, Answering
  <2>2. CASE UNCHANGED order
    BY <1>13, <2>1, <2>2 DEF Accept, OrdersTrue, CheckoutWaits, UnderWay, Saving
  <2>3. CASE SendOrder("pay") /\ ~Saving
    BY <1>13, <2>1, <2>3, SendOrderTrue DEF Accept
  <2> QED BY <1>13, <2>2, <2>3 DEF Accept
<1>14. CASE Dismiss
  BY <1>14 DEF Dismiss, detailVars, RequestsAlone, PagesTrue, ShownTrue, Changed, SavesTrue,
     FieldsTrue, OrdersTrue, SoldAsShown, CheckoutWaits, UnderWay, Saving, Answering
<1>15. CASE ServeOrder
  <2>1. order.fields \in Details
    BY DEF CounterTypeOK, Order
  <2>2. PICK fields \in Details, c \in Modals \cup {"none"}, at \in {"cart", "checkout"} :
           Load(fields, c, at)
    BY <1>15, <1>0, <2>1, SheetParts DEF ServeOrder, CounterTypeOK
  <2>3. Pages' /\ Saves' /\ OrdersTrue' /\ CheckoutWaits'
    BY <2>2, LoadTrue
  <2>4. SoldAsShown'
    <3>1. CASE UNCHANGED outcome
      BY <3>1 DEF SoldAsShown
    <3>2. CASE /\ saved' = [saved EXCEPT !.details = order.fields]
               /\ outcome' = [what |-> order.what, sold |-> saved', shown |-> order.shown,
                              plain |-> order.plain]
      BY <3>2 DEF SoldAsShown, OrdersTrue, CounterTypeOK, Sheet
    <3> QED BY <1>15, <3>1, <3>2 DEF ServeOrder
  <2> QED BY <2>3, <2>4
<1>16. CASE Return
  <2>1. Pages' /\ Saves' /\ OrdersTrue' /\ CheckoutWaits'
    BY <1>16, <1>0, SheetParts, LoadTrue DEF Return, CounterTypeOK
  <2> QED BY <1>16, <2>1 DEF Return, SoldAsShown
<1>17. CASE ServeSaveAsCheckout
  <2>1. /\ wires["details"].stage = "sent" /\ UnderWay' = UnderWay /\ Saving /\ Saving'
        /\ wires'["details"].stage = "unread" /\ wires'["details"].alone = wires["details"].alone
        /\ \A j \in Kinds \ {"details"} : wires'[j] = wires[j]
    BY <1>17 DEF ServeSaveAsCheckout, CounterTypeOK, Wire, UnderWay, Saving, Kinds
  <2>2. RequestsAlone' /\ PagesTrue'
    BY <1>17, <2>1 DEF ServeSaveAsCheckout, RequestsAlone, PagesTrue, Answering, Saving
  <2>3. ShownTrue' /\ Saves'
    BY <1>17, <2>1 DEF ServeSaveAsCheckout, ShownTrue, SavesTrue, FieldsTrue, Changed, detailVars, Kinds
  <2>4. ~order.plain
    BY <2>1 DEF OrdersTrue, CounterTypeOK, Order, Saving
  <2>5. Orders'
    BY <1>17, <2>1, <2>4 DEF ServeSaveAsCheckout, OrdersTrue, SoldAsShown, CheckoutWaits
  <2> QED BY <2>2, <2>3, <2>5
<1> HIDE DEF Pages, Saves, Orders, CounterInv
<1> QED
  BY <1>1, <1>2, <1>3, <1>4, <1>5, <1>6, <1>7, <1>8, <1>9, <1>10, <1>11, <1>12, <1>13, <1>14,
     <1>15, <1>16, <1>17 DEF CounterNext

LEMMA CounterBegins == CounterInit => CounterInv
<1> SUFFICES ASSUME CounterInit PROVE CounterInv
  OBVIOUS
<1>1. CounterTypeOK
  BY BlankFits, KeptTyped, SheetParts DEF CounterInit, CounterTypeOK
<1> QED
  BY <1>1 DEF CounterInit, CounterInv, RequestsAlone, PagesTrue, ShownTrue, Changed, SavesTrue,
     FieldsTrue, OrdersTrue, SoldAsShown, CheckoutWaits, UnderWay, Answering, NoWire, NoOrder,
     NoOutcome, Kinds, KeptOf, Saving

LEMMA CounterInvSuffices == CounterInv /\ PaymentsAreConfirmed => CounterScreenIsSound
<1> SUFFICES ASSUME CounterInv, PaymentsAreConfirmed PROVE CounterScreenIsSound
  OBVIOUS
<1> USE DEF CounterInv
<1>1. RestShowsCart
  BY DEF RestShowsCart, ShownTrue, Changed, UnderWay
<1>2. FieldsAreSaved
  <2> SUFFICES ASSUME modal = "none", ~Saving, ~loose, ~crossed
               PROVE  field = shown.details /\ kept = KeptOf(field)
    BY DEF FieldsAreSaved
  <2>1. wires["details"].stage = "none"
    BY DEF Saving, UnderWay, Kinds
  <2>2. \A f \in Fields : field[f] = saved.details[f]
    BY <2>1, ScreenFields DEF FieldsTrue, Changed, Fields
  <2>3. \A c \in Modals : kept[c] = field[c]
    BY <2>1, <2>2 DEF FieldsTrue, Changed, Fields
  <2>4. field = saved.details
    BY <2>2, SheetParts DEF CounterTypeOK, Details
  <2>5. shown.details = saved.details
    BY <2>1 DEF ShownTrue, Changed
  <2>6. kept = KeptOf(field)
    BY <2>3 DEF KeptOf, CounterTypeOK
  <2> QED BY <2>4, <2>5, <2>6
<1> QED BY <1>1, <1>2 DEF CounterScreenIsSound

\* A payment that was posted stays confirmed until its page is left, and the page
\* from which a cart was sold unasked is not left for another one.
LEMMA ConfirmedStep ==
    ASSUME CounterTypeOK, PaymentsAreConfirmed, [CounterNext]_counterVars
    PROVE  PaymentsAreConfirmed'
<1> USE DEF PaymentsAreConfirmed
<1>1. CASE UNCHANGED counterVars
  BY <1>1 DEF counterVars, checkoutVars
<1>2. CASE \E k \in Kinds : Press(k) \/ LoseAnswer(k)
  BY <1>2 DEF Press, LoseAnswer, checkoutVars
<1>3. CASE \E k \in Kinds : Serve(k) \/ AnswerEdit(k)
  BY <1>3 DEF Serve, AnswerEdit, checkoutVars
<1>4. CASE (\E c \in Modals : OpenModal(c)) \/ CancelModal \/ SaveForm
  BY <1>4 DEF OpenModal, CancelModal, SaveForm, checkoutVars
<1>5. CASE \E f \in Fields, e \in Entries : TypeIn(f, e)
  BY <1>5 DEF TypeIn, checkoutVars
<1>6. CASE ServeSaveAsCheckout
  BY <1>6 DEF ServeSaveAsCheckout
<1>7. CASE AnswerSaved \/ AnswerRefused \/ Dismiss
  BY <1>7 DEF AnswerSaved, AnswerRefused, Dismiss
<1>8. CASE \E what \in {"pay", "quote"} : Checkout(what)
  BY <1>8 DEF Checkout, SendOrder
<1>9. CASE Accept
  BY <1>9 DEF Accept, SendOrder
<1>10. CASE ServeOrder
  <2>1. order'.what = "none"
    BY <1>10 DEF ServeOrder, Load, NoOrder
  <2>2. outcome'.what # "unasked"
    BY <1>10 DEF ServeOrder, NoOutcome, CounterTypeOK, Order
  <2> QED BY <2>1, <2>2
<1>11. CASE Return
  BY <1>11 DEF Return, Load, NoOrder, NoOutcome
<1> QED
  BY <1>1, <1>2, <1>3, <1>4, <1>5, <1>6, <1>7, <1>8, <1>9, <1>10, <1>11 DEF CounterNext

(* The page of the counter: at rest it shows the cart, its fields say what was saved,  *)
(* a checkout sells what was shown and waits for what is under way, and a payment that  *)
(* is posted was confirmed, for any values and any loss or crossing of answers           *)
(* (inventory-ui.js, jims-ui.js, cart_detail.html).                                   *)
THEOREM CounterScreenSound == CounterSpec => []CounterScreenIsSound
<1>1. CounterInv /\ [CounterNext]_counterVars => CounterInv'
  BY CounterStep
<1>2. CounterInv /\ PaymentsAreConfirmed /\ [CounterNext]_counterVars => PaymentsAreConfirmed'
  BY ConfirmedStep DEF CounterInv
<1>3. CounterInit => PaymentsAreConfirmed
  BY DEF CounterInit, PaymentsAreConfirmed, NoOrder, NoOutcome
<1>4. CounterInv /\ PaymentsAreConfirmed => CounterScreenIsSound
  BY CounterInvSuffices
<1> QED BY <1>1, <1>2, <1>3, <1>4, CounterBegins, PTL DEF CounterSpec
================================================================================
