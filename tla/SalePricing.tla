------------------------------ MODULE SalePricing ------------------------------
(***************************************************************************)
(* What a counter sale costs, from the draft to the invoice and its credit     *)
(* notes: the catalogue price of a line for the customer's category, the          *)
(* discounts of lines and of the whole sale, the member's limit on them, the     *)
(* cost floor, VAT and its rounding.  Amounts are in cents, quantities whole;    *)
(* Decimal's 28 digits are taken as exact.                                        *)
(***************************************************************************)
EXTENDS Sums, Sequences, FiniteSetsExt

CONSTANTS
    Goods,        \* the products of the sale
    Offers,       \* prices a product may be given: see Offer
    Costs,        \* average costs a receipt of stock may bring
    Limits,       \* discount grants a member may hold: see Limit
    Reductions,   \* discounts typed into a form
    Tiers,        \* pricing tiers of customers: retail, technician, wholesale
    Categories,   \* sale categories: customer_tier, standard, technician,
                  \* wholesale, and retail of drafts made before there were any
    VAT,          \* the cart's tax rate in percent
    MostOf,       \* bound: the quantity of a line, per product
    Sent,         \* lines an integration may send: quantities and discounts
    Refunds,      \* amounts asked of a credit note
    MaxNotes      \* bound: credit notes of the invoice

Unset == -1

\* Prices of a product (Product): technician, retail and wholesale ones may be
\* left out; wholesale is for `from` units or more.
Offer == [standard : Nat, technician : Nat \cup {Unset}, retail : Nat \cup {Unset},
          wholesale : Nat \cup {Unset}, from : Nat, cost : Nat, taxable : BOOLEAN]

\* A grant of CART_DISCOUNT_APPLY; a manager has none and no limit.
Limit == [manager : BOOLEAN, percent : Nat \cup {Unset}, amount : Nat \cup {Unset}]

ASSUME PricingAssumption ==
    /\ IsFiniteSet(Goods) /\ Offers \subseteq Offer /\ Limits \subseteq Limit
    /\ Costs \cup Reductions \cup Refunds \cup {VAT, MaxNotes} \subseteq Nat
    /\ MostOf \in [Goods -> Nat]
    /\ Sent \subseteq [Goods -> [qty : Nat, price : {0}, off : Nat]]

\* The rates of the code are 18 percent and none; a member with the right may
\* type another.  From 51 percent on, a credit note of one cent takes two.
ASSUME ModestVAT == VAT <= 50

VARIABLES
    offer,     \* the catalogue: the prices and buying price of each product
    average,   \* average cost of the stock on hand, Unset for none received
    till,      \* the draft: its customer's tier, category, lines and discount
    limit,     \* the grant of the member at the till
    bill,      \* the invoice the draft became
    credited   \* totals of the credit notes of that invoice

pricingVars == <<offer, average, till, limit, bill, credited>>

NoLine == [qty |-> 0, price |-> 0, off |-> 0]
NoBill == [lines |-> [p \in Goods |-> NoLine], off |-> 0, subtotal |-> 0, tax |-> 0,
           total |-> Unset, by |-> "none"]

------------------------------------------------------------------------------
(* Rounding to cents of n / d, for n >= 0 < d.                                *)
HalfUp(n, d) == (2 * n + d) \div (2 * d)

HalfEven(n, d) ==
    IF (2 * n) % d = 0 /\ ((2 * n) \div d) % 2 = 1 /\ HalfUp(n, d) % 2 = 1
    THEN HalfUp(n, d) - 1 ELSE HalfUp(n, d)

------------------------------------------------------------------------------
(* Product.price_for, price_for_sale_category, effective_technician_price.    *)
Break(o, n) == o.wholesale # Unset /\ n >= o.from

PriceIn(o, category, n) ==
    CASE category = "technician" -> IF o.technician # Unset THEN o.technician ELSE o.standard
      [] category = "wholesale" -> IF Break(o, n) THEN o.wholesale ELSE o.standard
      [] category = "standard" -> o.standard
      [] OTHER -> IF o.retail # Unset THEN o.retail ELSE o.standard

\* Customer.default_sale_pricing_category; a walk-in sale has the standard tier.
TierCategory(tier) == IF tier = "retail" THEN "standard" ELSE tier

\* CartService.line_pricing: the category the draft prices a line in.
DraftCategory(o, tier, category, n) ==
    CASE category = "customer_tier" -> TierCategory(tier)
      [] category = "retail" -> IF Break(o, n) THEN "wholesale" ELSE "retail"
      [] OTHER -> category

DraftPrice(o, tier, category, n) == PriceIn(o, DraftCategory(o, tier, category, n), n)

\* The pricing mode line_pricing returns beside the price.
DraftMode(o, tier, category, n) ==
    LET named == DraftCategory(o, tier, category, n) IN
    IF named = "wholesale" /\ DraftPrice(o, tier, category, n) # o.wholesale THEN "standard" ELSE named

\* _build_line_items: the category the invoice prices the same line in.
BillCategory(o, tier, category, n) ==
    LET mode == DraftMode(o, tier, category, n) IN
    CASE category = "customer_tier" -> TierCategory(tier)
      [] category = "retail" -> IF mode = "wholesale" \/ tier = "wholesale" THEN "wholesale" ELSE "retail"
      [] category = "standard" /\ mode = "wholesale" -> "wholesale"
      [] OTHER -> category

BillPrice(o, tier, category, n) == PriceIn(o, BillCategory(o, tier, category, n), n)

------------------------------------------------------------------------------
Rows(lines)     == {p \in Goods : lines[p].qty > 0}
Gross(lines)    == SumOf(Rows(lines), [p \in Goods |-> lines[p].qty * lines[p].price])
LinesOff(lines) == SumOf(Rows(lines), [p \in Goods |-> lines[p].off])

\* line_total of an invoice line; a draft's line shows no less than 0.
Net(l)            == l.qty * l.price - l.off
Shown(l)          == IF Net(l) < 0 THEN 0 ELSE Net(l)
Proceeds(lines)   == [p \in Goods |-> Shown(lines[p])]
Subtotal(lines)   == SumOf(Rows(lines), Proceeds(lines))
Taxed(lines)      == SumOf({p \in Rows(lines) : offer[p].taxable}, Proceeds(lines))

\* compute_totals refuses a discount above the subtotal, else it takes the
\* share of the taxable lines off before VAT.
TotalsExist(lines, off) == off >= 0 /\ off <= Subtotal(lines)

TaxOf(lines, off) ==
    IF Subtotal(lines) = 0 THEN 0
    ELSE HalfUp(Taxed(lines) * (Subtotal(lines) - off) * VAT, 100 * Subtotal(lines))

TotalOf(lines, off) == Subtotal(lines) - off + TaxOf(lines, off)

\* The same without the share.
AboveCostUnshared(l, cost, off, subtotal) == Net(l) > cost * l.qty

\* validate_net_unit_price: with its share of the discount taken off, a line
\* brings more per unit than the product costs.
AboveCost(l, cost, off, subtotal) ==
    IF subtotal = 0 THEN Net(l) > cost * l.qty
    ELSE Net(l) * subtotal - off * Shown(l) > cost * l.qty * subtotal

\* cost_floor_for: the average cost of stock there is, else the buying price.
Floor(p) == IF average[p] # Unset THEN average[p] ELSE offer[p].cost

AllAboveCost(lines, off) ==
    \A p \in Rows(lines) : AboveCost(lines[p], Floor(p), off, Subtotal(lines))

\* maximum_discount_for, discount_authorization_error.
Capped(g) ==
    LET shares == (IF limit.percent = Unset THEN {} ELSE {HalfUp(g * limit.percent, 100)})
                  \cup (IF limit.amount = Unset THEN {} ELSE {limit.amount})
    IN  IF shares = {} THEN 0 ELSE Min(shares)

Authorized(lines, off) ==
    \/ limit.manager
    \/ off + LinesOff(lines) <= 0
    \/ off + LinesOff(lines) <= Capped(Gross(lines))

------------------------------------------------------------------------------
\* Product.clean compares the prices with the buying price, not with the
\* average cost, and the retail price with nothing.
Priced(o) ==
    /\ o.standard > o.cost
    /\ \A price \in {o.technician, o.wholesale} : price = Unset \/ price > o.cost

PricingInit ==
    /\ offer \in [Goods -> {o \in Offers : Priced(o)}]
    /\ average = [p \in Goods |-> Unset]
    /\ till \in [tier : {"retail"}, category : {"customer_tier", "retail"},
                 lines : {[p \in Goods |-> NoLine]}, off : {0}]
    /\ limit \in Limits
    /\ bill = NoBill /\ credited = <<>>

Draft == bill = NoBill

\* A manager edits the product while the sale is open.
EditProduct(p) ==
    /\ Draft
    /\ \E o \in Offers : /\ Priced(o) /\ o.taxable = offer[p].taxable
                         /\ offer' = [offer EXCEPT ![p] = o]
    /\ UNCHANGED <<average, till, limit, bill, credited>>

\* Stock is received at another price: nothing compares it with the prices.
ReceiveAtCost(p) ==
    /\ Draft
    /\ \E c \in Costs : average' = [average EXCEPT ![p] = c]
    /\ UNCHANGED <<offer, till, limit, bill, credited>>

\* A manager changes the grant of the member.
ChangeLimit ==
    /\ Draft /\ limit' \in Limits
    /\ UNCHANGED <<offer, average, till, bill, credited>>

AtTill == Draft /\ UNCHANGED <<offer, average, limit, bill, credited>>

\* refresh_cart_prices.
Refreshed(lines, tier, category) ==
    [p \in Goods |-> IF lines[p].qty = 0 THEN NoLine
                     ELSE [lines[p] EXCEPT !.price = DraftPrice(offer[p], tier, category, lines[p].qty)]]

\* A line of n units at today's price, under the floor and the limit; the other
\* lines keep the price they were saved with.
WriteLine(p, n, off) ==
    LET price == DraftPrice(offer[p], till.tier, till.category, n)
        lines == [till.lines EXCEPT ![p] = [qty |-> n, price |-> price, off |-> off]]
    IN  /\ AboveCost(lines[p], Floor(p), 0, 1)
        /\ Authorized(lines, till.off)
        /\ till' = [till EXCEPT !.lines = lines]

\* CartLineForm.clean looks at the category of the form, where customer_tier
\* has no price of its own.
FormAccepts(p, n, off) == n <= MostOf[p] /\ off <= PriceIn(offer[p], till.category, n) * n

\* save_line: more of a product adds quantities and discounts up, an edited
\* line takes the form's.
AddLine(p, off) ==
    LET n == till.lines[p].qty + 1
        d == till.lines[p].off + off
    IN  AtTill /\ FormAccepts(p, n, d) /\ WriteLine(p, n, d)

EditLine(p, n, off) ==
    AtTill /\ till.lines[p].qty > 0 /\ FormAccepts(p, n, off) /\ WriteLine(p, n, off)

\* adjust_line "decrease"; the last unit removes the line.
TakeOne(p) ==
    AtTill /\ till.lines[p].qty > 1 /\ WriteLine(p, till.lines[p].qty - 1, till.lines[p].off)

\* remove_line looks neither at the limit nor at the discount of the sale.
RemoveLine(p) ==
    AtTill /\ till.lines[p].qty > 0 /\ till' = [till EXCEPT !.lines[p] = NoLine]

\* set_line_discount: on fresh prices, with the floor of every line.
SetLineDiscount(p, off) ==
    LET fresh == Refreshed(till.lines, till.tier, till.category)
        lines == [fresh EXCEPT ![p].off = off]
    IN  /\ AtTill /\ till.lines[p].qty > 0
        /\ off <= fresh[p].qty * fresh[p].price
        /\ Authorized(lines, till.off)
        /\ till.off <= Subtotal(lines)
        /\ AllAboveCost(lines, till.off)
        /\ till' = [till EXCEPT !.lines = lines]

\* CartForm.clean: the limit and the costs, on the prices saved so far; the category
\* of old drafts is offered to these only.
DetailsAccepted(category, off) ==
    /\ category = "retail" => till.category = "retail"
    /\ Authorized(till.lines, off)
    /\ AllAboveCost(till.lines, off)

\* save_details: the limit and the totals again, on fresh prices.
SaveDetails(tier, category, off) ==
    LET fresh == Refreshed(till.lines, tier, category) IN
    /\ AtTill
    /\ DetailsAccepted(category, off) /\ Authorized(fresh, off)
    /\ TotalsExist(fresh, off)
    /\ till' = [tier |-> tier, category |-> category, lines |-> fresh, off |-> off]

\* _build_line_items: the prices of the invoice are found again.
Billed(lines, tier, category) ==
    [p \in Goods |-> IF lines[p].qty = 0 THEN NoLine
                     ELSE [lines[p] EXCEPT !.price = BillPrice(offer[p], tier, category, lines[p].qty)]]

Stored(lines, off, by) ==
    [lines |-> lines, off |-> off, subtotal |-> Subtotal(lines),
     tax |-> TaxOf(lines, off), total |-> TotalOf(lines, off), by |-> by]

\* create_document: no negative line, every product above its cost, the
\* totals; any refusal rolls back what the request did.
Store(lines, off, by) ==
    /\ Rows(lines) # {}
    /\ \A p \in Rows(lines) : lines[p].off >= 0 /\ Net(lines[p]) >= 0
    /\ AllAboveCost(lines, off)
    /\ TotalsExist(lines, off)
    /\ bill' = Stored(lines, off, by)

\* convert: fresh prices and the limit, then create_document.
Convert ==
    LET fresh == Refreshed(till.lines, till.tier, till.category) IN
    /\ Draft
    /\ \A p \in Rows(fresh) : fresh[p].off <= fresh[p].qty * fresh[p].price
    /\ Authorized(fresh, till.off)
    /\ Store(Billed(fresh, till.tier, till.category), till.off, "till")
    /\ till' = [till EXCEPT !.lines = fresh]
    /\ UNCHANGED <<offer, average, limit, credited>>

\* InvoiceCreateSerializer.create: the same sale sent by an integration.  The
\* serial numbers are looked at when the invoice is already committed: a
\* client that named wrong ones is refused and the invoice stays.
SendInvoice(lines, category, off, serialsFit) ==
    /\ Draft /\ till.lines = [p \in Goods |-> NoLine]
    /\ LET priced == Billed(lines, till.tier, category) IN
          /\ Authorized(priced, off)
          /\ Store(priced, off, IF serialsFit THEN "api" ELSE "refused")
    /\ till' = [till EXCEPT !.category = category]
    /\ UNCHANGED <<offer, average, limit, credited>>

------------------------------------------------------------------------------
(* Credit notes are asked for by total; the subtotal is found by trial.      *)
CreditSubtotal(amount) ==
    LET base     == HalfEven(100 * amount, 100 + VAT)
        Tried    == {s \in (base - 5)..(base + 5) : s > 0}
        total(s) == s + HalfEven(s * VAT, 100)
        miss(s)  == IF total(s) > amount THEN total(s) - amount ELSE amount - total(s)
        least    == Min({miss(s) : s \in Tried})
    IN  IF VAT = 0 THEN amount ELSE Min({s \in Tried : miss(s) = least})

Repaid == SumOf(DOMAIN credited, [k \in DOMAIN credited |-> credited[k].total])

\* compute_totals of the note's one line, which has no product: all of it taxed.
CreateNote(amount) ==
    LET s == CreditSubtotal(amount) IN
    /\ ~Draft /\ Len(credited) < MaxNotes
    /\ amount > 0 /\ amount <= bill.total - Repaid
    /\ credited' = Append(credited, [asked |-> amount, subtotal |-> s,
                                     total |-> s + HalfUp(s * VAT, 100)])
    /\ UNCHANGED <<offer, average, till, limit, bill>>

PricingNext ==
    \/ \E p \in Goods :
          \/ EditProduct(p) \/ ReceiveAtCost(p) \/ TakeOne(p) \/ RemoveLine(p)
          \/ \E off \in Reductions :
                \/ AddLine(p, off) \/ SetLineDiscount(p, off)
                \/ \E n \in 1..MostOf[p] : EditLine(p, n, off)
    \/ ChangeLimit
    \/ \E tier \in Tiers, category \in Categories, off \in Reductions : SaveDetails(tier, category, off)
    \/ Convert
    \/ \E lines \in Sent, category \in Categories \ {"retail"}, off \in Reductions, fit \in BOOLEAN :
          SendInvoice(lines, category, off, fit)
    \/ \E amount \in Refunds \cup {bill.total - Repaid} : CreateNote(amount)

PricingSpec == PricingInit /\ [][PricingNext]_pricingVars

------------------------------------------------------------------------------
Miss(k) == credited[k].total - credited[k].asked

\* A credit note asks for a total and is written as a subtotal: what it takes
\* off is the amount asked or a cent beside it, a cent more only where VAT on
\* the subtotal ends in half a cent; a fully taxed invoice credited whole is
\* credited to the cent (_credit_note_subtotal_for_total).
CreditsAddUp ==
    \A k \in DOMAIN credited :
        /\ Miss(k) \in -1..1
        /\ Miss(k) = 1 => (credited[k].subtotal * VAT) % 100 = 50
        /\ k = 1 /\ credited[1].asked = bill.total
             /\ (\A p \in Rows(bill.lines) : offer[p].taxable) => Miss(1) = 0

\* A draft of before the categories, for a wholesale customer: the till shows
\* retail prices, the invoice bills standard ones below the quantity break.
OldWholesale == till.category = "retail" /\ till.tier = "wholesale"

\* However the catalogue, the cost, the customer and the grant changed while the
\* sale was open, what is issued earns more than the goods cost now, gives no
\* more away than the member may now, taxes no exempt product, and is what
\* the till shows at the prices of now.
IssuedWell ==
    LET given == bill'.off + LinesOff(bill'.lines)
        cost  == SumOf(Rows(bill'.lines), [p \in Goods |-> bill'.lines[p].qty * Floor(p)])
    IN  /\ bill'.subtotal - bill'.off > cost
        /\ limit.manager \/ given = 0 \/ given <= Capped(Gross(bill'.lines))
             \/ OldWholesale
        /\ bill'.tax <= HalfUp(Taxed(bill'.lines) * VAT, 100)
        /\ bill'.by = "till" /\ ~OldWholesale =>
             bill'.total = TotalOf(till'.lines, till'.off)

\* Sales cost what the till showed and pay for the goods (services.py
\* create_document, CartService.convert, InvoiceCreateSerializer).
SalesAreSound ==
    /\ []CreditsAddUp
    /\ [][Draft /\ bill' # NoBill => IssuedWell]_pricingVars
=============================================================================
