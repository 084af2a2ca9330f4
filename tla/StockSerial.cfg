\* Requests that do not overlap: two purchases, two sales, two serial numbers.
\* Beside them, the prices of one sale of two products, and the page of a sale with
\* three fields.
SPECIFICATION SalesSpec
CONSTANTS
    cable = cable
    modem = modem
    Products <- MCProducts
    Serialized <- MCSerialized
    Serials = {s1, s2}
    Purchases = {u1, u2}
    Sales = {a1, a2}
    Orders <- MCOrders
    Requests = {q1}
    Legacy = {0}
    MaxOnHand = 2
    MaxAdjusted = 1
    Nothing = Nothing
    Overlap = FALSE
    Goods <- MCProducts
    Offers <- MCOffers
    Costs = {23}
    Limits <- MCLimits
    Reductions = {0, 2}
    Tiers = {"retail", "wholesale"}
    Categories = {"customer_tier", "retail"}
    VAT = 18
    MostOf <- MCMostOf
    Sent <- MCSent
    Refunds = {1, 29}
    MaxNotes = 1
    notes = notes
    discount = discount
    customer = customer
    Modals = {notes, discount}
    Others = {customer}
    Entries = {0, 1}
    MaxEdits = 2
SYMMETRY Interchangeable
\* A sale that is issued and credited stays as it is.
CHECK_DEADLOCK FALSE
INVARIANTS
    PurchasesArriveOnce
    CopiesAgree
    CounterScreenIsSound
PROPERTIES
    SalesAreSound
