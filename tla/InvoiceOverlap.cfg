SPECIFICATION OwingSpec
CONSTANTS
    Invoices = {i1, i2}
    Receipts = {r1}
    Notes = {n1}
    Refs = {}
    NoRef = NoRef
    NoDoc = NoDoc
    Requests = {q1, q2}
    MaxTotal = 2
    Overlap = TRUE
SYMMETRY Interchangeable
CHECK_DEADLOCK FALSE
INVARIANTS
    VoidCarriesNoMoney
    SettlementStatusIsEarned
PROPERTIES
    StockLeavesOnFullPayment
