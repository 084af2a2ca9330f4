\* Requests that do not overlap: an invoice and its replacement, two receipts,
\* two credit notes, totals up to 2; three invoices with one receipt.  A customer: two
\* packages, two sites, one service beside older agreements.
SPECIFICATION AccountSpec
CONSTANTS
    Invoices = {i1, i2, i3}
    another = i3
    Receipts = {r1, r2}
    Notes = {n1, n2}
    Refs = {slip}
    NoRef = NoRef
    NoDoc = NoDoc
    Requests = {q1}
    MaxTotal = 2
    Overlap = FALSE
    Packages = {i1, i2}
    MaxSites = 2
    MaxServices = 1
SYMMETRY MCInterchangeable
\* Every id may be used up: the model then stops, the program does not.
CHECK_DEADLOCK FALSE
INVARIANTS
    NoOverSettlement
    SettlementIsSound
    ReplacedOnce
    CustomerIsSound
PROPERTIES
    ClosedStaysClosed
    ImplementsReceivable
