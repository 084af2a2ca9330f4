\* Two transactions over three scopes; one quotation of three versions and two
\* invoices under two requests; two sheets, charges and invoices, where a number
\* of two digits already sorts before one of one; three that lock rows.
SPECIFICATION DeskSpec
CONSTANTS
    INV = INV
    RCT = RCT
    PUR = PUR
    None = None
    Scopes = {INV, RCT, PUR}
    Typed = {PUR}
    Plans <- MCPlans
    Transactions = {p1, p2}
    MaxNumber = 2
    QuoteRequests = {q1, q2}
    MaxVersions = 3
    MaxGenerated = 2
    Sheets = {s1, s2}
    Charges = {c1, c2}
    SheetInvoices = {i1, i2}
    SheetRequests = {r1, r2}
    Widest = 1
    Requests = {1, 2, 3}
CHECK_DEADLOCK FALSE
INVARIANTS
    NumbersAreSound
    SheetsAreSound
    LockWaitsAreKnown
PROPERTIES
    ImplementsGapless
    NumberingEnds
    QuotationsAreSound
