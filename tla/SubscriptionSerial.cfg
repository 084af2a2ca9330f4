\* Requests that do not overlap: one subscription, three months a period may start in,
\* three invoices; two subscriptions of a customer over two months, two invoices.
SPECIFICATION DeskSpec
CONSTANTS
    Subs = {s1, s2}
    Invoices = {i1, i2, i3}
    Requests = {q1}
    Horizon = 3
    MaxMonths = 2
    None = None
    Overlap = FALSE
SYMMETRY Interchangeable
\* A subscription may be cancelled for good and every id be used up.
CHECK_DEADLOCK FALSE
INVARIANTS
    PaidThroughIsLastPaid
    CoverageIsTraceable
    WorklistsAreTrue
PROPERTIES
    CoverageIsKept
