\* Two requests that interleave with settlement and with each other.
SPECIFICATION RowsSpec
CONSTANTS
    Subs = {s1}
    Invoices = {i1, i2, i3}
    Requests = {q1, q2}
    Horizon = 2
    MaxMonths = 1
    None = None
    Overlap = TRUE
SYMMETRY Interchangeable
\* A subscription may be cancelled for good and every id be used up.
CHECK_DEADLOCK FALSE
INVARIANTS
    LinksAreSound
