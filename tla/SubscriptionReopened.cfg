\* A cancelled period is billed again after its months were sold otherwise.
SPECIFICATION RowsSpec
CONSTANTS
    Subs = {s1}
    Invoices = {i1, i2, i3}
    Requests = {q1}
    Horizon = 2
    MaxMonths = 2
    None = None
    Overlap = FALSE
SYMMETRY Interchangeable
\* A subscription may be cancelled for good and every id be used up.
CHECK_DEADLOCK FALSE
INVARIANTS
    MonthsBilledOnce
