\* Two carts, two tabs, one product of which one unit is left, three documents;
\* cleanup deletes after one tick and abandons after two.
SPECIFICATION FairSpec
CONSTANTS
    Carts = {c1, c2}
    Products = {p1}
    Docs = {d1, d2, d3}
    Tokens = {t1, t2}
    Requests = {r1, r2}
    OnShelf <- MCOnShelf
    MaxQty = 1
    EmptyAfter = 1
    IdleAfter = 2
    MaxTime = 2
    None = None
CHECK_DEADLOCK FALSE
INVARIANTS
    CounterIsSound
PROPERTIES
    CleanupIsRight
    ImplementsCounterSale
