\* Requests interleave, every product has a legacy quantity: one purchase that may
\* be edited while it is received, two sales, two serial numbers.  Beside them, the
\* import dialog of a purchase: two rows, two sources, one serial number; in the
\* scenes that are not about the form the dialog ends when its items are added.  Its
\* requests take the names of the sales, for one symmetry serves both.
SPECIFICATION DeskSpec
CONSTANTS
    cable = cable
    modem = modem
    Products <- MCProducts
    Serialized <- MCSerialized
    Serials = {s1, s2}
    Purchases = {u1}
    Sales = {a1, a2}
    Orders <- MCMixedOrders
    Requests = {q1}
    Legacy = {1}
    MaxOnHand = 2
    MaxAdjusted = 1
    Nothing = Nothing
    Overlap = TRUE
    plain = plain
    marked = marked
    sn = sn
    Texts = {plain, marked}
    SerialNumbers = {sn}
    NumbersIn <- MCNumbersIn
    f1 = f1
    Files = {f1, f2}
    NoFile = NoFile
    Slots = {a1, a2}
    MaxRows = 2
SYMMETRY Interchangeable
INVARIANTS
    MovementsExplainBalance
PROPERTIES
    UnitsLeaveOnce
    PurchaseScreenIsSound
CHECK_DEADLOCK FALSE
