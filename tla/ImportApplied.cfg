\* The instance of StockOverlap: two rows, two sources, one serial number.  The
\* dialog goes back to its source while a serial check holds up the addition of
\* its rows.
SPECIFICATION DeskSpec
CONSTANTS
    cable = cable
    modem = modem
    Products <- MCProducts
    Serialized <- MCSerialized
    Serials = {s1, s2}
    Purchases = {u1}
    Sales = {a1, a2}
    Orders <- MCMixedOrders
    Requests = {q1}
    Legacy = {1}
    MaxOnHand = 2
    MaxAdjusted = 1
    Nothing = Nothing
    Overlap = TRUE
    plain = plain
    marked = marked
    sn = sn
    Texts = {plain, marked}
    SerialNumbers = {sn}
    NumbersIn <- MCNumbersIn
    f1 = f1
    Files = {f1, f2}
    NoFile = NoFile
    Slots = {a1, a2}
    MaxRows = 2
SYMMETRY Interchangeable
PROPERTIES
    AppliedRowsResolve
CHECK_DEADLOCK FALSE
