\* Two reports of two technicians, two payments of each, three batches; one field of
\* two records; one customer under two edits; two customers, two assets and two snapshots; a cleanup plan over two rows.
SPECIFICATION AdminSpec
CONSTANTS
    Reports = {x1, x2}
    Technicians = {y1, y2}
    Batches = {b1, b2, b3}
    MaxAmount = 1
    MaxPayments = 2
    None = None
    Fields = {f1}
    Holders = {y1, y2}
    FieldRequests = {x1, x2}
    Drafts <- MCDrafts
    Customers = {y1, y2}
    Editors = {x1, x2}
    MaxEntries = 4
    Assets = {x1, x2}
    Puts = {v1, v2}
    Nobody = Nobody
    Rows = {x1, x2}
    Plans = {p1}
    MaxEdits = 1
    MaxAge = 0
    MaxTime = 1
SYMMETRY MCInterchangeable
CHECK_DEADLOCK FALSE
INVARIANTS
    RecordsAreSound
PROPERTIES
    PaymentsAreSound
    ImplementsTechnicianPay
    FieldsAreSound
    AssetsAreSound
    CleanupIsExact
