\* Codes: one typed, one batch key, three products.  Imports: two purchases, two
\* batches that share a new product, one workspace.  Invitations: two workspaces,
\* two open pages.  Access: a superuser and two users in two companies, four session keys, two requests.
SPECIFICATION OfficeSpec
CONSTANTS
    OwnCodes = {1}
    Keys = {k1}
    Contents <- MCContents
    Editors = {e1}
    MaxProducts = 3
    MaxSku = 4
    n1 = n1
    Purchases = {p1, p2}
    Tokens = {t1}
    References = {n1}
    Batches <- MCBatches
    Workspaces = {w1}
    MaxLines = 2
    Tenants = {b1, b2}
    Roles = {sales, technician}
    Pages = {g1, g2}
    MaxInvitations = 2
    u1 = u1
    u2 = u2
    u3 = u3
    c1 = c1
    c2 = c2
    q2 = q2
    k1 = k1s
    k2 = k2s
    k3 = k3s
    k4 = k4s
    SessionKeys = {k1s, k2s, k3s, k4s}
    Nobody = Nobody
    Users = {u1, u2, u3}
    Companies = {c1, c2}
    Actions = {q1, q2}
    ActionCodes = {d1, d2}
    Delegable = {d1}
    Nowhere = Nowhere
    FirstCompany = c1
    Founders <- MCFounders
    MaxSupport = 2
SYMMETRY MCSymmetry
CHECK_DEADLOCK FALSE
INVARIANTS
    CodesAreSound
PROPERTIES
    ImportsAreSound
    InvitationsAreSound
    AccessIsSound
