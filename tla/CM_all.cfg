SPECIFICATION Spec
CONSTANTS
    a1 = a1
    a2 = a2
    s1 = s1
    s2 = s2
    h1 = h1
    h2 = h2
    Account = {a1, a2}
    Server = {s1, s2}
    Handler = {h1, h2}
    Nobody = Nobody
    MaxOwned = 1
    MaxJoined = 1
    MaxPending = 1
    Invites = {1}
    Requests = {1}
    Transfers = {1}
SYMMETRY Symmetry
INVARIANTS OwnerRowIsOwner
PROPERTIES BanHolds QuotasHold DeletingIsFrozen
