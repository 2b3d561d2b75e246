SPECIFICATION MCSpec
CONSTANTS
    Expenses = {e1, e2}
    Budgets = {g1}
    Orders = {o1}
    Advances = {a1}
    MaxDocs = 2
    Deciders = {p1, p2}
    MaxMessages = 2
    MaxDeliveries = 2
    Callers = {p1, p2}
    Folders = {f1}
    MaxVersion = 2
    MaxUploads = 3
    n1 = n1
    n2 = n2
    Events = {n1, n2}
    Senders = {"email"}
    ChannelOf <- SmallChannels
    MaxDeliver = 2
    Handlers = {p1, p2}
    MaxCheckouts = 3
    Tabs = {t1, t2}
    People = {u1, u2}
    Flows = {p1, p2}
    MaxPairs = 2
    Nobody = nobody
SYMMETRY CallSymmetry
INVARIANTS DecidedOnce    StatusAgrees ShownOwnsToken
CHECK_DEADLOCK FALSE
