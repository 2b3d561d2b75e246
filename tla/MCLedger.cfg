SPECIFICATION MCSpec
CONSTANTS
    b1 = b1
    b2 = b2
    Books = {b1, b2}
    Clerks = {p1, p2}
    MaxEntries = 3
    MaxSeq <- SmallSeq
    Tellers = {p1, p2}
    Chart <- SmallChart
    OtherCodes = {11, 23, 30}
    bankCodeMin = 20
    bankCodeMax = 29
    bankCodeStep = 3
    bankCreateAttempts = 3
    Invoices = {i1, i2}
    Txns = {x1, x2}
    Years = {2026}
    Payers = {p1, p2}
    MaxNumber = 3
    Methods = {m1, m2, m3}
    Cardholders = {p1, p2}
SYMMETRY CallSymmetry
INVARIANTS VoidCancels NumbersRise  NumberIsFree PaymentKept DefaultIsLatest
PROPERTY NoPostingAfterClose
CHECK_DEADLOCK FALSE
