\* One request at a time.
SPECIFICATION Spec
CONSTANTS
    None = None
    Sessions = {s1}
    Suppliers = {p1, p2}
    MaxRfqs = 2
    MaxSupplierQuotes = 3
    MaxQuotes = 3
    Expected = 2
    MinSupplierQuotes = 1
    Repeated = {1, 2, 3}
    MaxMails = 2
    MaxOrders = 2
SYMMETRY Symmetry
INVARIANTS QuotesAgree OneRowEach
PROPERTIES ForwardOnly
CHECK_DEADLOCK FALSE
