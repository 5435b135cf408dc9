\* Two requests at a time, two quotes: a verdict committed late.
SPECIFICATION Spec
CONSTANTS
    None = None
    Sessions = {s1, s2}
    Suppliers = {p1}
    MaxRfqs = 1
    MaxSupplierQuotes = 1
    MaxQuotes = 2
    Expected = 1
    MinSupplierQuotes = 1
    Repeated = {1, 2}
    MaxMails = 1
    MaxOrders = 1
SYMMETRY Symmetry
INVARIANTS SentIsNotApproved
CHECK_DEADLOCK FALSE
