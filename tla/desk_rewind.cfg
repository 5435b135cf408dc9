\* Two requests at a time, one quote: does the inquiry ever move back?
SPECIFICATION Spec
CONSTANTS
    None = None
    Sessions = {s1, s2}
    Suppliers = {p1}
    MaxRfqs = 1
    MaxSupplierQuotes = 1
    MaxQuotes = 1
    Expected = 1
    MinSupplierQuotes = 1
    Repeated = {1}
    MaxMails = 1
    MaxOrders = 1
SYMMETRY Symmetry
PROPERTIES NeverRewinds
CHECK_DEADLOCK FALSE
