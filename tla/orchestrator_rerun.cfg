\* Repeated runs from any stage, no crash: how often is space booked?
SPECIFICATION Spec
CONSTANTS
    None = None
    Runs = {r1}
    Suppliers = {a, b}
    SeedA = a
    SeedB = b
    MaxRfqs = 2
    MaxSupplierQuotes = 2
    MaxQuotes = 2
    Expected = 2
    MinSupplierQuotes = 1
    MaxLosses = 0
INVARIANTS OneBooking
CHECK_DEADLOCK FALSE
