\* Two requests at a time, two quotes, an RFQ that needs two answers.
SPECIFICATION Spec
CONSTANTS
    None = None
    Sessions = {s1, s2}
    Suppliers = {p1, p2}
    MaxRfqs = 1
    MaxSupplierQuotes = 2
    MaxQuotes = 2
    Expected = 2
    MinSupplierQuotes = 2
    Repeated = {1}
    MaxMails = 2
    MaxOrders = 2
SYMMETRY Symmetry
INVARIANTS TypeOK FactsOnly StatusHasEvidence BookingsAreOrders AnswersCounted
PROPERTIES Gated VerdictBeforeSent
CHECK_DEADLOCK FALSE
