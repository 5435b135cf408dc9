\* One pipeline run at a time, in production and outside it, reviewers and
\* suppliers in between, crashes after an effect.
SPECIFICATION Spec
CONSTANTS
    None = None
    Runs = {r1}
    Suppliers = {a, b}
    SeedA = a
    SeedB = b
    MaxRfqs = 2
    MaxSupplierQuotes = 2
    MaxQuotes = 3
    Expected = 2
    MinSupplierQuotes = 1
    MaxLosses = 1
INVARIANTS EffectsOnce OneRfq CompletedIsBooked RejectedIsFinal
PROPERTIES Gated NeverRewinds
CHECK_DEADLOCK FALSE
