\* Two graph requests of one inquiry, overlapping or not, one of which may die or end
\* in an error; reviewers, suppliers and edits in between.
SPECIFICATION GraphSpec
CONSTANTS
    None = None
    Runs = {r1, r2}
    StartNodes = {"understand", "optimize", "booking", "vessel_tracking"}
    TogetherNodes = {"understand"}
    LaterNodes = {}
    MaxQuotesTogether = 1
    Suppliers = {a, b}
    SeedA = a
    SeedB = b
    Production = FALSE
    DemoShortcuts = TRUE
    MaxRfqs = 2
    MaxSupplierQuotes = 2
    MaxQuotes = 2
    Expected = 2
    MinSupplierQuotes = 2
    MaxFailures = 1
SYMMETRY Symmetry
INVARIANTS CursorBacked EffectsBounded WaitsForTheAsked ApprovalIsUsable GateIsAhead
PROPERTIES GraphGated
CHECK_DEADLOCK FALSE
