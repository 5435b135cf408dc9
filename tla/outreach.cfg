\* Two vendors sell the same shipper; two requests at a time, of which the
\* later is an import, a review or a send (of an opt-out beside a review or a send, the
\* two loads commute).
SPECIFICATION OutreachSpec
CONSTANTS
    Sessions = {s1, s2}
    Shippers = {h}
    Vendors = {v1, v2}
    MaxDrafts = 2
    MaxPerWindow = 1
    MaxLost = 1
    MaxPool = 1
    TogetherOps = {"importing", "reviewing", "sending"}
    Nobody = Nobody
SYMMETRY Symmetry
INVARIANTS EveryMailEarned CapHolds SameShipperOnce
PROPERTIES OptOutSticks
CHECK_DEADLOCK FALSE
