\* One request at a time: nothing overlaps.
SPECIFICATION OutreachSpec
CONSTANTS
    Sessions = {s1}
    Shippers = {h}
    Vendors = {v1}
    MaxDrafts = 2
    MaxPerWindow = 2
    MaxLost = 0
    MaxPool = 1
    TogetherOps = {}
    Nobody = Nobody
PROPERTIES NoMailAfterOptOut
CHECK_DEADLOCK FALSE
