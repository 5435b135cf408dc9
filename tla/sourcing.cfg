SPECIFICATION SourcingSpec
CONSTANTS
    Pages = 2
    MaxCalls = 2
    MaxFaults = 1
INVARIANTS SourcingTypeOK NoPageSkipped
PROPERTIES SourcePolledAgain SourceReadFromTheTop
CHECK_DEADLOCK FALSE
