CONSTANTS
    Requests <- AllRequests
    written = 1
    MaxEvents = 5
    MaxDisturbances = 7
    None = None
SPECIFICATION Spec
PROPERTY GivesUpAfterLimit
