CONSTANTS
    Proc = {p, q}
    Slot = {1, 2}
    NoSnapshot = NoSnapshot
    Free = Free
    MaxFaults = 2
    Cursors <- MCCursors
    Projections = {1}
    Stamps = {1}
    AlertIds = {1}
    Contents = {1, 2}
SPECIFICATION ClientsSpec
INVARIANTS WritesUnderLease AcknowledgedAlertsKept
PROPERTIES ReplacesItsBase
CHECK_DEADLOCK FALSE
SYMMETRY Symmetry
