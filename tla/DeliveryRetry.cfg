SPECIFICATION Spec

CONSTANTS
    Deliveries = {d1, d2}
    MaxRetries = 2
    Base = 1
    MaxGap = 2
    Late = 1
    Batch = 1
    MaxFaults = 1

SYMMETRY DeliverySymmetry
INVARIANTS
    AttemptsAccounted
    RetriesWellTimed
