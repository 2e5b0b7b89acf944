SPECIFICATION Spec
CONSTANTS
    p = p
    q = q
    d = d
    None = None
    Message = {p, q, d}
    Pipeline = {p, q}
    MaxQueued = 2
    MaxInterrupts = 1
    MaxPersonal = 1
    MaxFaults = 2
INVARIANTS
    TypeOK
    ClaimNamesQueued
    NothingVanishes
    StartedOncePerOffer
    ResumedIsNotQueued
    NoMessageForgotten
PROPERTIES
    CancelledNeverStarts
SYMMETRY Pipelines
CHECK_DEADLOCK FALSE
