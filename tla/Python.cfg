SPECIFICATION Spec
CONSTANTS
    Runs = {r1, r2}
    Missing = Missing
    NoInfo = NoInfo
    Surprises = {"restless", "nested"}
    MaxClock = 2
INVARIANTS
    SavedAnswerCurrent
    ReplayCurrent
CHECK_DEADLOCK FALSE
