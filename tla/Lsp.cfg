SPECIFICATION Spec
CONSTANTS
    d1 = d1
    d2 = d2
    v1 = v1
    v2 = v2
    Garbled = Garbled
    NoDoc = NoDoc
    None = None
    Closed = Closed
    Docs = {d1, d2}
    Fields = {"select", "ignore"}
    Values = {v1, v2}
    Users <- MCUsers
    Editors <- MCEditors
    MaxClock = 4
INVARIANTS
    SettledShowsCurrent
    CodeActionsMatchText
    SettledFollowsFile
    SettledFollowsEditor
PROPERTIES
    SettlesOrEnds
    EveryRequestAnswered
    EndsWithClient
CHECK_DEADLOCK FALSE
