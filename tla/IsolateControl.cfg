SPECIFICATION ControlFairSpec
CONSTANTS
    s1 = s1
    c1 = c1
    c2 = c2
    p1 = p1
    p2 = p2
    none = none
    done = done
    Events = {e1, e2, e3, e4, e5}
    Controls = {d1, d2, d3, d4}
    NULL = NULL
    Capabilities = {c1, c2}
    PauseCapability = c1
    Ports = {p1, p2}
    Responses = {none, done}
    NoResponse = none
    Scenarios <- MCScenarios
    MaxSends = 4
CHECK_DEADLOCK FALSE
INVARIANT
    RequestsKeepTheirPlace
PROPERTIES
    ImplementsQueue
    ImplementsControl
    RequestsAreServed
