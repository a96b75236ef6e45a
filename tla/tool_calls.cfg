\* Two requests at once on the same connection or on two, one of them named by
\* its transport, and a restart.
CONSTANTS
    Connections = {c1, c2, c3}
    Named = {c3}
    Slots = {s1, s2}
    None = None
    UpstreamCap = 4
    MaxMessages = 2
    MaxClicks = 1
    MaxRestarts = 1
    First = 1
    Base = 2
    Digits = 3
SPECIFICATION Spec
SYMMETRY Symmetry
CHECK_DEADLOCK FALSE
INVARIANTS
    TypeOK
    SessionsAreConnections
    CallsArePaired
    UpstreamIsOwn
    SessionsAddUp
    ErrorsAreFound
    OrderReplayIsExact
