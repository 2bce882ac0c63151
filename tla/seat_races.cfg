\* Two or three transactions at a time on two bookings and three sessions.
CONSTANTS
    Bookings = {b1, b2}
    Sessions = {1, 2, 3}
    OperatorKeys = {k}
    PublicKeys = {p}
    PublicSessions = {2, 3}
    Capacity <- OneSeatOrTwo
    Connections = {c1, c2, c3}
    None = None
SPECIFICATION PartsSpec
SYMMETRY Symmetry
INVARIANTS
    TypeOK
    SeatsWithinCapacity
    HoldersSitOnOpenSessions
    OnlyReschedulesDeadlock
PROPERTY
    ImplementsCommands
