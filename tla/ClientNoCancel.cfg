SPECIFICATION Spec
CONSTANTS
    c1 = c1
    c2 = c2
    zece = zece
    Clients = {c1, c2}
    Null = Null
    NoRow = NoRow
    Malformed = Malformed
    NullSlot = NullSlot
    Rooms <- MCRooms
    Capacity <- MCCapacity
    DefaultCapacity = 1
    Times = {zece}
    OraStart <- MCOraStart
    OraGrup <- MCOraGrup
    Sume = {50}
    Pret = 50
    Countdown = 1
    MaxId = 2
    Faults = {}
INVARIANTS
    ConfirmedCanCancel
