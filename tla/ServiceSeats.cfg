SPECIFICATION Spec
CONSTANTS
    a1 = a1
    a2 = a2
    zece = zece
    zeceJumatate = zeceJumatate
    noua = noua
    seara = seara
    fara = fara
    rau = rau
    Workers = {a1, a2}
    Auditor = Auditor
    NoThread = NoThread
    NoRow = NoRow
    Malformed = Malformed
    NullSlot = NullSlot
    Rooms <- MCRooms
    Capacity <- MCCapacity
    DefaultCapacity = 1
    Times = {zece, fara}
    OraStart <- MCOraStart
    OraGrup <- MCOraGrup
    Sume = {50}
    ReqIds = {1}
    MaxId = 2
    Faults = {"write", "crash", "audit"}
SYMMETRY Symmetry
INVARIANTS
    TypeOK
    SeatsWithinCapacity
